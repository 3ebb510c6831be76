-------------------------- MODULE InitJoin_proofs --------------------------
(***************************************************************************)
(* Theorems of InitJoin: they hold for any number of hosts, clusters,      *)
(* commands and faults, and for any SANs.                                  *)
(***************************************************************************)
EXTENDS InitJoin, TLAPS

(***************************************************************************)
(* The invariant.  What init guarantees; then, host by host, what a command*)
(* has found or made at each of its steps, also one that has swallowed a   *)
(* failure on the way; what holds only of calm ones says so.               *)
(***************************************************************************)
ClusterInv ==
  /\ cluster.outcome = "none" => cluster.next = 1 /\ \A h \in Host : node[h] = {}
  /\ cluster.outcome # "none" => cluster.id >= 1
  /\ cluster.outcome = "running" => cluster.next <= Len(Phases(cluster.edge))
  /\ cluster.outcome = "ok" => cluster.next = Len(Phases(cluster.edge)) + 1
  /\ cluster.sans # "ip" => cluster.edge
  /\ \A h \in Host : host[h].lite <= cluster.id /\ run[h].cluster <= cluster.id

BeforeLite == {"hosts", "discover", "edge-info", "lite"}
BeforeKubelet == BeforeLite \cup {"preflight", "kubelet-start"}
Joining(h, steps) == run[h].command = "join" /\ run[h].step \in steps

\* Only a join with --enable-edge has the steps of edgeadm, only a worker's that of lite-apiserver;
\* the name is an endpoint only of clusters that have one.
StepInv(h) ==
  /\ Running(h) => run[h].step \in IF run[h].command = "join" THEN JoinSteps ELSE ResetSteps
  /\ run[h].outcome = "none" <=> run[h].command = "none"
  /\ Joining(h, BeforeLite) => run[h].edge /\ run[h].server \in {"own", "alias"}
  /\ Joining(h, {"lite"}) => Worker(h)
  /\ Joining(h, {"hosts", "discover"}) => run[h].server = "own"
  /\ ~run[h].edge /\ Joining(h, JoinSteps) => run[h].server = "own"
  /\ run[h].command = "join" /\ run[h].endpoint = "name" /\ SameCluster(h) =>
       cluster.sans # "ip"

\* What a reset that went well leaves, and what there was before the first command.
CleanInv(h) ==
  /\ run[h].command = "none" => host[h].lite = 0 /\ host[h].kubelet = 0 /\ ~host[h].ca
  /\ run[h].command = "reset" /\ run[h].fresh =>
       /\ run[h].step = "cleanup-lite" \/ run[h].outcome = "ok" =>
            host[h].kubelet = 0 /\ ~host[h].ca
       /\ run[h].outcome = "ok" => host[h].lite = 0

Fresh(h) == run[h].command = "join" /\ run[h].fresh
LiteServes(h) == host[h].lite = run[h].cluster /\ (host[h].upstream = "alias" => host[h].resolves)

\* A failure that the join has swallowed may be that of /etc/hosts; kubeadm's preflight only
\* lets it on if lite-apiserver serves all the same.
FreshInv(h) ==
  Fresh(h) =>
    /\ Joining(h, BeforeKubelet) => host[h].kubelet = 0 /\ ~host[h].ca
    /\ Joining(h, BeforeLite) => host[h].lite = 0
    /\ run[h].calm /\ run[h].edge /\ run[h].endpoint = "ip"
         /\ Joining(h, JoinSteps \ {"hosts"}) => host[h].resolves
    /\ EdgeWorker(h) /\ Joining(h, {"preflight", "kubelet-start"}) => run[h].server = "lite"
    /\ EdgeWorker(h) /\ (Joining(h, {"kubelet-start", "label"}) \/ run[h].outcome = "ok") =>
         LiteServes(h)
    /\ EdgeWorker(h) /\ (Joining(h, {"label"}) \/ run[h].outcome = "ok") => host[h].via = "lite"

\* The Node is the one the join began with until the kubelet registers it; then it is gone
\* unless the cluster is still the same.
NodeInv(h) ==
  run[h].command = "join" =>
    /\ Running(h) => node[h] \cap Labels \subseteq run[h].found
    /\ Joining(h, BeforeKubelet) /\ "ready" \in node[h] => "ready" \in run[h].found
    /\ Joining(h, {"label"}) /\ node[h] # {} => SameCluster(h)
    /\ Joining(h, {"label"}) /\ SameCluster(h) => Answers(h, host[h].via)
    /\ run[h].outcome = "ok" /\ node[h] # {} =>
         /\ EdgeWorker(h) \/ run[h].calm => LabelsOf(h) \subseteq node[h]
         /\ node[h] \cap Labels \subseteq LabelsOf(h) \cup run[h].found

\* The DNS of the edge is set unless the server does not answer any more.
DnsInv(h) ==
  run[h].command = "join" /\ EdgeWorker(h) /\ run[h].there =>
    /\ SameCluster(h) => EdgeInfo
    /\ Joining(h, {"lite", "preflight", "kubelet-start"}) =>
         run[h].dns = "edge" \/ ~Answers(h, run[h].server)
    /\ Joining(h, {"label"}) \/ run[h].outcome = "ok" => host[h].dns = "edge"

\* The two cases in which no join can succeed; that the Node is still ready is the third.
Hopeless(h) ==
  run[h].edge /\ (~cluster.edge \/ (run[h].endpoint = "name" /\ cluster.sans = "mixed"))
SucceedInv(h) ==
  Fresh(h) /\ run[h].calm /\ run[h].done /\ SameCluster(h) =>
    /\ cluster.outcome = "ok"
    /\ ~Hopeless(h) =>
         /\ run[h].outcome = "error" => "ready" \in run[h].found
         /\ Joining(h, {"edge-info", "lite", "preflight", "kubelet-start"}) =>
              Answers(h, run[h].server)
         /\ Joining(h, {"edge-info"}) /\ run[h].endpoint = "name" => run[h].server = "own"

HostInv(h) ==
  StepInv(h) /\ CleanInv(h) /\ FreshInv(h) /\ NodeInv(h) /\ DnsInv(h) /\ SucceedInv(h)
Inv == TypeOK /\ ClusterInv /\ EdgeAppsFirst /\ \A h \in Host : HostInv(h)

----------------------------------------------------------------------------
(***************************************************************************)
(* The phases of init                                                      *)
(***************************************************************************)
\* What is published when init is at its next phase.
LEMMA DoneIs ==
  TypeOK =>
    /\ Up <=> cluster.next >= 2
    /\ "bootstrap-token" \in Done <=> cluster.next >= 3
    /\ EdgeInfo <=> cluster.edge /\ cluster.next >= 9
    /\ "update-config" \in Done <=> cluster.edge /\ cluster.next = 10
    /\ EdgeInfo => EdgeComponents \subseteq Done
<1> SUFFICES ASSUME TypeOK
             PROVE  /\ Up <=> cluster.next >= 2
                    /\ "bootstrap-token" \in Done <=> cluster.next >= 3
                    /\ EdgeInfo <=> cluster.edge /\ cluster.next >= 9
                    /\ "update-config" \in Done <=> cluster.edge /\ cluster.next = 10
                    /\ EdgeInfo => EdgeComponents \subseteq Done
  OBVIOUS
<1> DEFINE phases == Phases(cluster.edge)
<1>1. cluster.edge \in BOOLEAN /\ cluster.next \in 1..(Len(phases) + 1)
  BY DEF TypeOK
<1>2. \A x : x \in Done <=> \E i \in 1..(cluster.next - 1) : x = phases[i]
  BY Zenon DEF Done
<1>3. CASE cluster.edge
  <2>1. /\ Len(phases) = 9
        /\ phases[1] = "wait-control-plane" /\ phases[2] = "bootstrap-token"
        /\ phases[3] = "service-group" /\ phases[4] = "tunnel"
        /\ phases[5] = "edge-health" /\ phases[6] = "site-manager"
        /\ phases[7] = "edge-coredns" /\ phases[8] = "join-prepare"
        /\ phases[9] = "update-config"
    BY <1>3 DEF Phases, KubeadmPhases, EdgePhases
  <2>2. cluster.next \in 1..10
    BY <1>1, <2>1
  <2> HIDE DEF phases
  <2>3. \A i \in 1..(cluster.next - 1) :
          i = 1 \/ i = 2 \/ i = 3 \/ i = 4 \/ i = 5 \/ i = 6 \/ i = 7 \/ i = 8 \/ i = 9
    BY <2>2
  <2>4. \A i \in 1..9 : i < cluster.next => i \in 1..(cluster.next - 1)
    BY <2>2
  <2> QED
    BY <1>3, <1>2, <2>1, <2>2, <2>3, <2>4 DEF Up, EdgeInfo, EdgeComponents
<1>4. CASE ~cluster.edge
  <2>1. /\ Len(phases) = 2
        /\ phases[1] = "wait-control-plane" /\ phases[2] = "bootstrap-token"
    BY <1>4 DEF Phases, KubeadmPhases
  <2>2. cluster.next \in 1..3
    BY <1>1, <2>1
  <2> HIDE DEF phases
  <2>3. \A i \in 1..(cluster.next - 1) :
          i = 1 \/ i = 2
    BY <2>2
  <2>4. \A i \in 1..2 : i < cluster.next => i \in 1..(cluster.next - 1)
    BY <2>2
  <2> QED
    BY <1>4, <1>2, <2>1, <2>2, <2>3, <2>4 DEF Up, EdgeInfo, EdgeComponents
<1> QED
  BY <1>1, <1>3, <1>4

LEMMA PhasesLen ==
  ASSUME NEW edge \in BOOLEAN
  PROVE  Len(Phases(edge)) \in Nat \ {0}
<1>1. CASE edge
  BY <1>1 DEF Phases, KubeadmPhases, EdgePhases
<1>2. CASE ~edge
  BY <1>2 DEF Phases, KubeadmPhases
<1> QED
  BY <1>1, <1>2

----------------------------------------------------------------------------
(***************************************************************************)
(* Types                                                                   *)
(***************************************************************************)
\* A run that goes on, and one that ends.
LEMMA RunTyped ==
  ASSUME TypeOK, NEW h \in Host, Running(h)
  PROVE  /\ run[h] \in Runs
         /\ run[h].step \in JoinSteps \cup ResetSteps
         /\ Disturbed(h) \in Runs /\ Disturbed(h).step # "none"
         /\ Disturbed(h).outcome = "running"
<1>1. run[h] \in Runs /\ run[h].step # "none" /\ run[h].outcome = "running"
  BY DEF TypeOK, Running
<1> QED
  BY <1>1 DEF Runs, Disturbed

LEMMA GoesTyped ==
  ASSUME TypeOK, NEW h \in Host, NEW r \in Runs, r.outcome = "running"
  PROVE  Goes(h, r) \in Runs /\ Goes(h, r).step # "none" /\ Goes(h, r).outcome = "running"
<1>1. After(h, run[h].step) \in JoinSteps
  BY DEF After, JoinSteps
<1> QED
  BY <1>1 DEF Goes, Runs, JoinSteps

LEMMA EndsTyped ==
  ASSUME NEW r \in Runs, NEW how \in {"ok", "error"}
  PROVE  Ends(r, how) \in Runs /\ Ends(r, how).step = "none" /\ Ends(r, how).outcome = how
BY DEF Ends, Runs, Addresses, Outcomes

LEMMA SetTyped ==
  ASSUME TypeOK, NEW h \in Host, NEW r \in Runs, Set(h, r),
         r.outcome = "running" <=> r.step # "none"
  PROVE  run' \in [Host -> Runs] /\ \A g \in Host : Running(g)' <=> run'[g].step # "none"
BY DEF TypeOK, Running, Set

\* What a step of a host has to keep.
LEMMA HostStepTyped ==
  ASSUME TypeOK, NEW h \in Host, NEW r \in Runs, Set(h, r),
         r.outcome = "running" <=> r.step # "none", cluster' = cluster,
         host' \in [Host -> Hosts], node' \in [Host -> Nodes],
         commands' \in 0..MaxCommands, faults' \in 0..MaxFaults
  PROVE  TypeOK'
<1>1. /\ run' \in [Host -> Runs]
      /\ \A g \in Host : Running(g)' <=> run'[g].step # "none"
  BY SetTyped
<1>2. cluster' \in [id : Clusters, edge : BOOLEAN, sans : SANs \cup {"ip"},
                   next : 1..(Len(Phases(cluster.edge')) + 1), outcome : Outcomes]
  BY DEF TypeOK
<1> QED
  BY <1>1, <1>2 DEF TypeOK

LEMMA Kept ==
  ASSUME TypeOK
  PROVE  /\ host \in [Host -> Hosts] /\ node \in [Host -> Nodes]
         /\ commands \in 0..MaxCommands /\ faults \in 0..MaxFaults /\ cluster.id \in Clusters
         /\ 0 \in Clusters
BY BoundsAssumption DEF TypeOK, Clusters

LEMMA LeaveTyped ==
  ASSUME TypeOK, NEW h \in Host, NEW x \in Hosts, Leave(h, x)
  PROVE  host' \in [Host -> Hosts]
BY DEF TypeOK, Leave

\* What the steps write on a host.
LEMMA HostTyped ==
  ASSUME TypeOK, NEW h \in Host
  PROVE  /\ host[h] \in Hosts
         /\ \A b \in BOOLEAN :
              /\ [host[h] EXCEPT !.resolves = b] \in Hosts
              /\ [host[h] EXCEPT !.ca = b] \in Hosts
              /\ [host[h] EXCEPT !.ca = FALSE, !.resolves = b] \in Hosts
              /\ [host[h] EXCEPT !.resolves = b, !.lite = 0, !.upstream = "none"] \in Hosts
         /\ [host[h] EXCEPT !.lite = 0, !.upstream = "none"] \in Hosts
         /\ [host[h] EXCEPT !.kubelet = 0, !.via = "none", !.ca = FALSE, !.dns = "default"]
              \in Hosts
         /\ Lite(h) \in Hosts
         /\ run[h] \in Runs /\ Joined(h) \in Hosts
<1>1. host[h] \in Hosts /\ run[h] \in Runs /\ cluster.id \in Clusters /\ 0 \in Clusters
  BY Kept DEF TypeOK
<1>2. Lite(h) \in Hosts
  BY <1>1 DEF Lite, Hosts
<1>3. Joined(h) \in Hosts
  BY <1>1 DEF Joined, Hosts, Runs
<1> QED
  BY <1>1, <1>2, <1>3 DEF Hosts

\* A step that goes on, and one that ends the command.
LEMMA GoesOn ==
  ASSUME TypeOK, NEW h \in Host, NEW r \in Runs, NEW x \in Hosts, r.outcome = "running",
         Set(h, Goes(h, r)), Leave(h, x) \/ host' = host, cluster' = cluster,
         node' \in [Host -> Nodes],
         commands' \in 0..MaxCommands, faults' \in 0..MaxFaults
  PROVE  TypeOK'
<1>1. host' \in [Host -> Hosts]
  BY LeaveTyped, Kept
<1>2. Goes(h, r) \in Runs /\ Goes(h, r).step # "none" /\ Goes(h, r).outcome = "running"
  BY GoesTyped
<1> QED
  BY <1>1, <1>2, HostStepTyped

LEMMA EndsHere ==
  ASSUME TypeOK, NEW h \in Host, NEW r \in Runs, NEW x \in Hosts, NEW how \in {"ok", "error"},
         Set(h, Ends(r, how)), Leave(h, x) \/ host' = host, cluster' = cluster,
         node' \in [Host -> Nodes],
         commands' \in 0..MaxCommands, faults' \in 0..MaxFaults
  PROVE  TypeOK'
<1>1. host' \in [Host -> Hosts]
  BY LeaveTyped, Kept
<1>2. Ends(r, how) \in Runs /\ Ends(r, how).step = "none" /\ Ends(r, how).outcome = how
  BY EndsTyped
<1> QED
  BY <1>1, <1>2, HostStepTyped

LEMMA JoinTyped ==
  ASSUME TypeOK, NEW h \in Host, Join(h)
  PROVE  TypeOK'
<1>1. /\ Running(h) /\ run[h] \in Runs /\ run[h].outcome = "running" /\ host[h] \in Hosts
      /\ cluster' = cluster /\ commands' = commands /\ faults' = faults
  BY HostTyped
  DEF Running, At, Join, ConfigControlPlane, Discover, DiscoverTimesOut, PrepareEdgeNode,
      InstallLite, NoEdgeInfo, LiteRuns, Preflight, KubeletStart, AddLabel
<1>2. commands' \in 0..MaxCommands /\ faults' \in 0..MaxFaults
  BY <1>1, Kept
<1>3. node' = node => node' \in [Host -> Nodes]
  BY Kept
<1>4. ASSUME ConfigControlPlane(h) PROVE TypeOK'
  <2> DEFINE x == [host[h] EXCEPT !.resolves = @ \/ run[h].endpoint = "ip"]
  <2>1. x \in Hosts
    BY <1>1 DEF Hosts
  <2>2. Leave(h, x) /\ Set(h, Goes(h, run[h])) /\ node' = node
    BY <1>4 DEF ConfigControlPlane, Continue
  <2> QED
    BY <1>1, <1>2, <1>3, <2>1, <2>2, GoesOn
<1>5. ASSUME Discover(h) PROVE TypeOK'
  <2> DEFINE r == [run[h] EXCEPT !.server = IF ClusterInfo = "ip" THEN "alias" ELSE "own"]
  <2>1. r \in Runs /\ r.outcome = "running"
    BY <1>1 DEF Runs
  <2>2. Set(h, Goes(h, r)) /\ host' = host /\ node' = node
    BY <1>5 DEF Discover
  <2> QED
    BY <1>1, <1>2, <1>3, <2>1, <2>2, GoesOn
<1>6. ASSUME Fail(h), host' = host \/ Leave(h, [host[h] EXCEPT !.ca = FALSE])
                        \/ Leave(h, [host[h] EXCEPT !.ca = TRUE]), node' = node
      PROVE  TypeOK'
  <2>1. Set(h, Ends(run[h], "error"))
    BY <1>6 DEF Fail
  <2>2. [host[h] EXCEPT !.ca = FALSE] \in Hosts /\ [host[h] EXCEPT !.ca = TRUE] \in Hosts
    BY HostTyped
  <2> QED
    BY <1>1, <1>2, <1>3, <1>6, <2>1, <2>2, EndsHere
<1>7. ASSUME PrepareEdgeNode(h) PROVE TypeOK'
  <2> DEFINE found == Worker(h) /\ Answers(h, run[h].server) /\ EdgeInfo
             x == [host[h] EXCEPT !.ca = FALSE, !.resolves = IF found THEN NodeHosts(h) ELSE @]
             r == [run[h] EXCEPT !.dns = IF found THEN "edge" ELSE @]
  <2>1. r \in Runs /\ r.outcome = "running"
    BY <1>1 DEF Runs
  <2>2. x \in Hosts
    BY <1>1 DEF Hosts, NodeHosts
  <2>3. Leave(h, x) /\ Set(h, Goes(h, r)) /\ node' = node
    BY <1>7 DEF PrepareEdgeNode
  <2> QED
    BY <1>1, <1>2, <1>3, <2>1, <2>2, <2>3, GoesOn
<1>8. ASSUME InstallLite(h) PROVE TypeOK'
  <2> DEFINE r == [run[h] EXCEPT !.server = "lite"]
  <2>1. r \in Runs /\ r.outcome = "running"
    BY <1>1 DEF Runs
  <2>2. Leave(h, Lite(h)) /\ Set(h, Goes(h, r)) /\ node' = node
    BY <1>8 DEF InstallLite
  <2>3. Lite(h) \in Hosts
    BY HostTyped
  <2> QED
    BY <1>1, <1>2, <1>3, <2>1, <2>2, <2>3, GoesOn
<1>9. ASSUME Continue(h), host' = host, node' = node PROVE TypeOK'
  BY <1>1, <1>2, <1>3, <1>9, GoesOn DEF Continue
<1>10. ASSUME KubeletStart(h) PROVE TypeOK'
  <2>1. CASE /\ Leave(h, Joined(h)) /\ Continue(h)
             /\ node' = Registered(h)
    <3>1. node' \in [Host -> Nodes]
      BY <2>1, Kept DEF Registered, Nodes
    <3>2. Joined(h) \in Hosts
      BY HostTyped
    <3> QED
      BY <1>1, <1>2, <2>1, <3>1, <3>2, GoesOn DEF Continue
  <2>2. CASE Leave(h, [host[h] EXCEPT !.ca = TRUE]) /\ Fail(h) /\ node' = node
    BY <1>6, <2>2
  <2> QED
    BY <1>10, <2>1, <2>2 DEF KubeletStart
<1>11. ASSUME AddLabel(h) PROVE TypeOK'
  <2>1. \E how \in {"ok", "error"} : Set(h, Ends(run[h], how))
    BY <1>11 DEF AddLabel
  <2>2. LabelsOf(h) \subseteq Labels
    BY DEF LabelsOf, Labels
  <2>3. node' \in [Host -> Nodes]
    BY <1>11, <2>2, Kept DEF AddLabel, Nodes
  <2>4. host' = host
    BY <1>11 DEF AddLabel
  <2> QED
    BY <1>1, <1>2, <2>1, <2>3, <2>4, EndsHere
<1> QED
  BY <1>4, <1>5, <1>6, <1>7, <1>8, <1>9, <1>10, <1>11
  DEF Join, DiscoverTimesOut, NoEdgeInfo, LiteRuns, Preflight

LEMMA ResetTyped ==
  ASSUME TypeOK, NEW h \in Host, Reset(h)
  PROVE  TypeOK'
<1>1. /\ Running(h) /\ run[h] \in Runs /\ host[h] \in Hosts
      /\ cluster' = cluster /\ node' \in [Host -> Nodes]
      /\ commands' \in 0..MaxCommands /\ faults' \in 0..MaxFaults
  BY HostTyped, Kept DEF Reset, CleanupNode, CleanupLite, ResetAt
<1>2. ASSUME CleanupNode(h) PROVE TypeOK'
  <2> DEFINE x == [host[h] EXCEPT !.kubelet = 0, !.via = "none", !.ca = FALSE, !.dns = "default"]
             r == [run[h] EXCEPT !.step = "cleanup-lite"]
  <2>1. x \in Hosts
    BY HostTyped
  <2>2. r \in Runs /\ r.step # "none" /\ r.outcome = "running"
    BY <1>1 DEF Runs, ResetSteps, Running
  <2>3. Leave(h, x) /\ Set(h, r)
    BY <1>2 DEF CleanupNode
  <2>4. host' \in [Host -> Hosts]
    BY <2>1, <2>3, LeaveTyped
  <2> QED
    BY <1>1, <2>2, <2>3, <2>4, HostStepTyped
<1>3. ASSUME CleanupLite(h) PROVE TypeOK'
  <2> DEFINE x == [host[h] EXCEPT !.resolves = FALSE, !.lite = 0, !.upstream = "none"]
  <2>1. x \in Hosts
    BY HostTyped
  <2>2. Leave(h, x) /\ Set(h, Ends(run[h], "ok"))
    BY <1>3 DEF CleanupLite
  <2> QED
    BY <1>1, <2>1, <2>2, EndsHere
<1> QED
  BY <1>2, <1>3 DEF Reset

LEMMA StartTyped ==
  ASSUME TypeOK, NEW h \in Host, StartJoin(h) \/ StartReset(h)
  PROVE  TypeOK'
<1>1. /\ cluster' = cluster /\ host' \in [Host -> Hosts]
      /\ node' \in [Host -> Nodes]
      /\ commands' \in 0..MaxCommands /\ faults' \in 0..MaxFaults
  BY Kept, BoundsAssumption DEF StartJoin, StartReset
<1>2. ASSUME StartJoin(h) PROVE TypeOK'
  <2>1. PICK worker, edge \in BOOLEAN, endpoint \in Addresses :
          Set(h, NewJoin(h, worker, edge, endpoint))
    BY <1>2 DEF StartJoin, Endpoints, Addresses
  <2> DEFINE r == NewJoin(h, worker, edge, endpoint)
  <2>2. Untouched(h) \in BOOLEAN /\ EdgeInfo \in BOOLEAN /\ node[h] \in Nodes
    <3>1. run[h].fresh \in BOOLEAN
      BY HostTyped DEF Runs
    <3>2. EdgeInfo \in BOOLEAN
      BY DEF EdgeInfo
    <3>3. Untouched(h) \in BOOLEAN
      BY <3>1 DEF Untouched
    <3> QED
      BY <3>2, <3>3, Kept
  <2>3. r \in Runs /\ r.step # "none" /\ r.outcome = "running"
    BY <2>2, Kept DEF NewJoin, Runs, JoinSteps, Outcomes
  <2> HIDE DEF r
  <2> QED
    BY <1>1, <2>1, <2>3, HostStepTyped DEF r
<1>3. ASSUME StartReset(h) PROVE TypeOK'
  <2>1. NewReset \in Runs /\ NewReset.step # "none" /\ NewReset.outcome = "running"
    BY Kept DEF NewReset, NoRun, Runs, ResetSteps, Outcomes, Addresses, Nodes
  <2>2. Set(h, NewReset)
    BY <1>3 DEF StartReset
  <2> QED
    BY <1>1, <2>1, <2>2, HostStepTyped
<1> QED
  BY <1>2, <1>3

LEMMA FaultTyped ==
  ASSUME TypeOK, NEW h \in Host, Stops(h) \/ Swallowed(h)
  PROVE  TypeOK'
<1>1. /\ Running(h) /\ run[h] \in Runs /\ host[h] \in Hosts /\ cluster' = cluster
      /\ Disturbed(h) \in Runs /\ Disturbed(h).outcome = "running"
  BY HostTyped, RunTyped DEF Stops, Swallowed, At, ResetAt
<1>2. commands' \in 0..MaxCommands /\ faults' \in 0..MaxFaults
  BY Kept, BoundsAssumption DEF Stops, Swallowed, CountFault
<1>3. /\ Lite(h) \in Hosts /\ Joined(h) \in Hosts
      /\ [host[h] EXCEPT !.resolves = FALSE] \in Hosts
      /\ [host[h] EXCEPT !.ca = FALSE] \in Hosts
      /\ [host[h] EXCEPT !.lite = 0, !.upstream = "none"] \in Hosts
      /\ \A b \in {FALSE, host[h].resolves} :
           /\ [host[h] EXCEPT !.resolves = b] \in Hosts
           /\ [host[h] EXCEPT !.ca = FALSE, !.resolves = b] \in Hosts
  <2>1. host[h].resolves \in BOOLEAN
    BY <1>1 DEF Hosts
  <2> QED
    BY <2>1, HostTyped
<1>4. ASSUME Stops(h) PROVE TypeOK'
  <2>1. node' \in [Host -> Nodes]
    BY <1>4, Kept DEF Stops, Registered, Nodes
  <2>2. Set(h, Ends(Disturbed(h), "error"))
    BY <1>4 DEF Stops
  <2>3. \E x \in Hosts : Leave(h, x)
    BY <1>1, <1>3, <1>4 DEF Stops
  <2> QED
    BY <1>1, <1>2, <2>1, <2>2, <2>3, EndsHere
<1>5. ASSUME Swallowed(h) PROVE TypeOK'
  <2>1. node' \in [Host -> Nodes]
    BY <1>5, Kept DEF Swallowed
  <2>2. /\ [Disturbed(h) EXCEPT !.dns = "edge"] \in Runs
        /\ [Disturbed(h) EXCEPT !.dns = "edge"].outcome = "running"
    BY <1>1 DEF Runs
  <2>3. /\ [Disturbed(h) EXCEPT !.server = "lite"] \in Runs
        /\ [Disturbed(h) EXCEPT !.server = "lite"].outcome = "running"
    BY <1>1 DEF Runs
  <2>7. /\ [Disturbed(h) EXCEPT !.there = FALSE] \in Runs
        /\ [Disturbed(h) EXCEPT !.there = FALSE].outcome = "running"
    BY <1>1 DEF Runs
  <2>8. [Disturbed(h) EXCEPT !.fresh = FALSE] \in Runs
    BY <1>1 DEF Runs
  <2>4. \E x \in Hosts : Leave(h, x) \/ host' = host
    BY <1>1, <1>3, <1>5 DEF Swallowed
  <2>5. CASE \E r \in Runs : r.outcome = "running" /\ Set(h, Goes(h, r))
    BY <1>1, <1>2, <2>1, <2>4, <2>5, GoesOn
  <2>6. CASE \E r \in Runs : Set(h, Ends(r, "ok"))
    BY <1>1, <1>2, <2>1, <2>4, <2>6, EndsHere
  <2> QED
    BY <1>1, <1>5, <2>2, <2>3, <2>5, <2>6, <2>7, <2>8 DEF Swallowed
<1> QED
  BY <1>4, <1>5

ClusterStep == StartInit \/ RunPhase \/ InitFails \/ ResetMaster
ClusterTypes(len) ==
  [id : Clusters, edge : BOOLEAN, sans : SANs \cup {"ip"}, next : 1..(len + 1), outcome : Outcomes]

LEMMA ClusterTyped ==
  ASSUME TypeOK, ClusterInv, ClusterStep
  PROVE  TypeOK'
<1>1. /\ host' = host /\ run' = run /\ commands' = commands
      /\ node' \in [Host -> Nodes]
      /\ faults' \in 0..MaxFaults
  <2>1. node' = node \/ node' = [h \in Host |-> {}]
    BY DEF ClusterStep, StartInit, RunPhase, InitFails, ResetMaster
  <2>2. node' \in [Host -> Nodes]
    BY <2>1, Kept DEF Nodes
  <2>3. faults' \in 0..MaxFaults
    BY Kept, BoundsAssumption DEF ClusterStep, StartInit, RunPhase, InitFails, ResetMaster
  <2> QED
    BY <2>2, <2>3 DEF ClusterStep, StartInit, RunPhase, InitFails, ResetMaster
<1>2. PICK len \in Nat \ {0} : len = Len(Phases(cluster.edge)) /\ cluster \in ClusterTypes(len)
  <2>1. cluster \in ClusterTypes(Len(Phases(cluster.edge))) /\ cluster.edge \in BOOLEAN
    BY DEF TypeOK, ClusterTypes
  <2> QED
    BY <2>1, PhasesLen
<1>3. cluster.next \in 1..(len + 1) /\ cluster.outcome \in Outcomes
  BY <1>2 DEF ClusterTypes
<1> DEFINE Typed == cluster' \in ClusterTypes(Len(Phases(cluster'.edge)))
<1>4. ASSUME StartInit PROVE Typed
  <2>1. PICK edge \in BOOLEAN, sans \in SANs \cup {"ip"} :
          cluster' = [id |-> cluster.id + 1, edge |-> edge, sans |-> sans, next |-> 1,
                      outcome |-> "running"]
    BY <1>4 DEF StartInit
  <2>2. cluster.id + 1 \in Clusters
    BY <1>2, <1>4, BoundsAssumption DEF StartInit, Clusters, ClusterTypes
  <2>3. PICK last \in Nat \ {0} : last = Len(Phases(edge))
    BY PhasesLen
  <2>4. cluster' \in ClusterTypes(last) /\ cluster'.edge = edge
    BY <2>1, <2>2 DEF ClusterTypes, Outcomes
  <2> QED
    BY <2>3, <2>4
<1>5. ASSUME RunPhase PROVE Typed
  <2>1. PICK how \in {"ok", cluster.outcome} :
          cluster' = [id |-> cluster.id, edge |-> cluster.edge, sans |-> cluster.sans,
                      next |-> cluster.next + 1, outcome |-> how]
    BY <1>2, <1>5 DEF RunPhase, ClusterTypes
  <2>2. cluster.next <= len
    BY <1>2, <1>5 DEF RunPhase, ClusterInv
  <2>3. how \in Outcomes /\ cluster.next + 1 \in 1..(len + 1)
    BY <1>3, <2>2 DEF Outcomes
  <2>4. cluster' \in ClusterTypes(len) /\ cluster'.edge = cluster.edge
    BY <1>2, <2>1, <2>3 DEF ClusterTypes
  <2> QED
    BY <1>2, <2>4
<1>6. ASSUME InitFails PROVE Typed
  <2>1. PICK done \in 0..1 :
          cluster' = [id |-> cluster.id, edge |-> cluster.edge, sans |-> cluster.sans,
                      next |-> cluster.next + done, outcome |-> "error"]
    BY <1>2, <1>6 DEF InitFails, ClusterTypes
  <2>2. cluster.next <= len
    BY <1>2, <1>6 DEF InitFails, ClusterInv
  <2>3. "error" \in Outcomes /\ cluster.next + done \in 1..(len + 1)
    BY <1>3, <2>2 DEF Outcomes
  <2>4. cluster' \in ClusterTypes(len) /\ cluster'.edge = cluster.edge
    BY <1>2, <2>1, <2>3 DEF ClusterTypes
  <2> QED
    BY <1>2, <2>4
<1>7. ASSUME ResetMaster PROVE Typed
  <2>1. cluster' = [id |-> cluster.id, edge |-> FALSE, sans |-> "ip", next |-> 1,
                    outcome |-> "none"]
    BY <1>2, <1>7 DEF ResetMaster, ClusterTypes
  <2>2. cluster'.edge \in BOOLEAN
    BY <2>1
  <2>3. PICK last \in Nat \ {0} : last = Len(Phases(cluster'.edge))
    BY <2>2, PhasesLen
  <2>4. cluster' \in ClusterTypes(last)
    BY <1>2, <2>1 DEF ClusterTypes, Outcomes
  <2> QED
    BY <2>3, <2>4
<1>8. Typed
  BY <1>4, <1>5, <1>6, <1>7 DEF ClusterStep
<1> QED
  BY <1>1, <1>8 DEF TypeOK, Running, ClusterTypes

\* A host's step leaves the cluster and the other hosts alone.
HostStep(h) ==
  StartJoin(h) \/ Join(h) \/ StartReset(h) \/ Reset(h) \/ Stops(h) \/ Swallowed(h)
LEMMA NextTyped == TypeOK /\ ClusterInv /\ [Next]_vars => TypeOK'
<1> SUFFICES ASSUME TypeOK, ClusterInv, [Next]_vars PROVE TypeOK'
  OBVIOUS
<1>1. ASSUME NEW h \in Host, HostStep(h) PROVE TypeOK'
  BY <1>1, JoinTyped, ResetTyped, StartTyped, FaultTyped DEF HostStep
<1>2. ASSUME NEW h \in Host, DeleteNode(h) \/ NodeNotReady(h) PROVE TypeOK'
  <2>1. node' \in [Host -> Nodes]
    BY <1>2, Kept DEF DeleteNode, NodeNotReady, Nodes
  <2> QED
    BY <1>2, <2>1 DEF DeleteNode, NodeNotReady, TypeOK, Running
<1>3. ASSUME UNCHANGED vars PROVE TypeOK'
  BY <1>3 DEF TypeOK, Running, vars
<1> QED
  BY <1>1, <1>2, <1>3, ClusterTyped DEF Next, HostStep, ClusterStep

LEMMA InitTyped == Init => TypeOK
<1> SUFFICES ASSUME Init PROVE TypeOK
  OBVIOUS
<1>1. PICK len \in Nat \ {0} : len = Len(Phases(cluster.edge))
  <2>1. cluster.edge \in BOOLEAN
    BY DEF Init
  <2> QED
    BY <2>1, PhasesLen
<1>2. 0 \in Clusters
  BY BoundsAssumption DEF Clusters
<1>3. cluster \in ClusterTypes(len)
  BY <1>2 DEF Init, Outcomes, ClusterTypes
<1>4. NoRun \in Runs /\ NoRun.step = "none" /\ NoRun.outcome = "none"
  BY <1>2 DEF NoRun, Runs, Addresses, Outcomes, Nodes
<1>5. run \in [Host -> Runs] /\ \A h \in Host : Running(h) <=> run[h].step # "none"
  BY <1>4 DEF Init, Running
<1>6. CleanHost \in Hosts
  BY <1>2 DEF CleanHost, Hosts
<1>7. host \in [Host -> Hosts] /\ node \in [Host -> Nodes]
  BY <1>6 DEF Init, Nodes
<1>8. commands \in 0..MaxCommands /\ faults \in 0..MaxFaults
  BY BoundsAssumption DEF Init
<1> QED
  BY <1>1, <1>3, <1>5, <1>7, <1>8 DEF TypeOK, ClusterTypes

----------------------------------------------------------------------------
(***************************************************************************)
(* What init guarantees, and the applications before lite-apiserver        *)
(***************************************************************************)
\* What a step of a host leaves alone, and what it can write of a cluster.
Frame(h) ==
  /\ cluster' = cluster
  /\ \A g \in Host : g # h => host'[g] = host[g] /\ run'[g] = run[g] /\ node'[g] = node[g]
  /\ node'[h] # node[h] => Up
  /\ host'[h].lite \in {0, host[h].lite} \/ (EdgeInfo /\ host'[h].lite = cluster.id)
  /\ run'[h].cluster \in {0, run[h].cluster, cluster.id}

LEMMA WritesOnly ==
  ASSUME TypeOK, NEW h \in Host
  PROVE  /\ \A r : Set(h, r) => run'[h] = r /\ \A g \in Host : g # h => run'[g] = run[g]
         /\ \A x : Leave(h, x) => host'[h] = x /\ \A g \in Host : g # h => host'[g] = host[g]
         /\ \A x : node' = [node EXCEPT ![h] = x] =>
                node'[h] = x /\ \A g \in Host : g # h => node'[g] = node[g]
BY DEF TypeOK, Set, Leave

LEMMA ClusterOfRun ==
  ASSUME TypeOK, NEW h \in Host, NEW r \in Runs
  PROVE  /\ Goes(h, r).cluster = r.cluster
         /\ \A how : Ends(r, how).cluster = r.cluster
         /\ Disturbed(h).cluster = run[h].cluster
         /\ \A server : [r EXCEPT !.server = server].cluster = r.cluster
         /\ \A dns : [r EXCEPT !.dns = dns].cluster = r.cluster
         /\ [r EXCEPT !.there = FALSE].cluster = r.cluster
         /\ [r EXCEPT !.fresh = FALSE].cluster = r.cluster
<1>1. run[h] \in Runs
  BY HostTyped
<1> QED
  BY <1>1 DEF Goes, Ends, Disturbed, Runs

\* What the steps do to lite-apiserver.
LEMMA LiteOfHost ==
  ASSUME TypeOK, NEW h \in Host
  PROVE  /\ \A b : [host[h] EXCEPT !.resolves = b].lite = host[h].lite
         /\ \A b : [host[h] EXCEPT !.ca = b].lite = host[h].lite
         /\ \A b : [host[h] EXCEPT !.ca = FALSE, !.resolves = b].lite = host[h].lite
         /\ [host[h] EXCEPT !.resolves = FALSE, !.lite = 0, !.upstream = "none"].lite = 0
         /\ [host[h] EXCEPT !.lite = 0, !.upstream = "none"].lite = 0
         /\ [host[h] EXCEPT !.kubelet = 0, !.via = "none", !.ca = FALSE, !.dns = "default"].lite
              = host[h].lite
         /\ Lite(h).lite = cluster.id /\ Joined(h).lite = host[h].lite
<1>1. host[h] \in Hosts
  BY HostTyped
<1> QED
  BY <1>1 DEF Hosts, Lite, Joined

LEMMA LeavesLite ==
  ASSUME TypeOK, NEW h \in Host, NEW x, Leave(h, x),
         x.lite \in {0, host[h].lite} \/ (EdgeInfo /\ x.lite = cluster.id)
  PROVE  /\ \A g \in Host : g # h => host'[g] = host[g]
         /\ host'[h].lite \in {0, host[h].lite} \/ (EdgeInfo /\ host'[h].lite = cluster.id)
BY WritesOnly

LEMMA JoinFrame ==
  ASSUME TypeOK, NEW h \in Host, Join(h)
  PROVE  Frame(h)
<1>1. run[h] \in Runs /\ cluster' = cluster
  BY HostTyped
  DEF Join, ConfigControlPlane, Discover, DiscoverTimesOut, PrepareEdgeNode, InstallLite,
      NoEdgeInfo, LiteRuns, Preflight, KubeletStart, AddLabel
<1>2. ASSUME NEW r \in Runs, r.cluster = run[h].cluster,
             Set(h, Goes(h, r)) \/ Set(h, Ends(r, "ok")) \/ Set(h, Ends(r, "error"))
      PROVE  /\ run'[h].cluster = run[h].cluster
             /\ \A g \in Host : g # h => run'[g] = run[g]
  BY <1>2, WritesOnly, ClusterOfRun
<1>3. /\ run'[h].cluster = run[h].cluster
      /\ \A g \in Host : g # h => run'[g] = run[g]
  <2>1. CASE Continue(h) \/ Fail(h) \/ Set(h, Ends(run[h], "ok")) \/ Set(h, Ends(run[h], "error"))
    BY <1>1, <1>2, <2>1 DEF Continue, Fail
  <2>2. CASE Discover(h) \/ PrepareEdgeNode(h) \/ InstallLite(h)
    <3>1. PICK r \in Runs : r.cluster = run[h].cluster /\ Set(h, Goes(h, r))
      BY <1>1, <2>2 DEF Discover, PrepareEdgeNode, InstallLite, Runs
    <3> QED
      BY <1>2, <3>1
  <2>3. \/ Continue(h) \/ Fail(h) \/ Set(h, Ends(run[h], "ok")) \/ Set(h, Ends(run[h], "error"))
        \/ Discover(h) \/ PrepareEdgeNode(h) \/ InstallLite(h)
    BY DEF Join, ConfigControlPlane, DiscoverTimesOut, NoEdgeInfo, LiteRuns, Preflight,
           KubeletStart, AddLabel
  <2> QED
    BY <2>1, <2>2, <2>3
<1>4. /\ \A g \in Host : g # h => node'[g] = node[g]
      /\ node'[h] # node[h] => Up
  <2>1. CASE node' = node
    BY <2>1
  <2>2. CASE KubeletStart(h) \/ AddLabel(h)
    BY <2>2, WritesOnly DEF KubeletStart, Startable, Registered, AddLabel, Answers
  <2>3. node' = node \/ KubeletStart(h) \/ AddLabel(h)
    BY DEF Join, ConfigControlPlane, Discover, DiscoverTimesOut, PrepareEdgeNode, InstallLite,
           NoEdgeInfo, LiteRuns, Preflight
  <2> QED
    BY <2>1, <2>2, <2>3
<1>5. /\ \A g \in Host : g # h => host'[g] = host[g]
      /\ host'[h].lite \in {0, host[h].lite} \/ (EdgeInfo /\ host'[h].lite = cluster.id)
  <2>1. CASE host' = host
    BY <2>1
  <2>2. CASE \E b : Leave(h, [host[h] EXCEPT !.resolves = b])
    BY <2>2, LiteOfHost, LeavesLite
  <2>3. CASE \E b : \/ Leave(h, [host[h] EXCEPT !.ca = b])
                    \/ Leave(h, [host[h] EXCEPT !.ca = FALSE, !.resolves = b])
    BY <2>3, LiteOfHost, LeavesLite
  <2>4. CASE InstallLite(h)
    BY <2>4, LiteOfHost, LeavesLite DEF InstallLite
  <2>5. CASE KubeletStart(h)
    BY <2>5, LiteOfHost, LeavesLite DEF KubeletStart
  <2>6. ConfigControlPlane(h) => \E b : Leave(h, [host[h] EXCEPT !.resolves = b])
    BY DEF ConfigControlPlane
  <2>7. PrepareEdgeNode(h) => \E b : Leave(h, [host[h] EXCEPT !.ca = FALSE, !.resolves = b])
    BY DEF PrepareEdgeNode
  <2>8. NoEdgeInfo(h) => \E b : Leave(h, [host[h] EXCEPT !.ca = b])
    BY DEF NoEdgeInfo
  <2>9. Discover(h) \/ DiscoverTimesOut(h) \/ LiteRuns(h) \/ Preflight(h) \/ AddLabel(h)
          => host' = host
    BY DEF Discover, DiscoverTimesOut, LiteRuns, Preflight, AddLabel
  <2> QED
    BY <2>1, <2>2, <2>3, <2>4, <2>5, <2>6, <2>7, <2>8, <2>9 DEF Join
<1> QED
  BY <1>1, <1>3, <1>4, <1>5 DEF Frame

LEMMA CommandFrame ==
  ASSUME TypeOK, NEW h \in Host, StartJoin(h) \/ StartReset(h) \/ Reset(h)
  PROVE  Frame(h)
<1>1. cluster' = cluster /\ node' = node /\ run[h] \in Runs
  BY HostTyped DEF StartJoin, StartReset, Reset, CleanupNode, CleanupLite
<1>2. /\ \A g \in Host : g # h => host'[g] = host[g]
      /\ host'[h].lite \in {0, host[h].lite} \/ (EdgeInfo /\ host'[h].lite = cluster.id)
  <2>1. CASE host' = host
    BY <2>1
  <2>2. CASE CleanupNode(h)
    BY <2>2, LiteOfHost, LeavesLite DEF CleanupNode
  <2>3. CASE CleanupLite(h)
    BY <2>3, LiteOfHost, LeavesLite DEF CleanupLite
  <2> QED
    BY <2>1, <2>2, <2>3 DEF StartJoin, StartReset, Reset
<1>3. \E r : Set(h, r) /\ r.cluster \in {0, run[h].cluster, cluster.id}
  <2>1. CASE StartJoin(h)
    <3>1. \A worker, edge, endpoint : NewJoin(h, worker, edge, endpoint).cluster = cluster.id
      BY DEF NewJoin
    <3> QED
      BY <2>1, <3>1 DEF StartJoin
  <2>2. CASE StartReset(h)
    <3>1. NewReset.cluster = 0
      BY DEF NewReset, NoRun
    <3> QED
      BY <2>2, <3>1 DEF StartReset
  <2>3. CASE CleanupNode(h)
    BY <1>1, <2>3 DEF CleanupNode, Runs
  <2>4. CASE CleanupLite(h)
    BY <1>1, <2>4, ClusterOfRun DEF CleanupLite
  <2> QED
    BY <2>1, <2>2, <2>3, <2>4 DEF Reset
<1>4. /\ \A g \in Host : g # h => run'[g] = run[g]
      /\ run'[h].cluster \in {0, run[h].cluster, cluster.id}
  BY <1>3, WritesOnly
<1> QED
  BY <1>1, <1>2, <1>4 DEF Frame

LEMMA FaultFrame ==
  ASSUME TypeOK, NEW h \in Host, Stops(h) \/ Swallowed(h)
  PROVE  Frame(h)
<1>1. cluster' = cluster /\ Disturbed(h) \in Runs
  BY RunTyped DEF Stops, Swallowed, At, ResetAt
<1>2. /\ \A g \in Host : g # h => node'[g] = node[g]
      /\ node'[h] # node[h] => Up
  BY WritesOnly DEF Stops, Swallowed, Startable, Registered, Answers
<1>3. \E r : Set(h, r) /\ r.cluster = run[h].cluster
  <2>1. CASE Stops(h)
    BY <1>1, <2>1, ClusterOfRun DEF Stops
  <2>2. CASE \E r \in Runs : r.cluster = run[h].cluster /\ Set(h, Goes(h, r))
    BY <2>2, ClusterOfRun
  <2>3. CASE \E r \in Runs : r.cluster = run[h].cluster /\ Set(h, Ends(r, "ok"))
    BY <2>3, ClusterOfRun
  <2>4. /\ [Disturbed(h) EXCEPT !.dns = "edge"] \in Runs
        /\ [Disturbed(h) EXCEPT !.server = "lite"] \in Runs
        /\ [Disturbed(h) EXCEPT !.there = FALSE] \in Runs
        /\ [Disturbed(h) EXCEPT !.fresh = FALSE] \in Runs
    BY <1>1 DEF Runs
  <2>5. /\ [Disturbed(h) EXCEPT !.dns = "edge"].cluster = run[h].cluster
        /\ [Disturbed(h) EXCEPT !.server = "lite"].cluster = run[h].cluster
        /\ [Disturbed(h) EXCEPT !.there = FALSE].cluster = run[h].cluster
        /\ [Disturbed(h) EXCEPT !.fresh = FALSE].cluster = run[h].cluster
        /\ Disturbed(h).cluster = run[h].cluster
    BY <1>1, ClusterOfRun
  <2>6. Swallowed(h) => \/ \E r \in Runs : r.cluster = run[h].cluster /\ Set(h, Goes(h, r))
                       \/ \E r \in Runs : r.cluster = run[h].cluster /\ Set(h, Ends(r, "ok"))
    BY <1>1, <2>4, <2>5 DEF Swallowed
  <2> QED
    BY <2>1, <2>2, <2>3, <2>6
<1>4. /\ \A g \in Host : g # h => run'[g] = run[g]
      /\ run'[h].cluster = run[h].cluster
  BY <1>3, WritesOnly
<1>5. /\ \A g \in Host : g # h => host'[g] = host[g]
      /\ host'[h].lite \in {0, host[h].lite} \/ (EdgeInfo /\ host'[h].lite = cluster.id)
  <2>1. CASE Stops(h)
    BY <2>1, LiteOfHost, LeavesLite DEF Stops
  <2>2. CASE \E b : Leave(h, [host[h] EXCEPT !.resolves = b])
    BY <2>2, LiteOfHost, LeavesLite
  <2>3. CASE \E b : \/ Leave(h, [host[h] EXCEPT !.ca = b])
                    \/ Leave(h, [host[h] EXCEPT !.ca = FALSE, !.resolves = b])
    BY <2>3, LiteOfHost, LeavesLite
  <2>4. CASE \/ EdgeInfo /\ Leave(h, Lite(h))
             \/ host' = host \/ Leave(h, host[h])
             \/ Leave(h, [host[h] EXCEPT !.lite = 0, !.upstream = "none"])
    BY <2>4, LiteOfHost, LeavesLite
  <2> QED
    BY <2>1, <2>2, <2>3, <2>4 DEF Swallowed
<1> QED
  BY <1>1, <1>2, <1>4, <1>5 DEF Frame

LEMMA StepFrame ==
  ASSUME TypeOK, NEW h \in Host, HostStep(h)
  PROVE  Frame(h)
BY JoinFrame, CommandFrame, FaultFrame DEF HostStep

LEMMA InNat ==
  TypeOK => cluster.id \in Nat /\ \A h \in Host : host[h].lite \in Nat /\ run[h].cluster \in Nat
<1> SUFFICES ASSUME TypeOK PROVE cluster.id \in Nat
      /\ \A h \in Host : host[h].lite \in Nat /\ run[h].cluster \in Nat
  OBVIOUS
<1>1. Clusters \subseteq Nat
  BY BoundsAssumption DEF Clusters
<1>2. ASSUME NEW h \in Host PROVE host[h].lite \in Nat /\ run[h].cluster \in Nat
  <2>1. host[h] \in Hosts /\ run[h] \in Runs
    BY HostTyped
  <2> QED
    BY <1>1, <2>1 DEF Hosts, Runs
<1> QED
  BY <1>1, <1>2, Kept

LEMMA HostStepCluster ==
  ASSUME TypeOK, ClusterInv, EdgeAppsFirst, NEW h \in Host, Frame(h)
  PROVE  ClusterInv' /\ EdgeAppsFirst'
<1>1. /\ Done' = Done /\ (EdgeInfo => EdgeComponents \subseteq Done)
      /\ (Up => cluster.next >= 2)
  BY DoneIs DEF Done, Frame
<1>2. cluster.id \in Nat /\ \A g \in Host : host[g].lite \in Nat /\ run[g].cluster \in Nat
  BY InNat
<1>3. ClusterInv'
  <2>1. \A g \in Host : host'[g].lite <= cluster.id /\ run'[g].cluster <= cluster.id
    BY <1>2 DEF Frame, ClusterInv
  <2>2. cluster.outcome = "none" => \A g \in Host : node'[g] = {}
    BY <1>1 DEF Frame, ClusterInv
  <2> QED
    BY <2>1, <2>2 DEF Frame, ClusterInv
<1>4. EdgeAppsFirst'
  <2>1. ASSUME cluster.outcome # "none", NEW g \in Host, host'[g].lite = cluster.id
        PROVE  EdgeComponents \subseteq Done
    <3>1. cluster.id # 0
      BY <1>2, <2>1 DEF ClusterInv
    <3>2. host[g].lite = cluster.id \/ EdgeInfo
      BY <2>1, <3>1 DEF Frame
    <3> QED
      BY <1>1, <2>1, <3>2 DEF EdgeAppsFirst
  <2> QED
    BY <1>1, <2>1 DEF EdgeAppsFirst, Frame
<1> QED
  BY <1>3, <1>4

LEMMA StartCluster ==
  ASSUME TypeOK, ClusterInv, StartInit
  PROVE  ClusterInv' /\ EdgeAppsFirst'
<1>1. PICK edge \in BOOLEAN, sans \in SANs \cup {"ip"} :
        /\ cluster' = [id |-> cluster.id + 1, edge |-> edge, sans |-> sans, next |-> 1,
                       outcome |-> "running"]
        /\ sans # "ip" => edge
  BY DEF StartInit
<1>2. cluster.id \in Nat /\ \A h \in Host : host[h].lite \in Nat /\ run[h].cluster \in Nat
  BY InNat
<1>3. \A h \in Host : host'[h].lite < cluster'.id /\ run'[h].cluster < cluster'.id
  BY <1>1, <1>2 DEF StartInit, ClusterInv
<1>4. 1 <= Len(Phases(cluster'.edge))
  BY <1>1, PhasesLen
<1>5. cluster'.id >= 1 /\ cluster'.next = 1 /\ cluster'.outcome = "running"
      /\ (cluster'.sans # "ip" => cluster'.edge)
  BY <1>1, <1>2
<1> QED
  BY <1>2, <1>3, <1>4, <1>5 DEF ClusterInv, EdgeAppsFirst, StartInit

\* A phase, or one that fails.
LEMMA PhaseFields ==
  ASSUME TypeOK, ClusterInv, RunPhase \/ InitFails
  PROVE  /\ cluster'.id = cluster.id /\ cluster'.edge = cluster.edge /\ cluster'.sans = cluster.sans
         /\ cluster'.outcome \in {"running", "ok", "error"} /\ host' = host /\ run' = run
         /\ Done \subseteq Done' /\ ClusterInv'
<1>1. /\ cluster \in [id : Clusters, edge : BOOLEAN, sans : SANs \cup {"ip"},
                     next : 1..(Len(Phases(cluster.edge)) + 1), outcome : Outcomes]
      /\ cluster.edge \in BOOLEAN
  BY DEF TypeOK
<1>2. PICK len \in Nat \ {0} : len = Len(Phases(cluster.edge))
  BY <1>1, PhasesLen
<1>3. cluster.next \in 1..len /\ cluster.outcome = "running"
  BY <1>1, <1>2 DEF ClusterInv, RunPhase, InitFails
<1> DEFINE new(next, outcome) ==
             [id |-> cluster.id, edge |-> cluster.edge, sans |-> cluster.sans, next |-> next,
              outcome |-> outcome]
<1>4. PICK next \in {cluster.next, cluster.next + 1}, outcome \in {"running", "ok", "error"} :
        /\ cluster' = new(next, outcome)
        /\ outcome = "running" => cluster.next # len /\ next = cluster.next + 1
        /\ outcome = "ok" => cluster.next = len /\ next = cluster.next + 1
  <2>1. CASE RunPhase
    <3>1. cluster' = new(cluster.next + 1, IF cluster.next = len THEN "ok" ELSE "running")
      BY <1>1, <1>2, <2>1 DEF RunPhase
    <3> HIDE DEF new
    <3> QED
      BY <3>1
  <2>2. CASE InitFails
    <3>1. PICK done \in 0..1 : cluster' = new(cluster.next + done, "error")
      BY <1>1, <2>2 DEF InitFails
    <3>2. cluster.next + done \in {cluster.next, cluster.next + 1}
      BY <1>3, <3>1
    <3> HIDE DEF new
    <3> QED
      BY <3>1, <3>2
  <2> QED
    BY <2>1, <2>2
<1>5. /\ cluster'.id = cluster.id /\ cluster'.edge = cluster.edge /\ cluster'.sans = cluster.sans
      /\ cluster'.next = next /\ cluster'.outcome = outcome
      /\ host' = host /\ run' = run
  BY <1>4 DEF RunPhase, InitFails
<1>6. Done \subseteq Done'
  <2>1. 1..(cluster.next - 1) \subseteq 1..(cluster'.next - 1)
    BY <1>3, <1>5
  <2> QED
    BY <1>5, <2>1 DEF Done
<1>7. ClusterInv'
  BY <1>2, <1>3, <1>4, <1>5 DEF ClusterInv
<1> QED
  BY <1>5, <1>6, <1>7

LEMMA PhaseCluster ==
  ASSUME TypeOK, ClusterInv, EdgeAppsFirst, RunPhase \/ InitFails
  PROVE  ClusterInv' /\ EdgeAppsFirst'
<1>1. cluster.outcome # "none"
  BY DEF RunPhase, InitFails
<1> QED
  BY <1>1, PhaseFields DEF EdgeAppsFirst

LEMMA ResetCluster ==
  ASSUME TypeOK, ClusterInv, ResetMaster
  PROVE  ClusterInv' /\ EdgeAppsFirst'
<1>1. cluster' = [id |-> cluster.id, edge |-> FALSE, sans |-> "ip", next |-> 1,
                  outcome |-> "none"]
  BY DEF TypeOK, ResetMaster
<1>2. \A h \in Host : node'[h] = {}
  BY DEF ResetMaster
<1> QED
  BY <1>1, <1>2 DEF ClusterInv, EdgeAppsFirst, ResetMaster

----------------------------------------------------------------------------
(***************************************************************************)
(* What a step of a host does to its own command, when nothing fails       *)
(***************************************************************************)
\* Nothing of what was asked for and found at the beginning changes.
Asked(r, q) ==
  /\ r.command = q.command /\ r.worker = q.worker /\ r.edge = q.edge /\ r.cluster = q.cluster
Found(r, q) ==
  r.fresh = q.fresh /\ r.found = q.found /\ r.there = q.there /\ r.done = q.done
    /\ r.calm = q.calm

LEMMA GoesSets ==
  ASSUME TypeOK, NEW h \in Host, NEW r \in Runs, Set(h, Goes(h, r))
  PROVE  /\ Asked(run'[h], r) /\ Found(run'[h], r) /\ run'[h].endpoint = r.endpoint
         /\ run'[h].outcome = r.outcome /\ run'[h].server = r.server /\ run'[h].dns = r.dns
         /\ run'[h].step = After(h, run[h].step)
<1>1. run'[h] = Goes(h, r)
  BY WritesOnly
<1> QED
  BY <1>1 DEF Goes, Runs, Asked, Found

LEMMA EndsSets ==
  ASSUME TypeOK, NEW h \in Host, NEW r \in Runs, NEW how \in {"ok", "error"}, Set(h, Ends(r, how))
  PROVE  /\ Asked(run'[h], r) /\ Found(run'[h], r)
         /\ run'[h].endpoint = IF how = "ok" THEN "ip" ELSE r.endpoint
         /\ run'[h].outcome = how /\ run'[h].step = "none"
<1>1. run'[h] = Ends(r, how)
  BY WritesOnly
<1> QED
  BY <1>1 DEF Ends, Runs, Asked, Found

\* The command goes on as it was.
LEMMA ContinueSets ==
  ASSUME TypeOK, NEW h \in Host, Continue(h)
  PROVE  /\ Asked(run'[h], run[h]) /\ Found(run'[h], run[h])
         /\ run'[h].endpoint = run[h].endpoint /\ run'[h].outcome = run[h].outcome
         /\ run'[h].server = run[h].server /\ run'[h].dns = run[h].dns
         /\ run'[h].step = After(h, run[h].step)
BY HostTyped, GoesSets DEF Continue

\* What there is to show of a join, and of a reset.
LEMMA OfJoin ==
  ASSUME NEW h \in Host, run'[h].command = "join",
         StepInv(h)', FreshInv(h)', NodeInv(h)', DnsInv(h)', SucceedInv(h)'
  PROVE  HostInv(h)'
BY DEF HostInv, CleanInv

LEMMA OfReset ==
  ASSUME NEW h \in Host, run'[h].command = "reset", StepInv(h)', CleanInv(h)'
  PROVE  HostInv(h)'
BY DEF HostInv, FreshInv, NodeInv, DnsInv, SucceedInv, Fresh

\* What has been published when init has ended.
LEMMA EndedIs ==
  TypeOK /\ ClusterInv =>
    /\ cluster.outcome = "ok" =>
         /\ Up /\ "bootstrap-token" \in Done
         /\ cluster.edge => EdgeInfo /\ "update-config" \in Done
    /\ cluster.outcome = "none" => ~Up
<1> SUFFICES ASSUME TypeOK, ClusterInv
             PROVE  /\ cluster.outcome = "ok" =>
                         /\ Up /\ "bootstrap-token" \in Done
                         /\ cluster.edge => EdgeInfo /\ "update-config" \in Done
                    /\ cluster.outcome = "none" => ~Up
  OBVIOUS
<1>1. cluster.edge \in BOOLEAN
  BY DEF TypeOK
<1>2. CASE cluster.edge
  <2>1. Len(Phases(cluster.edge)) = 9
    BY <1>2 DEF Phases, KubeadmPhases, EdgePhases
  <2>2. cluster.outcome = "ok" => cluster.next = 10
    BY <2>1 DEF ClusterInv
  <2> QED
    BY <1>2, <2>2, DoneIs DEF ClusterInv
<1>3. CASE ~cluster.edge
  <2>1. Len(Phases(cluster.edge)) = 2
    BY <1>3 DEF Phases, KubeadmPhases
  <2>2. cluster.outcome = "ok" => cluster.next = 3
    BY <2>1 DEF ClusterInv
  <2> QED
    BY <1>3, <2>2, DoneIs DEF ClusterInv
<1> QED
  BY <1>1, <1>2, <1>3

LEMMA TypedNext == TypeOK => cluster.next \in Nat /\ cluster.edge \in BOOLEAN
BY DEF TypeOK

\* Only the cluster of the command answers.
LEMMA AnswersSame ==
  ASSUME TypeOK, ClusterInv, NEW h \in Host, NEW server, Answers(h, server)
  PROVE  SameCluster(h) /\ Up
BY EndedIs DEF Answers, SameCluster

LEMMA ConfigInv ==
  ASSUME TypeOK, ClusterInv, NEW h \in Host, HostInv(h), ConfigControlPlane(h)
  PROVE  HostInv(h)'
<1>1. /\ run[h].command = "join" /\ run[h].step = "hosts" /\ run[h].outcome = "running"
      /\ cluster' = cluster /\ node' = node /\ Done' = Done
      /\ run[h] \in Runs /\ host[h] \in Hosts
  BY HostTyped DEF ConfigControlPlane, At, Running, Done
<1>2. /\ host'[h].resolves = (host[h].resolves \/ run[h].endpoint = "ip")
      /\ host'[h].lite = host[h].lite /\ host'[h].upstream = host[h].upstream
      /\ host'[h].ca = host[h].ca /\ host'[h].kubelet = host[h].kubelet
      /\ host'[h].via = host[h].via /\ host'[h].dns = host[h].dns
  <2>1. host'[h] = [host[h] EXCEPT !.resolves = @ \/ run[h].endpoint = "ip"]
    BY WritesOnly DEF ConfigControlPlane
  <2> QED
    BY <1>1, <2>1 DEF Hosts
<1>3. /\ Asked(run'[h], run[h]) /\ Found(run'[h], run[h])
      /\ run'[h].endpoint = run[h].endpoint /\ run'[h].outcome = "running"
      /\ run'[h].server = run[h].server
      /\ run'[h].dns = run[h].dns
      /\ run'[h].step = "discover"
  BY <1>1, ContinueSets DEF ConfigControlPlane, After
<1>4. StepInv(h)'
  BY <1>1, <1>2, <1>3
  DEF HostInv, StepInv, Joining, Running, SameCluster, Asked, JoinSteps, ResetSteps, BeforeLite,
      Worker
<1>5. FreshInv(h)'
  BY <1>1, <1>2, <1>3
  DEF HostInv, StepInv, CleanInv, FreshInv, Fresh, Joining, LiteServes, EdgeWorker, Worker, Asked,
      Found, JoinSteps, BeforeLite, BeforeKubelet
<1>6. NodeInv(h)'
  BY <1>1, <1>2, <1>3
  DEF HostInv, FreshInv, NodeInv, Fresh, Joining, Running, Asked, Found, SameCluster, Answers, Up,
      BeforeLite, BeforeKubelet, Labels, LabelsOf, EdgeWorker
<1>7. DnsInv(h)'
  BY <1>1, <1>2, <1>3
  DEF HostInv, StepInv, DnsInv, Joining, EdgeWorker, Worker, SameCluster, Asked, Found, EdgeInfo,
      Answers, Up, BeforeLite
<1>8. SucceedInv(h)'
  BY <1>1, <1>2, <1>3
  DEF HostInv, StepInv, FreshInv, SucceedInv, Fresh, Joining, SameCluster, Hopeless, Asked, Found,
      Answers, Up, BeforeLite, JoinSteps
<1> QED
  BY <1>1, <1>2, <1>3, <1>4, <1>5, <1>6, <1>7, <1>8, OfJoin DEF Asked

LEMMA DiscoverInv ==
  ASSUME TypeOK, ClusterInv, NEW h \in Host, HostInv(h), Discover(h)
  PROVE  HostInv(h)'
<1>1. /\ run[h].command = "join" /\ run[h].step = "discover" /\ run[h].outcome = "running"
      /\ cluster' = cluster /\ node' = node /\ Done' = Done
      /\ run[h] \in Runs /\ host[h] \in Hosts
      /\ host' = host /\ Discoverable(h)
  BY HostTyped DEF Discover, At, Running, Done
<1>2. /\ Asked(run'[h], run[h]) /\ Found(run'[h], run[h])
      /\ run'[h].endpoint = run[h].endpoint /\ run'[h].outcome = "running"
      /\ run'[h].server = (IF ClusterInfo = "ip" THEN "alias" ELSE "own")
      /\ run'[h].dns = run[h].dns
      /\ run'[h].step = "edge-info"
  <2> DEFINE r == [run[h] EXCEPT !.server = IF ClusterInfo = "ip" THEN "alias" ELSE "own"]
  <2>1. /\ r \in Runs /\ Asked(r, run[h]) /\ Found(r, run[h]) /\ r.endpoint = run[h].endpoint
        /\ r.outcome = "running" /\ r.dns = run[h].dns
        /\ r.server = (IF ClusterInfo = "ip" THEN "alias" ELSE "own")
    BY <1>1 DEF Runs, Asked, Found
  <2>2. Set(h, Goes(h, r)) /\ After(h, run[h].step) = "edge-info"
    BY <1>1 DEF Discover, After
  <2> HIDE DEF r
  <2> QED
    BY <2>1, <2>2, GoesSets DEF Asked, Found
<1>3. Up
  BY <1>1, DoneIs, TypedNext DEF Discoverable
<1>4. /\ Joining(h, {"discover"}) /\ run[h].cluster = cluster.id /\ run[h].edge
      /\ run[h].endpoint = "ip" => host[h].resolves
  BY <1>1 DEF Discoverable, HostInv, StepInv, Joining, BeforeLite
<1>5. SameCluster(h) /\ ~Hopeless(h) /\ cluster.outcome = "ok" /\ run[h].endpoint # "ip" =>
        ClusterInfo # "ip"
  <2>1. cluster.sans \in SANs \cup {"ip"} /\ run[h].endpoint \in {"ip", "name"}
    BY <1>1 DEF TypeOK, Runs, Addresses
  <2> QED
    BY <1>1, <1>4, <2>1, EndedIs, SANsAssumption DEF HostInv, StepInv, Hopeless, ClusterInfo
<1>6. run[h].endpoint \in {"ip", "name"}
  BY <1>1 DEF Runs, Addresses
<1>7. StepInv(h)'
  BY <1>1, <1>2, <1>3, <1>4, <1>5, <1>6
  DEF HostInv, StepInv, Joining, Running, SameCluster, Asked, JoinSteps, ResetSteps, BeforeLite,
      Worker
<1>8. FreshInv(h)'
  BY <1>1, <1>2, <1>3, <1>4, <1>5, <1>6
  DEF HostInv, StepInv, CleanInv, FreshInv, Fresh, Joining, LiteServes, EdgeWorker, Worker, Asked,
      Found, JoinSteps, BeforeLite, BeforeKubelet
<1>9. NodeInv(h)'
  BY <1>1, <1>2, <1>3, <1>4, <1>5, <1>6
  DEF HostInv, FreshInv, NodeInv, Fresh, Joining, Running, Asked, Found, SameCluster, Answers, Up,
      BeforeLite, BeforeKubelet, Labels, LabelsOf, EdgeWorker
<1>10. DnsInv(h)'
  BY <1>1, <1>2, <1>3, <1>4, <1>5, <1>6
  DEF HostInv, StepInv, DnsInv, Joining, EdgeWorker, Worker, SameCluster, Asked, Found, EdgeInfo,
      Answers, Up, BeforeLite
<1>11. SucceedInv(h)'
  BY <1>1, <1>2, <1>3, <1>4, <1>5, <1>6
  DEF HostInv, StepInv, FreshInv, SucceedInv, Fresh, Joining, SameCluster, Hopeless, Asked, Found,
      Answers, Up, BeforeLite, JoinSteps
<1> QED
  BY <1>1, <1>2, <1>3, <1>7, <1>8, <1>9, <1>10, <1>11, OfJoin DEF Asked

LEMMA PrepareInv ==
  ASSUME TypeOK, ClusterInv, NEW h \in Host, HostInv(h), PrepareEdgeNode(h)
  PROVE  HostInv(h)'
<1>1. /\ run[h].command = "join" /\ run[h].step = "edge-info" /\ run[h].outcome = "running"
      /\ cluster' = cluster /\ node' = node /\ Done' = Done
      /\ run[h] \in Runs /\ host[h] \in Hosts
  BY HostTyped DEF PrepareEdgeNode, At, Running, Done
<1> DEFINE found == Worker(h) /\ Answers(h, run[h].server) /\ EdgeInfo
<1>2. /\ host'[h].resolves = IF found THEN run[h].endpoint = "ip" ELSE host[h].resolves
      /\ host'[h].lite = host[h].lite /\ host'[h].upstream = host[h].upstream
      /\ ~host'[h].ca /\ host'[h].kubelet = host[h].kubelet
      /\ host'[h].via = host[h].via /\ host'[h].dns = host[h].dns
  <2>1. host'[h] = [host[h] EXCEPT !.ca = FALSE,
                                   !.resolves = IF found THEN NodeHosts(h) ELSE @]
    BY WritesOnly DEF PrepareEdgeNode
  <2> QED
    BY <1>1, <2>1 DEF Hosts, NodeHosts
<1>3. /\ Asked(run'[h], run[h]) /\ Found(run'[h], run[h])
      /\ run'[h].endpoint = run[h].endpoint /\ run'[h].outcome = "running"
      /\ run'[h].server = run[h].server
      /\ run'[h].dns = (IF found THEN "edge" ELSE run[h].dns)
      /\ run'[h].step = IF Worker(h) THEN "lite" ELSE "preflight"
  <2> DEFINE r == [run[h] EXCEPT !.dns = IF found THEN "edge" ELSE @]
  <2>1. /\ r \in Runs /\ Asked(r, run[h]) /\ Found(r, run[h]) /\ r.endpoint = run[h].endpoint
        /\ r.outcome = "running" /\ r.server = run[h].server
        /\ r.dns = IF found THEN "edge" ELSE run[h].dns
    BY <1>1 DEF Runs, Asked, Found
  <2>2. /\ Set(h, Goes(h, r))
        /\ After(h, run[h].step) = IF Worker(h) THEN "lite" ELSE "preflight"
    BY <1>1 DEF PrepareEdgeNode, After
  <2> HIDE DEF r
  <2> QED
    BY <2>1, <2>2, GoesSets DEF Asked, Found
<1>4. Answers(h, run[h].server) => SameCluster(h) /\ Up
  BY AnswersSame
<1>5. run[h].endpoint \in {"ip", "name"} /\ run[h].worker \in BOOLEAN
  BY <1>1 DEF Runs, Addresses
<1>6. StepInv(h)'
  BY <1>1, <1>2, <1>3, <1>4, <1>5
  DEF HostInv, StepInv, Joining, Running, SameCluster, Asked, JoinSteps, ResetSteps, BeforeLite,
      Worker
<1>7. FreshInv(h)'
  BY <1>1, <1>2, <1>3, <1>4, <1>5
  DEF HostInv, StepInv, CleanInv, FreshInv, Fresh, Joining, LiteServes, EdgeWorker, Worker, Asked,
      Found, Answers, JoinSteps, BeforeLite, BeforeKubelet
<1>8. NodeInv(h)'
  BY <1>1, <1>2, <1>3, <1>4, <1>5
  DEF HostInv, FreshInv, NodeInv, Fresh, Joining, Running, Asked, Found, SameCluster, Answers, Up,
      BeforeLite, BeforeKubelet, Labels, LabelsOf, EdgeWorker, Worker
<1>9. DnsInv(h)'
  BY <1>1, <1>2, <1>3, <1>4, <1>5
  DEF HostInv, StepInv, DnsInv, Joining, EdgeWorker, Worker, SameCluster, Asked, Found, EdgeInfo,
      Answers, Up, BeforeLite
<1>10. SucceedInv(h)'
  BY <1>1, <1>2, <1>3, <1>4, <1>5
  DEF HostInv, StepInv, FreshInv, SucceedInv, Fresh, Joining, SameCluster, Hopeless, Asked, Found,
      Answers, Up, BeforeLite, JoinSteps
<1> QED
  BY <1>1, <1>2, <1>3, <1>6, <1>7, <1>8, <1>9, <1>10, OfJoin DEF Asked

LEMMA InstallLiteInv ==
  ASSUME TypeOK, ClusterInv, NEW h \in Host, HostInv(h), InstallLite(h)
  PROVE  HostInv(h)'
<1>1. /\ run[h].command = "join" /\ run[h].step = "lite" /\ run[h].outcome = "running"
      /\ cluster' = cluster /\ node' = node /\ Done' = Done
      /\ run[h] \in Runs /\ host[h] \in Hosts
      /\ Answers(h, run[h].server)
  BY HostTyped DEF InstallLite, At, Running, Done
<1>2. /\ host'[h].lite = cluster.id /\ ~host'[h].ca
      /\ host'[h].upstream = "alias" <=> run[h].endpoint = "ip"
      /\ host'[h].resolves = host[h].resolves /\ host'[h].kubelet = host[h].kubelet
  <2>1. host'[h] = Lite(h)
    BY WritesOnly DEF InstallLite
  <2> QED
    BY <1>1, <2>1 DEF Lite, Hosts
<1>3. /\ Asked(run'[h], run[h]) /\ Found(run'[h], run[h])
      /\ run'[h].endpoint = run[h].endpoint /\ run'[h].outcome = "running"
      /\ run'[h].server = "lite"
      /\ run'[h].dns = run[h].dns
      /\ run'[h].step = "preflight"
  <2> DEFINE r == [run[h] EXCEPT !.server = "lite"]
  <2>1. /\ r \in Runs /\ Asked(r, run[h]) /\ Found(r, run[h]) /\ r.endpoint = run[h].endpoint
        /\ r.outcome = "running" /\ r.server = "lite" /\ r.dns = run[h].dns
    BY <1>1 DEF Runs, Asked, Found
  <2>2. Set(h, Goes(h, r)) /\ After(h, run[h].step) = "preflight"
    BY <1>1 DEF InstallLite, After
  <2> HIDE DEF r
  <2> QED
    BY <2>1, <2>2, GoesSets DEF Asked, Found
<1>4. StepInv(h)'
  BY <1>1, <1>2, <1>3
  DEF HostInv, StepInv, Joining, Running, SameCluster, Asked, JoinSteps, ResetSteps, BeforeLite,
      Worker
<1>5. FreshInv(h)'
  BY <1>1, <1>2, <1>3
  DEF HostInv, StepInv, CleanInv, FreshInv, Fresh, Joining, LiteServes, EdgeWorker, Worker, Asked,
      Found, Answers, JoinSteps, BeforeLite, BeforeKubelet
<1>6. NodeInv(h)'
  BY <1>1, <1>2, <1>3
  DEF HostInv, FreshInv, NodeInv, Fresh, Joining, Running, Asked, Found, SameCluster, Answers, Up,
      BeforeLite, BeforeKubelet, Labels, LabelsOf, EdgeWorker
<1>7. DnsInv(h)'
  BY <1>1, <1>2, <1>3
  DEF HostInv, StepInv, DnsInv, Joining, EdgeWorker, Worker, SameCluster, Asked, Found, EdgeInfo,
      Answers, Up, BeforeLite
<1>8. SucceedInv(h)'
  BY <1>1, <1>2, <1>3
  DEF HostInv, StepInv, FreshInv, SucceedInv, Fresh, Joining, SameCluster, Hopeless, Asked, Found,
      Answers, Up, BeforeLite, JoinSteps
<1> QED
  BY <1>1, <1>2, <1>3, <1>4, <1>5, <1>6, <1>7, <1>8, OfJoin DEF Asked

LEMMA LiteRunsInv ==
  ASSUME TypeOK, ClusterInv, NEW h \in Host, HostInv(h), LiteRuns(h)
  PROVE  HostInv(h)'
<1>1. /\ run[h].command = "join" /\ run[h].step = "lite" /\ run[h].outcome = "running"
      /\ cluster' = cluster /\ node' = node /\ Done' = Done
      /\ run[h] \in Runs /\ host[h] \in Hosts
      /\ host' = host /\ host[h].lite # 0
  BY HostTyped DEF LiteRuns, At, Running, Done
<1>2. /\ Asked(run'[h], run[h]) /\ Found(run'[h], run[h])
      /\ run'[h].endpoint = run[h].endpoint /\ run'[h].outcome = "running"
      /\ run'[h].server = run[h].server
      /\ run'[h].dns = run[h].dns
      /\ run'[h].step = "preflight"
  BY <1>1, ContinueSets DEF LiteRuns, After
<1>3. ~Fresh(h)
  BY <1>1 DEF HostInv, FreshInv, Fresh, Joining, BeforeLite
<1>4. StepInv(h)'
  BY <1>1, <1>2, <1>3
  DEF HostInv, StepInv, Joining, Running, SameCluster, Asked, JoinSteps, ResetSteps, BeforeLite,
      Worker
<1>5. FreshInv(h)'
  BY <1>1, <1>2, <1>3
  DEF HostInv, StepInv, CleanInv, FreshInv, Fresh, Joining, LiteServes, EdgeWorker, Worker, Asked,
      Found, JoinSteps, BeforeLite, BeforeKubelet
<1>6. NodeInv(h)'
  BY <1>1, <1>2, <1>3
  DEF HostInv, FreshInv, NodeInv, Fresh, Joining, Running, Asked, Found, SameCluster, Answers, Up,
      BeforeLite, BeforeKubelet, Labels, LabelsOf, EdgeWorker
<1>7. DnsInv(h)'
  BY <1>1, <1>2, <1>3
  DEF HostInv, StepInv, DnsInv, Joining, EdgeWorker, Worker, SameCluster, Asked, Found, EdgeInfo,
      Answers, Up, BeforeLite
<1>8. SucceedInv(h)'
  BY <1>1, <1>2, <1>3
  DEF HostInv, StepInv, FreshInv, SucceedInv, Fresh, Joining, SameCluster, Hopeless, Asked, Found,
      Answers, Up, BeforeLite, JoinSteps
<1> QED
  BY <1>1, <1>2, <1>3, <1>4, <1>5, <1>6, <1>7, <1>8, OfJoin DEF Asked

\* A join fails by itself only where it had no chance.
LEMMA FailInv ==
  ASSUME TypeOK, ClusterInv, NEW h \in Host, HostInv(h), Fail(h), cluster' = cluster,
         run[h].command = "join",
         ~(Fresh(h) /\ run[h].calm /\ run[h].done /\ SameCluster(h) /\ ~Hopeless(h)
             /\ "ready" \notin run[h].found)
  PROVE  HostInv(h)'
<1>1. /\ Done' = Done /\ run[h] \in Runs
      /\ Asked(run'[h], run[h]) /\ Found(run'[h], run[h])
      /\ run'[h].endpoint = run[h].endpoint /\ run'[h].outcome = "error" /\ run'[h].step = "none"
  BY HostTyped, EndsSets DEF Done, Fail
<1>2. StepInv(h)'
  BY <1>1
  DEF HostInv, StepInv, Joining, Running, SameCluster, Asked, JoinSteps, ResetSteps, BeforeLite,
      Worker
<1>3. FreshInv(h)'
  BY <1>1
  DEF HostInv, StepInv, CleanInv, FreshInv, Fresh, Joining, LiteServes, EdgeWorker, Worker, Asked,
      Found, JoinSteps, BeforeLite, BeforeKubelet
<1>4. NodeInv(h)'
  BY <1>1
  DEF HostInv, FreshInv, NodeInv, Fresh, Joining, Running, Asked, Found, SameCluster, Answers, Up,
      BeforeLite, BeforeKubelet, Labels, LabelsOf, EdgeWorker
<1>5. DnsInv(h)'
  BY <1>1
  DEF HostInv, StepInv, DnsInv, Joining, EdgeWorker, Worker, SameCluster, Asked, Found, EdgeInfo,
      Answers, Up, BeforeLite
<1>6. SucceedInv(h)'
  BY <1>1
  DEF HostInv, StepInv, FreshInv, SucceedInv, Fresh, Joining, SameCluster, Hopeless, Asked, Found,
      Answers, Up, BeforeLite, JoinSteps
<1> QED
  BY <1>1, <1>2, <1>3, <1>4, <1>5, <1>6, OfJoin DEF Asked

LEMMA TimesOutInv ==
  ASSUME TypeOK, ClusterInv, NEW h \in Host, HostInv(h), DiscoverTimesOut(h)
  PROVE  HostInv(h)'
<1>1. /\ run[h].command = "join" /\ run[h].step = "discover" /\ Fail(h) /\ cluster' = cluster
      /\ ~Discoverable(h)
  BY DEF DiscoverTimesOut, At
<1>9. ~(Fresh(h) /\ run[h].calm /\ run[h].done /\ SameCluster(h) /\ ~Hopeless(h)
          /\ "ready" \notin run[h].found)
  BY <1>1, EndedIs
  DEF Discoverable, HostInv, StepInv, FreshInv, NodeInv, SucceedInv, Fresh, Joining, SameCluster,
      BeforeLite, BeforeKubelet, JoinSteps
<1> QED
  BY <1>1, <1>9, FailInv

LEMMA NoEdgeInfoInv ==
  ASSUME TypeOK, ClusterInv, NEW h \in Host, HostInv(h), NoEdgeInfo(h)
  PROVE  HostInv(h)'
<1>1. /\ run[h].command = "join" /\ run[h].step = "lite" /\ Fail(h) /\ cluster' = cluster
      /\ ~(Answers(h, run[h].server) /\ EdgeInfo)
  BY DEF NoEdgeInfo, At
<1>9. ~(Fresh(h) /\ run[h].calm /\ run[h].done /\ SameCluster(h) /\ ~Hopeless(h)
          /\ "ready" \notin run[h].found)
  BY <1>1, EndedIs
  DEF Hopeless, HostInv, StepInv, FreshInv, NodeInv, SucceedInv, Fresh, Joining, SameCluster,
      BeforeLite, BeforeKubelet, JoinSteps
<1> QED
  BY <1>1, <1>9, FailInv

LEMMA PreflightFailsInv ==
  ASSUME TypeOK, ClusterInv, NEW h \in Host, HostInv(h), Preflight(h), Fail(h)
  PROVE  HostInv(h)'
<1>1. /\ run[h].command = "join" /\ run[h].step = "preflight" /\ Fail(h) /\ cluster' = cluster
      /\ ~Continue(h)
  <2>1. run'[h].outcome = "error" /\ run[h].outcome = "running"
    BY EndsSets, HostTyped DEF Fail, Preflight, At, Running
  <2> QED
    BY <2>1, ContinueSets DEF Preflight, At
<1>2. /\ host[h].kubelet = 0 /\ (Worker(h) => ~host[h].ca)
      /\ IF run[h].edge THEN Answers(h, run[h].server) ELSE Discoverable(h)
      => Continue(h)
  BY DEF Preflight
<1>9. ~(Fresh(h) /\ run[h].calm /\ run[h].done /\ SameCluster(h) /\ ~Hopeless(h)
          /\ "ready" \notin run[h].found)
  BY <1>1, <1>2, EndedIs
  DEF Discoverable, HostInv, StepInv, FreshInv, NodeInv, SucceedInv, Fresh, Joining, SameCluster,
      BeforeLite, BeforeKubelet, JoinSteps
<1> QED
  BY <1>1, <1>9, FailInv

LEMMA KubeletFailsInv ==
  ASSUME TypeOK, ClusterInv, NEW h \in Host, HostInv(h), KubeletStart(h), Fail(h)
  PROVE  HostInv(h)'
<1>1. /\ run[h].command = "join" /\ run[h].step = "kubelet-start" /\ Fail(h) /\ cluster' = cluster
      /\ ~Startable(h)
  <2>1. run'[h].outcome = "error" /\ run[h].outcome = "running"
    BY EndsSets, HostTyped DEF Fail, KubeletStart, At, Running
  <2> QED
    BY <2>1, ContinueSets DEF KubeletStart, At
<1>9. ~(Fresh(h) /\ run[h].calm /\ run[h].done /\ SameCluster(h) /\ ~Hopeless(h)
          /\ "ready" \notin run[h].found)
  BY <1>1
  DEF Startable, HostInv, StepInv, FreshInv, NodeInv, SucceedInv, Fresh, Joining, SameCluster, BeforeLite,
      BeforeKubelet, JoinSteps
<1> QED
  BY <1>1, <1>9, FailInv

LEMMA LabelFailsInv ==
  ASSUME TypeOK, ClusterInv, NEW h \in Host, HostInv(h), AddLabel(h), Fail(h)
  PROVE  HostInv(h)'
<1>1. /\ run[h].command = "join" /\ run[h].step = "label" /\ Fail(h) /\ cluster' = cluster
      /\ ~Answers(h, host[h].via)
  <2>1. run'[h].outcome = "error"
    BY EndsSets, HostTyped DEF Fail
  <2>2. Set(h, Ends(run[h], "ok")) => run'[h].outcome = "ok"
    BY EndsSets, HostTyped
  <2> QED
    BY <2>1, <2>2 DEF AddLabel, At
<1>9. ~(Fresh(h) /\ run[h].calm /\ run[h].done /\ SameCluster(h) /\ ~Hopeless(h)
          /\ "ready" \notin run[h].found)
  BY <1>1
  DEF HostInv, StepInv, FreshInv, NodeInv, SucceedInv, Fresh, Joining, SameCluster, BeforeLite,
      BeforeKubelet, JoinSteps
<1> QED
  BY <1>1, <1>9, FailInv

LEMMA PreflightInv ==
  ASSUME TypeOK, ClusterInv, NEW h \in Host, HostInv(h), Preflight(h), Continue(h)
  PROVE  HostInv(h)'
<1>1. /\ run[h].command = "join" /\ run[h].step = "preflight" /\ run[h].outcome = "running"
      /\ cluster' = cluster /\ node' = node /\ host' = host /\ Done' = Done /\ run[h] \in Runs
  BY HostTyped DEF Preflight, At, Running, Done
<1>2. /\ Asked(run'[h], run[h]) /\ Found(run'[h], run[h])
      /\ run'[h].endpoint = run[h].endpoint /\ run'[h].outcome = "running"
      /\ run'[h].server = run[h].server
      /\ run'[h].dns = run[h].dns
      /\ run'[h].step = "kubelet-start"
  BY <1>1, ContinueSets DEF After
<1>3. StepInv(h)'
  BY <1>1, <1>2
  DEF HostInv, StepInv, Joining, Running, SameCluster, Asked, JoinSteps, ResetSteps, BeforeLite,
      Worker
<1>4. FreshInv(h)'
  <2>1. run[h].edge => Answers(h, run[h].server)
    <3>1. Fail(h) => run'[h].outcome = "error"
      BY EndsSets, HostTyped DEF Fail
    <3> QED
      BY <1>2, <3>1 DEF Preflight
  <2>2. Fresh(h) /\ EdgeWorker(h) => LiteServes(h)
    BY <1>1, <2>1 DEF HostInv, FreshInv, Fresh, Joining, EdgeWorker, Answers, LiteServes
  <2> QED
    BY <1>1, <1>2, <2>2
    DEF HostInv, FreshInv, Fresh, Joining, LiteServes, EdgeWorker, Asked, Found, JoinSteps,
        BeforeLite, BeforeKubelet
<1>5. NodeInv(h)'
  BY <1>1, <1>2
  DEF HostInv, FreshInv, NodeInv, Fresh, Joining, Running, Asked, Found, SameCluster, Answers, Up,
      BeforeLite, BeforeKubelet, Labels, LabelsOf, EdgeWorker
<1>6. DnsInv(h)'
  BY <1>1, <1>2
  DEF HostInv, StepInv, DnsInv, Joining, EdgeWorker, Worker, SameCluster, Asked, Found, EdgeInfo,
      Answers, Up, BeforeLite
<1>7. SucceedInv(h)'
  BY <1>1, <1>2
  DEF HostInv, StepInv, FreshInv, SucceedInv, Fresh, Joining, SameCluster, Hopeless, Asked, Found,
      Answers, Up, BeforeLite, JoinSteps
<1> QED
  BY <1>1, <1>2, <1>3, <1>4, <1>5, <1>6, <1>7, OfJoin DEF Asked

LEMMA KubeletInv ==
  ASSUME TypeOK, ClusterInv, NEW h \in Host, HostInv(h), KubeletStart(h), Continue(h)
  PROVE  HostInv(h)'
<1>1. /\ run[h].command = "join" /\ run[h].step = "kubelet-start" /\ run[h].outcome = "running"
      /\ cluster' = cluster /\ Done' = Done
      /\ run[h] \in Runs /\ host[h] \in Hosts
  BY HostTyped DEF KubeletStart, At, Running, Done
<1>2. /\ Asked(run'[h], run[h]) /\ Found(run'[h], run[h])
      /\ run'[h].endpoint = run[h].endpoint /\ run'[h].outcome = "running"
      /\ run'[h].server = run[h].server
      /\ run'[h].dns = run[h].dns
      /\ run'[h].step = "label"
  BY <1>1, ContinueSets DEF After
<1>3. Answers(h, run[h].server) /\ Leave(h, Joined(h)) /\ node' = Registered(h)
  <2>1. Fail(h) => run'[h].outcome = "error"
    BY EndsSets, HostTyped DEF Fail
  <2> QED
    BY <1>2, <2>1 DEF KubeletStart, Startable
<1>4. /\ host'[h].lite = host[h].lite /\ host'[h].upstream = host[h].upstream
      /\ host'[h].resolves = host[h].resolves
      /\ host'[h].via = run[h].server /\ host'[h].dns = run[h].dns
      /\ node'[h] = node[h] \cup {"registered", "ready"}
      /\ SameCluster(h)
  <2>1. host'[h] = Joined(h) /\ node'[h] = node[h] \cup {"registered", "ready"}
    BY <1>3, WritesOnly DEF Registered
  <2> QED
    BY <1>1, <1>3, <2>1, AnswersSame DEF Joined, Hosts
<1>5. StepInv(h)'
  BY <1>1, <1>2, <1>3, <1>4
  DEF HostInv, StepInv, Joining, Running, SameCluster, Asked, JoinSteps, ResetSteps, BeforeLite,
      Worker
<1>6. FreshInv(h)'
  BY <1>1, <1>2, <1>3, <1>4
  DEF HostInv, StepInv, CleanInv, FreshInv, Fresh, Joining, LiteServes, EdgeWorker, Worker, Asked,
      Found, Answers, JoinSteps, BeforeLite, BeforeKubelet
<1>7. NodeInv(h)'
  BY <1>1, <1>2, <1>3, <1>4
  DEF HostInv, FreshInv, NodeInv, Fresh, Joining, Running, Asked, Found, SameCluster, Answers, Up,
      BeforeLite, BeforeKubelet, Labels, LabelsOf, EdgeWorker
<1>8. DnsInv(h)'
  BY <1>1, <1>2, <1>3, <1>4
  DEF HostInv, StepInv, DnsInv, Joining, EdgeWorker, Worker, SameCluster, Asked, Found, EdgeInfo,
      Answers, Up, BeforeLite
<1>9. SucceedInv(h)'
  BY <1>1, <1>2, <1>3, <1>4
  DEF HostInv, StepInv, FreshInv, SucceedInv, Fresh, Joining, SameCluster, Hopeless, Asked, Found,
      Answers, Up, BeforeLite, JoinSteps
<1> QED
  BY <1>1, <1>2, <1>3, <1>5, <1>6, <1>7, <1>8, <1>9, OfJoin DEF Asked

LEMMA LabelInv ==
  ASSUME TypeOK, ClusterInv, NEW h \in Host, HostInv(h), AddLabel(h),
         Set(h, Ends(run[h], "ok"))
  PROVE  HostInv(h)'
<1>1. /\ run[h].command = "join" /\ run[h].step = "label" /\ run[h].outcome = "running"
      /\ cluster' = cluster /\ Done' = Done
      /\ run[h] \in Runs /\ host[h] \in Hosts /\ host' = host
  BY HostTyped DEF AddLabel, At, Running, Done
<1>2. /\ Asked(run'[h], run[h]) /\ Found(run'[h], run[h]) /\ run'[h].endpoint = "ip"
      /\ run'[h].outcome = "ok" /\ run'[h].step = "none"
  BY HostTyped, EndsSets
<1>3. /\ node'[h] = node[h] \cup LabelsOf(h) \/ (node'[h] = node[h] /\ ~Answers(h, host[h].via))
      /\ run[h].worker \in BOOLEAN /\ run[h].edge \in BOOLEAN
  BY <1>1, WritesOnly DEF AddLabel, Runs
<1>4. StepInv(h)'
  BY <1>1, <1>2, <1>3
  DEF HostInv, StepInv, Joining, Running, SameCluster, Asked, JoinSteps, ResetSteps, BeforeLite,
      Worker
<1>5. FreshInv(h)'
  BY <1>1, <1>2, <1>3
  DEF HostInv, StepInv, CleanInv, FreshInv, Fresh, Joining, LiteServes, EdgeWorker, Worker, Asked,
      Found, Answers, JoinSteps, BeforeLite, BeforeKubelet
<1>6. NodeInv(h)'
  BY <1>1, <1>2, <1>3
  DEF HostInv, FreshInv, NodeInv, Fresh, Joining, Running, Asked, Found, SameCluster, Answers, Up,
      BeforeLite, BeforeKubelet, Labels, LabelsOf, EdgeWorker
<1>7. DnsInv(h)'
  BY <1>1, <1>2, <1>3
  DEF HostInv, StepInv, DnsInv, Joining, EdgeWorker, Worker, SameCluster, Asked, Found, EdgeInfo,
      Answers, Up, BeforeLite
<1>8. SucceedInv(h)'
  BY <1>1, <1>2, <1>3
  DEF HostInv, StepInv, FreshInv, SucceedInv, Fresh, Joining, SameCluster, Hopeless, Asked, Found,
      Answers, Up, BeforeLite, JoinSteps
<1> QED
  BY <1>1, <1>2, <1>3, <1>4, <1>5, <1>6, <1>7, <1>8, OfJoin DEF Asked

----------------------------------------------------------------------------
(***************************************************************************)
(* The start of a command, reset, and failures                             *)
(***************************************************************************)
LEMMA StartJoinInv ==
  ASSUME TypeOK, ClusterInv, NEW h \in Host, HostInv(h), StartJoin(h)
  PROVE  HostInv(h)'
<1>1. PICK worker, edge \in BOOLEAN, endpoint \in Addresses :
        /\ Set(h, NewJoin(h, worker, edge, endpoint))
        /\ endpoint = "name" => cluster.sans # "ip"
  BY DEF StartJoin, Endpoints, Addresses
<1>2. /\ run'[h].command = "join" /\ run'[h].worker = worker /\ run'[h].edge = edge
      /\ run'[h].endpoint = endpoint /\ run'[h].outcome = "running"
      /\ run'[h].step = IF edge THEN "hosts" ELSE "preflight"
      /\ run'[h].cluster = cluster.id /\ run'[h].server = "own"
      /\ run'[h].fresh = Untouched(h) /\ run'[h].there = EdgeInfo
      /\ run'[h].done = (cluster.outcome = "ok") /\ run'[h].found = node[h] /\ run'[h].calm
  <2>1. run'[h] = NewJoin(h, worker, edge, endpoint)
    BY <1>1, WritesOnly
  <2> QED
    BY <2>1 DEF NewJoin
<1>3. /\ cluster' = cluster /\ host' = host /\ node' = node /\ Done' = Done
      /\ run[h].outcome # "running" /\ run[h] \in Runs
  BY HostTyped DEF StartJoin, Running, Done
<1>4. Untouched(h) => host[h].kubelet = 0 /\ ~host[h].ca /\ host[h].lite = 0
  BY <1>3 DEF Untouched, HostInv, StepInv, CleanInv, Runs
<1>5. cluster.outcome = "ok" => Up
  BY EndedIs
<1>6. StepInv(h)'
  BY <1>1, <1>2, <1>3, <1>4, <1>5
  DEF HostInv, StepInv, Joining, Running, SameCluster, JoinSteps, ResetSteps, BeforeLite, Worker
<1>7. FreshInv(h)'
  BY <1>1, <1>2, <1>3, <1>4, <1>5
  DEF HostInv, StepInv, CleanInv, FreshInv, Fresh, Joining, LiteServes, EdgeWorker, Worker,
      JoinSteps, BeforeLite, BeforeKubelet
<1>8. NodeInv(h)'
  BY <1>1, <1>2, <1>3, <1>4, <1>5
  DEF HostInv, FreshInv, NodeInv, Fresh, Joining, Running, SameCluster, Answers, Up, BeforeLite,
      BeforeKubelet, Labels, LabelsOf, EdgeWorker
<1>9. DnsInv(h)'
  BY <1>1, <1>2, <1>3, <1>4, <1>5
  DEF HostInv, StepInv, DnsInv, Joining, EdgeWorker, Worker, SameCluster, EdgeInfo, Answers, Up,
      BeforeLite
<1>10. SucceedInv(h)'
  BY <1>1, <1>2, <1>3, <1>4, <1>5
  DEF HostInv, StepInv, FreshInv, SucceedInv, Fresh, Joining, SameCluster, Hopeless, Answers, Up,
      BeforeLite, JoinSteps
<1> QED
  BY <1>1, <1>2, <1>3, <1>6, <1>7, <1>8, <1>9, <1>10, OfJoin

LEMMA StartResetInv ==
  ASSUME TypeOK, ClusterInv, NEW h \in Host, HostInv(h), StartReset(h)
  PROVE  HostInv(h)'
<1>1. /\ run'[h].command = "reset" /\ run'[h].step = "cleanup-node"
      /\ run'[h].outcome = "running" /\ run'[h].server = "none" /\ run'[h].endpoint = "ip"
  <2>1. run'[h] = NewReset
    BY WritesOnly DEF StartReset
  <2> QED
    BY <2>1 DEF NewReset, NoRun
<1>2. StepInv(h)'
  BY <1>1
  DEF HostInv, StepInv, Joining, Running, SameCluster, JoinSteps, ResetSteps, BeforeLite, Worker
<1>3. CleanInv(h)'
  BY <1>1 DEF HostInv, CleanInv
<1> QED
  BY <1>1, <1>2, <1>3, OfReset

LEMMA CleanupNodeInv ==
  ASSUME TypeOK, ClusterInv, NEW h \in Host, HostInv(h), CleanupNode(h)
  PROVE  HostInv(h)'
<1>1. /\ run'[h].command = "reset" /\ run'[h].step = "cleanup-lite"
      /\ run'[h].outcome = "running"
  <2>1. run'[h] = [run[h] EXCEPT !.step = "cleanup-lite"] /\ run[h] \in Runs
    BY WritesOnly, HostTyped DEF CleanupNode
  <2> QED
    BY <2>1 DEF Runs, CleanupNode, ResetAt, Running
<1>2. host'[h].kubelet = 0 /\ ~host'[h].ca
  <2>1. /\ host'[h] = [host[h] EXCEPT !.kubelet = 0, !.via = "none", !.ca = FALSE,
                                   !.dns = "default"]
        /\ host[h] \in Hosts
    BY WritesOnly, HostTyped DEF CleanupNode
  <2> QED
    BY <2>1 DEF Hosts
<1>3. StepInv(h)'
  BY <1>1, <1>2
  DEF HostInv, StepInv, Joining, Running, SameCluster, JoinSteps, ResetSteps, BeforeLite, Worker
<1>4. CleanInv(h)'
  BY <1>1, <1>2 DEF HostInv, CleanInv
<1> QED
  BY <1>1, <1>2, <1>3, <1>4, OfReset

LEMMA CleanupLiteInv ==
  ASSUME TypeOK, ClusterInv, NEW h \in Host, HostInv(h), CleanupLite(h)
  PROVE  HostInv(h)'
<1>1. /\ run[h].command = "reset" /\ run[h].step = "cleanup-lite"
      /\ Asked(run'[h], run[h]) /\ Found(run'[h], run[h])
      /\ run'[h].outcome = "ok" /\ run'[h].step = "none"
  BY EndsSets, HostTyped DEF CleanupLite, ResetAt
<1>2. host'[h].lite = 0 /\ host'[h].kubelet = host[h].kubelet /\ host'[h].ca = host[h].ca
  <2>1. /\ host'[h] = [host[h] EXCEPT !.resolves = FALSE, !.lite = 0, !.upstream = "none"]
        /\ host[h] \in Hosts
    BY WritesOnly, HostTyped DEF CleanupLite
  <2> QED
    BY <2>1 DEF Hosts
<1>3. StepInv(h)'
  BY <1>1, <1>2
  DEF HostInv, StepInv, Joining, Running, SameCluster, Asked, JoinSteps, ResetSteps, BeforeLite,
      Worker
<1>4. CleanInv(h)'
  BY <1>1, <1>2 DEF HostInv, CleanInv, Asked, Found
<1> QED
  BY <1>1, <1>2, <1>3, <1>4, OfReset DEF Asked

\* What a failure changes in a command: it is not calm any more.
LEMMA DisturbedSets ==
  ASSUME TypeOK, NEW h \in Host, Running(h)
  PROVE  /\ Disturbed(h) \in Runs /\ Disturbed(h).outcome = "running"
         /\ Asked(Disturbed(h), run[h]) /\ Disturbed(h).endpoint = run[h].endpoint
         /\ Disturbed(h).server = run[h].server /\ Disturbed(h).dns = run[h].dns
         /\ Disturbed(h).fresh = run[h].fresh /\ Disturbed(h).found = run[h].found
         /\ Disturbed(h).there = run[h].there /\ ~Disturbed(h).calm
<1>1. run[h] \in Runs /\ run[h].outcome = "running"
  BY HostTyped DEF Running
<1> QED
  BY <1>1 DEF Disturbed, Runs, Asked

\* A command that is stopped.
LEMMA StopsInv ==
  ASSUME TypeOK, ClusterInv, NEW h \in Host, HostInv(h), Stops(h)
  PROVE  HostInv(h)'
<1>1. Running(h) /\ cluster' = cluster /\ Done' = Done
  BY DEF Stops, Done
<1>2. /\ Asked(run'[h], run[h]) /\ run'[h].endpoint = run[h].endpoint
      /\ run'[h].step = "none" /\ run'[h].outcome = "error"
      /\ run'[h].there = run[h].there /\ ~run'[h].calm
  BY <1>1, EndsSets, DisturbedSets DEF Stops, Asked, Found
<1>3. run[h].command # "none"
  BY <1>1 DEF HostInv, StepInv, Running
<1>4. CleanInv(h)'
  BY <1>2, <1>3 DEF CleanInv, Asked
<1>5. StepInv(h)'
  BY <1>1, <1>2, <1>3
  DEF HostInv, StepInv, Joining, Running, SameCluster, Asked, JoinSteps, ResetSteps, BeforeLite,
      Worker
<1>6. FreshInv(h)'
  BY <1>1, <1>2, <1>3
  DEF HostInv, StepInv, FreshInv, Fresh, Joining, LiteServes, EdgeWorker, Worker, Asked,
      JoinSteps, BeforeLite, BeforeKubelet
<1>7. NodeInv(h)'
  BY <1>1, <1>2, <1>3
  DEF HostInv, StepInv, NodeInv, Joining, Running, Asked, SameCluster, BeforeLite, BeforeKubelet,
      JoinSteps, LabelsOf, EdgeWorker, Worker
<1>8. DnsInv(h)'
  BY <1>1, <1>2, <1>3
  DEF HostInv, StepInv, DnsInv, Joining, EdgeWorker, Worker, SameCluster, Asked, EdgeInfo,
      Answers, Up, BeforeLite
<1>9. SucceedInv(h)'
  BY <1>1, <1>2, <1>3 DEF SucceedInv
<1> QED
  BY <1>4, <1>5, <1>6, <1>7, <1>8, <1>9 DEF HostInv

\* ensureHostDNS fails, and discovery goes on with the entry there is, or with none.
LEMMA HostsSwallowedInv ==
  ASSUME TypeOK, ClusterInv, NEW h \in Host, HostInv(h), At(h, "hosts"), cluster' = cluster,
         node' = node, NEW b \in BOOLEAN, Leave(h, [host[h] EXCEPT !.resolves = b]),
         Set(h, Goes(h, Disturbed(h)))
  PROVE  HostInv(h)'
<1>1. /\ run[h].command = "join" /\ run[h].step = "hosts" /\ Running(h) /\ Done' = Done
  BY DEF At, Done
<1>2. /\ Asked(run'[h], run[h]) /\ run'[h].endpoint = run[h].endpoint
      /\ run'[h].step = "discover" /\ run'[h].outcome = "running"
      /\ run'[h].server = run[h].server
      /\ run'[h].fresh = run[h].fresh /\ run'[h].found = run[h].found
      /\ run'[h].there = run[h].there /\ ~run'[h].calm
  BY <1>1, GoesSets, DisturbedSets DEF After, Asked, Found
<1>3. /\ host'[h].lite = host[h].lite /\ host'[h].ca = host[h].ca
      /\ host'[h].kubelet = host[h].kubelet
  <2>1. host'[h] = [host[h] EXCEPT !.resolves = b] /\ host[h] \in Hosts
    BY WritesOnly, HostTyped
  <2> QED
    BY <2>1 DEF Hosts
<1>4. StepInv(h)'
  BY <1>1, <1>2, <1>3
  DEF HostInv, StepInv, Joining, Running, SameCluster, Asked, JoinSteps, ResetSteps, BeforeLite,
      Worker
<1>5. FreshInv(h)'
  BY <1>1, <1>2, <1>3
  DEF HostInv, StepInv, FreshInv, Fresh, Joining, LiteServes, EdgeWorker, Worker, Asked,
      JoinSteps, BeforeLite, BeforeKubelet
<1>6. NodeInv(h)'
  BY <1>1, <1>2, <1>3
  DEF HostInv, StepInv, NodeInv, Joining, Running, Asked, SameCluster, BeforeLite, BeforeKubelet,
      JoinSteps, LabelsOf, EdgeWorker, Worker
<1>7. DnsInv(h)'
  BY <1>1, <1>2, <1>3
  DEF HostInv, StepInv, DnsInv, Joining, EdgeWorker, Worker, SameCluster, Asked, EdgeInfo,
      Answers, Up, BeforeLite
<1>8. SucceedInv(h)'
  BY <1>1, <1>2, <1>3 DEF SucceedInv
<1> QED
  BY <1>1, <1>2, <1>4, <1>5, <1>6, <1>7, <1>8, OfJoin DEF Asked

\* The Get of edge-info fails, and the join goes on without it.
LEMMA GetSwallowedInv ==
  ASSUME TypeOK, ClusterInv, NEW h \in Host, HostInv(h), At(h, "edge-info"), Worker(h),
         cluster' = cluster, node' = node, Leave(h, [host[h] EXCEPT !.ca = FALSE]),
         Set(h, Goes(h, [Disturbed(h) EXCEPT !.there = FALSE]))
  PROVE  HostInv(h)'
<1>1. /\ run[h].command = "join" /\ run[h].step = "edge-info" /\ Running(h) /\ Done' = Done
  BY DEF At, Done
<1>2. /\ Asked(run'[h], run[h]) /\ run'[h].endpoint = run[h].endpoint
      /\ run'[h].step = "lite" /\ run'[h].outcome = "running"
      /\ run'[h].server = run[h].server
      /\ run'[h].fresh = run[h].fresh /\ run'[h].found = run[h].found
      /\ ~run'[h].there /\ ~run'[h].calm
  <2> DEFINE r == [Disturbed(h) EXCEPT !.there = FALSE]
  <2>1. /\ r \in Runs /\ Asked(r, run[h]) /\ r.endpoint = run[h].endpoint
        /\ r.outcome = "running" /\ r.server = run[h].server
        /\ r.fresh = run[h].fresh /\ r.found = run[h].found /\ ~r.there /\ ~r.calm
    BY <1>1, DisturbedSets DEF Runs, Asked
  <2>2. Set(h, Goes(h, r)) /\ After(h, run[h].step) = "lite"
    BY <1>1 DEF After
  <2> HIDE DEF r
  <2> QED
    BY <2>1, <2>2, GoesSets DEF Asked, Found
<1>3. /\ host'[h].lite = host[h].lite /\ ~host'[h].ca /\ host'[h].kubelet = host[h].kubelet
  <2>1. host'[h] = [host[h] EXCEPT !.ca = FALSE] /\ host[h] \in Hosts
    BY WritesOnly, HostTyped
  <2> QED
    BY <2>1 DEF Hosts
<1>4. StepInv(h)'
  BY <1>1, <1>2, <1>3
  DEF HostInv, StepInv, Joining, Running, SameCluster, Asked, JoinSteps, ResetSteps, BeforeLite,
      Worker
<1>5. FreshInv(h)'
  BY <1>1, <1>2, <1>3
  DEF HostInv, StepInv, FreshInv, Fresh, Joining, LiteServes, EdgeWorker, Worker, Asked,
      JoinSteps, BeforeLite, BeforeKubelet
<1>6. NodeInv(h)'
  BY <1>1, <1>2, <1>3
  DEF HostInv, StepInv, NodeInv, Joining, Running, Asked, SameCluster, BeforeLite, BeforeKubelet,
      JoinSteps, LabelsOf, EdgeWorker, Worker
<1>7. DnsInv(h)'
  BY <1>1, <1>2, <1>3
  DEF HostInv, StepInv, DnsInv, Joining, EdgeWorker, Worker, SameCluster, Asked, EdgeInfo,
      Answers, Up, BeforeLite
<1>8. SucceedInv(h)'
  BY <1>1, <1>2, <1>3 DEF SucceedInv
<1> QED
  BY <1>1, <1>2, <1>4, <1>5, <1>6, <1>7, <1>8, OfJoin DEF Asked

\* The entries of edge-info are not written to /etc/hosts; the DNS has been set before.
LEMMA HostDNSSwallowedInv ==
  ASSUME TypeOK, ClusterInv, NEW h \in Host, HostInv(h), At(h, "edge-info"), Worker(h),
         cluster' = cluster, node' = node, NEW b \in BOOLEAN,
         Leave(h, [host[h] EXCEPT !.ca = FALSE, !.resolves = b]),
         Set(h, Goes(h, [Disturbed(h) EXCEPT !.dns = "edge"]))
  PROVE  HostInv(h)'
<1>1. /\ run[h].command = "join" /\ run[h].step = "edge-info" /\ Running(h) /\ Done' = Done
  BY DEF At, Done
<1>2. /\ Asked(run'[h], run[h]) /\ run'[h].endpoint = run[h].endpoint
      /\ run'[h].step = "lite" /\ run'[h].outcome = "running"
      /\ run'[h].server = run[h].server /\ run'[h].dns = "edge"
      /\ run'[h].fresh = run[h].fresh /\ run'[h].found = run[h].found
      /\ run'[h].there = run[h].there /\ ~run'[h].calm
  <2> DEFINE r == [Disturbed(h) EXCEPT !.dns = "edge"]
  <2>1. /\ r \in Runs /\ Asked(r, run[h]) /\ r.endpoint = run[h].endpoint
        /\ r.outcome = "running" /\ r.server = run[h].server /\ r.dns = "edge"
        /\ r.fresh = run[h].fresh /\ r.found = run[h].found /\ r.there = run[h].there /\ ~r.calm
    BY <1>1, DisturbedSets DEF Runs, Asked
  <2>2. Set(h, Goes(h, r)) /\ After(h, run[h].step) = "lite"
    BY <1>1 DEF After
  <2> HIDE DEF r
  <2> QED
    BY <2>1, <2>2, GoesSets DEF Asked, Found
<1>3. /\ host'[h].lite = host[h].lite /\ ~host'[h].ca /\ host'[h].kubelet = host[h].kubelet
  <2>1. host'[h] = [host[h] EXCEPT !.ca = FALSE, !.resolves = b] /\ host[h] \in Hosts
    BY WritesOnly, HostTyped
  <2> QED
    BY <2>1 DEF Hosts
<1>4. StepInv(h)'
  BY <1>1, <1>2, <1>3
  DEF HostInv, StepInv, Joining, Running, SameCluster, Asked, JoinSteps, ResetSteps, BeforeLite,
      Worker
<1>5. FreshInv(h)'
  BY <1>1, <1>2, <1>3
  DEF HostInv, StepInv, FreshInv, Fresh, Joining, LiteServes, EdgeWorker, Worker, Asked,
      JoinSteps, BeforeLite, BeforeKubelet
<1>6. NodeInv(h)'
  BY <1>1, <1>2, <1>3
  DEF HostInv, StepInv, NodeInv, Joining, Running, Asked, SameCluster, BeforeLite, BeforeKubelet,
      JoinSteps, LabelsOf, EdgeWorker, Worker
<1>7. DnsInv(h)'
  BY <1>1, <1>2, <1>3
  DEF HostInv, StepInv, DnsInv, Joining, EdgeWorker, Worker, SameCluster, Asked, EdgeInfo,
      Answers, Up, BeforeLite
<1>8. SucceedInv(h)'
  BY <1>1, <1>2, <1>3 DEF SucceedInv
<1> QED
  BY <1>1, <1>2, <1>4, <1>5, <1>6, <1>7, <1>8, OfJoin DEF Asked

\* lite-apiserver is installed over one that was not seen: the host was not clean, and the server
\* that has just answered is one that had answered for edge-info as well.
LEMMA LiteSwallowedInv ==
  ASSUME TypeOK, ClusterInv, NEW h \in Host, HostInv(h), At(h, "lite"), host[h].lite # 0,
         Answers(h, run[h].server), cluster' = cluster, node' = node, Leave(h, Lite(h)),
         Set(h, Goes(h, [Disturbed(h) EXCEPT !.server = "lite"]))
  PROVE  HostInv(h)'
<1>1. /\ run[h].command = "join" /\ run[h].step = "lite" /\ Running(h) /\ Done' = Done
  BY DEF At, Done
<1>2. /\ Asked(run'[h], run[h]) /\ run'[h].endpoint = run[h].endpoint
      /\ run'[h].step = "preflight" /\ run'[h].outcome = "running"
      /\ run'[h].server = "lite" /\ run'[h].dns = run[h].dns
      /\ run'[h].fresh = run[h].fresh /\ run'[h].found = run[h].found
      /\ run'[h].there = run[h].there /\ ~run'[h].calm
  <2> DEFINE r == [Disturbed(h) EXCEPT !.server = "lite"]
  <2>1. /\ r \in Runs /\ Asked(r, run[h]) /\ r.endpoint = run[h].endpoint
        /\ r.outcome = "running" /\ r.server = "lite" /\ r.dns = run[h].dns
        /\ r.fresh = run[h].fresh /\ r.found = run[h].found /\ r.there = run[h].there /\ ~r.calm
    BY <1>1, DisturbedSets DEF Runs, Asked
  <2>2. Set(h, Goes(h, r)) /\ After(h, run[h].step) = "preflight"
    BY <1>1 DEF After
  <2> HIDE DEF r
  <2> QED
    BY <2>1, <2>2, GoesSets DEF Asked, Found
<1>3. ~run[h].fresh
  BY <1>1 DEF HostInv, FreshInv, Fresh, Joining, BeforeLite
<1>4. StepInv(h)'
  BY <1>1, <1>2, <1>3
  DEF HostInv, StepInv, Joining, Running, SameCluster, Asked, JoinSteps, ResetSteps, BeforeLite,
      Worker
<1>5. FreshInv(h)'
  BY <1>1, <1>2, <1>3
  DEF HostInv, StepInv, FreshInv, Fresh, Joining, LiteServes, EdgeWorker, Worker, Asked,
      JoinSteps, BeforeLite, BeforeKubelet
<1>6. NodeInv(h)'
  BY <1>1, <1>2, <1>3
  DEF HostInv, StepInv, NodeInv, Joining, Running, Asked, SameCluster, BeforeLite, BeforeKubelet,
      JoinSteps, LabelsOf, EdgeWorker, Worker
<1>7. DnsInv(h)'
  BY <1>1, <1>2, <1>3
  DEF HostInv, StepInv, DnsInv, Joining, EdgeWorker, Worker, SameCluster, Asked, EdgeInfo,
      Answers, Up, BeforeLite
<1>8. SucceedInv(h)'
  BY <1>1, <1>2, <1>3 DEF SucceedInv
<1> QED
  BY <1>1, <1>2, <1>4, <1>5, <1>6, <1>7, <1>8, OfJoin DEF Asked

\* The cloud label is not set, and the join says nothing of it.
LEMMA LabelSwallowedInv ==
  ASSUME TypeOK, ClusterInv, NEW h \in Host, HostInv(h), At(h, "label"), ~EdgeWorker(h),
         cluster' = cluster, node' = node, host' = host, Set(h, Ends(Disturbed(h), "ok"))
  PROVE  HostInv(h)'
<1>1. /\ run[h].command = "join" /\ run[h].step = "label" /\ Running(h) /\ Done' = Done
  BY DEF At, Done
<1>2. /\ Asked(run'[h], run[h]) /\ run'[h].endpoint = "ip"
      /\ run'[h].step = "none" /\ run'[h].outcome = "ok"
      /\ run'[h].fresh = run[h].fresh /\ run'[h].found = run[h].found
      /\ run'[h].there = run[h].there /\ ~run'[h].calm
  BY <1>1, EndsSets, DisturbedSets DEF Asked, Found
<1>3. ~EdgeWorker(h)'
  BY <1>2 DEF EdgeWorker, Asked
<1>4. StepInv(h)'
  BY <1>1, <1>2, <1>3
  DEF HostInv, StepInv, Joining, Running, SameCluster, Asked, JoinSteps, ResetSteps, BeforeLite,
      Worker
<1>5. FreshInv(h)'
  BY <1>1, <1>2, <1>3
  DEF HostInv, StepInv, FreshInv, Fresh, Joining, LiteServes, EdgeWorker, Worker, Asked,
      JoinSteps, BeforeLite, BeforeKubelet
<1>6. NodeInv(h)'
  BY <1>1, <1>2, <1>3
  DEF HostInv, StepInv, NodeInv, Joining, Running, Asked, SameCluster, BeforeLite, BeforeKubelet,
      JoinSteps, LabelsOf, EdgeWorker, Worker
<1>7. DnsInv(h)'
  BY <1>1, <1>2, <1>3
  DEF HostInv, StepInv, DnsInv, Joining, EdgeWorker, Worker, SameCluster, Asked, EdgeInfo,
      Answers, Up, BeforeLite
<1>8. SucceedInv(h)'
  BY <1>1, <1>2, <1>3 DEF SucceedInv
<1> QED
  BY <1>1, <1>2, <1>4, <1>5, <1>6, <1>7, <1>8, OfJoin DEF Asked

\* reset says that it is through, and lite-apiserver or its name in /etc/hosts is still there.
LEMMA ResetSwallowedInv ==
  ASSUME TypeOK, ClusterInv, NEW h \in Host, HostInv(h), ResetAt(h, "cleanup-lite"),
         Set(h, Ends([Disturbed(h) EXCEPT !.fresh = FALSE], "ok"))
  PROVE  HostInv(h)'
<1>1. /\ run'[h].command = "reset" /\ ~run'[h].fresh
      /\ run'[h].step = "none" /\ run'[h].outcome = "ok"
  <2> DEFINE r == [Disturbed(h) EXCEPT !.fresh = FALSE]
  <2>1. r \in Runs /\ r.command = "reset" /\ ~r.fresh
    BY DisturbedSets DEF Runs, Asked, ResetAt
  <2>2. Set(h, Ends(r, "ok"))
    OBVIOUS
  <2> HIDE DEF r
  <2> QED
    BY <2>1, <2>2, EndsSets DEF Asked, Found
<1>2. StepInv(h)'
  BY <1>1
  DEF HostInv, StepInv, Joining, Running, SameCluster, JoinSteps, ResetSteps, BeforeLite, Worker
<1>3. CleanInv(h)'
  BY <1>1 DEF CleanInv
<1> QED
  BY <1>1, <1>2, <1>3, OfReset

LEMMA SwallowedInv ==
  ASSUME TypeOK, ClusterInv, NEW h \in Host, HostInv(h), Swallowed(h)
  PROVE  HostInv(h)'
<1>1. cluster' = cluster /\ node' = node
  BY DEF Swallowed
<1>2. host[h].resolves \in BOOLEAN
  <2>1. host[h] \in Hosts
    BY HostTyped
  <2> QED
    BY <2>1 DEF Hosts
<1> QED
  BY <1>1, <1>2, HostsSwallowedInv, GetSwallowedInv, HostDNSSwallowedInv, LiteSwallowedInv,
     LabelSwallowedInv, ResetSwallowedInv
  DEF Swallowed

LEMMA OwnStep ==
  ASSUME TypeOK, ClusterInv, NEW h \in Host, HostInv(h), HostStep(h)
  PROVE  HostInv(h)'
<1>1. CASE Join(h)
  <2>1. ASSUME Preflight(h) PROVE HostInv(h)'
    BY <2>1, PreflightInv, PreflightFailsInv DEF Preflight
  <2>2. ASSUME KubeletStart(h) PROVE HostInv(h)'
    BY <2>2, KubeletInv, KubeletFailsInv DEF KubeletStart
  <2>3. ASSUME AddLabel(h) PROVE HostInv(h)'
    BY <2>3, LabelInv, LabelFailsInv DEF AddLabel, Fail
  <2> QED
    BY <1>1, <2>1, <2>2, <2>3, ConfigInv, DiscoverInv, TimesOutInv, PrepareInv, InstallLiteInv,
       NoEdgeInfoInv, LiteRunsInv
    DEF Join
<1> QED
  BY <1>1, StartJoinInv, StartResetInv, CleanupNodeInv, CleanupLiteInv,
     StopsInv, SwallowedInv
  DEF HostStep, Reset

----------------------------------------------------------------------------
(***************************************************************************)
(* The steps of other hosts and of the master                              *)
(***************************************************************************)
LEMMA OtherStep ==
  ASSUME NEW h \in Host, HostInv(h), cluster' = cluster,
         host'[h] = host[h], run'[h] = run[h],
         node'[h] \in {node[h], {}, node[h] \ {"ready"}}
  PROVE  HostInv(h)'
<1>1. Done' = Done
  BY DEF Done
<1>2. StepInv(h)'
  BY DEF HostInv, StepInv, Joining, Running, Worker, SameCluster
<1>3. CleanInv(h)'
  BY DEF HostInv, CleanInv
<1>4. FreshInv(h)'
  BY DEF HostInv, FreshInv, Fresh, Joining, EdgeWorker, LiteServes
<1>5. NodeInv(h)'
  BY <1>1
  DEF HostInv, NodeInv, Joining, Running, SameCluster, Answers, Up, LabelsOf, EdgeWorker, Labels
<1>6. DnsInv(h)'
  BY <1>1 DEF HostInv, DnsInv, EdgeWorker, SameCluster, EdgeInfo, Joining, Answers, Up
<1>7. SucceedInv(h)'
  BY <1>1 DEF HostInv, SucceedInv, Fresh, SameCluster, Hopeless, Joining, Answers, Up
<1> QED
  BY <1>2, <1>3, <1>4, <1>5, <1>6, <1>7 DEF HostInv

\* The cluster of the command is not there any more: nothing answers it.
LEMMA LostCluster ==
  ASSUME NEW h \in Host, HostInv(h), host'[h] = host[h], run'[h] = run[h], node'[h] = {},
         ~SameCluster(h)', ~Up' \/ run'[h].cluster # cluster'.id
  PROVE  HostInv(h)'
<1>1. StepInv(h)'
  BY DEF HostInv, StepInv, Joining, Running, Worker
<1>2. CleanInv(h)'
  BY DEF HostInv, CleanInv
<1>3. FreshInv(h)'
  BY DEF HostInv, FreshInv, Fresh, Joining, EdgeWorker, LiteServes
<1>4. NodeInv(h)'
  BY DEF HostInv, NodeInv, Fresh, Joining, Running
<1>5. DnsInv(h)'
  BY DEF HostInv, DnsInv, EdgeWorker, Joining, Answers
<1>6. SucceedInv(h)'
  BY DEF SucceedInv
<1> QED
  BY <1>1, <1>2, <1>3, <1>4, <1>5, <1>6 DEF HostInv

\* init publishes more; what a command that began after its end has found stays.
LEMMA PhaseInv ==
  ASSUME TypeOK, ClusterInv, NEW h \in Host, HostInv(h), RunPhase \/ InitFails
  PROVE  HostInv(h)'
<1>1. /\ cluster.outcome = "running" /\ cluster'.outcome \in {"running", "ok", "error"}
      /\ cluster'.id = cluster.id /\ cluster'.edge = cluster.edge /\ cluster'.sans = cluster.sans
      /\ host' = host /\ run' = run /\ node' = node
  BY PhaseFields DEF RunPhase, InitFails
<1>2. Done \subseteq Done'
  BY PhaseFields
<1>3. StepInv(h)'
  BY <1>1 DEF HostInv, StepInv, Joining, Running, Worker, SameCluster
<1>4. CleanInv(h)'
  BY <1>1 DEF HostInv, CleanInv
<1>5. FreshInv(h)'
  BY <1>1 DEF HostInv, FreshInv, Fresh, Joining, EdgeWorker, LiteServes
<1>6. NodeInv(h)'
  BY <1>1, <1>2
  DEF HostInv, NodeInv, Fresh, Joining, Running, SameCluster, Answers, Up, LabelsOf, EdgeWorker
<1>7. DnsInv(h)'
  <2>1. EdgeInfo => Up
    BY DoneIs, TypedNext
  <2> QED
    BY <1>1, <1>2, <2>1
    DEF HostInv, DnsInv, EdgeWorker, SameCluster, EdgeInfo, Joining, Answers, Up
<1>8. SucceedInv(h)'
  BY <1>1 DEF HostInv, SucceedInv, Fresh, SameCluster
<1> QED
  BY <1>3, <1>4, <1>5, <1>6, <1>7, <1>8 DEF HostInv

LEMMA ClusterStepInv ==
  ASSUME TypeOK, ClusterInv, NEW h \in Host, HostInv(h), ClusterStep
  PROVE  HostInv(h)'
<1>1. CASE StartInit
  <2>1. /\ cluster'.id = cluster.id + 1 /\ cluster.id \in Nat /\ run[h].cluster \in Nat
        /\ run[h].cluster <= cluster.id /\ node[h] = {}
        /\ host' = host /\ run' = run /\ node' = node
    BY <1>1, InNat DEF StartInit, ClusterInv
  <2>2. run'[h].cluster # cluster'.id
    BY <2>1
  <2> QED
    BY <2>1, <2>2, LostCluster DEF SameCluster
<1>2. CASE RunPhase \/ InitFails
  BY <1>2, PhaseInv
<1>3. CASE ResetMaster
  <2>1. /\ cluster'.outcome = "none" /\ cluster'.next = 1
        /\ host' = host /\ run' = run /\ node'[h] = {}
    BY <1>3 DEF ResetMaster, TypeOK
  <2>2. ~Up'
    BY <2>1 DEF Up, Done
  <2> QED
    BY <2>1, <2>2, LostCluster DEF SameCluster
<1> QED
  BY <1>1, <1>2, <1>3 DEF ClusterStep

----------------------------------------------------------------------------
(***************************************************************************)
(* The theorems                                                            *)
(***************************************************************************)
LEMMA InvInit == Init => Inv
<1> SUFFICES ASSUME Init PROVE ClusterInv /\ EdgeAppsFirst /\ \A h \in Host : HostInv(h)
  BY InitTyped DEF Inv
<1>1. cluster = [id |-> 0, edge |-> FALSE, sans |-> "ip", next |-> 1, outcome |-> "none"]
  BY DEF Init
<1>2. \A h \in Host : run[h] = NoRun /\ host[h] = CleanHost /\ node[h] = {}
  BY DEF Init
<1>3. ClusterInv /\ EdgeAppsFirst
  BY <1>1, <1>2 DEF ClusterInv, EdgeAppsFirst, CleanHost, NoRun
<1>4. ASSUME NEW h \in Host PROVE HostInv(h)
  BY <1>1, <1>2
  DEF HostInv, StepInv, CleanInv, FreshInv, NodeInv, DnsInv, SucceedInv, Fresh, Joining, Running,
      CleanHost, NoRun
<1> QED
  BY <1>3, <1>4

LEMMA InvStep == Inv /\ [Next]_vars => Inv'
<1> SUFFICES ASSUME Inv, [Next]_vars
             PROVE  ClusterInv' /\ EdgeAppsFirst' /\ \A h \in Host : HostInv(h)'
  BY NextTyped DEF Inv
<1>1. TypeOK /\ ClusterInv /\ EdgeAppsFirst /\ \A h \in Host : HostInv(h)
  BY DEF Inv
<1>2. ASSUME NEW g \in Host, HostStep(g)
      PROVE  ClusterInv' /\ EdgeAppsFirst' /\ \A h \in Host : HostInv(h)'
  <2>1. Frame(g)
    BY <1>1, <1>2, StepFrame
  <2>2. HostInv(g)'
    BY <1>1, <1>2, OwnStep
  <2>3. ASSUME NEW h \in Host, h # g PROVE HostInv(h)'
    BY <1>1, <2>1, <2>3, OtherStep DEF Frame
  <2> QED
    BY <1>1, <2>1, <2>2, <2>3, HostStepCluster
<1>3. ASSUME NEW g \in Host, DeleteNode(g) \/ NodeNotReady(g)
      PROVE  ClusterInv' /\ EdgeAppsFirst' /\ \A h \in Host : HostInv(h)'
  <2>1. /\ cluster' = cluster /\ host' = host /\ run' = run
        /\ \A h \in Host : node'[h] \in {node[h], {}, node[h] \ {"ready"}}
    BY <1>1, <1>3 DEF DeleteNode, NodeNotReady, TypeOK
  <2>2. \A h \in Host : HostInv(h)'
    BY <1>1, <2>1, OtherStep
  <2>3. ClusterInv' /\ EdgeAppsFirst'
    BY <1>1, <2>1 DEF ClusterInv, EdgeAppsFirst, Done
  <2> QED
    BY <2>2, <2>3
<1>4. CASE ClusterStep
  <2>1. ClusterInv' /\ EdgeAppsFirst'
    BY <1>1, <1>4, StartCluster, PhaseCluster, ResetCluster DEF ClusterStep
  <2> QED
    BY <1>1, <1>4, <2>1, ClusterStepInv
<1>5. CASE UNCHANGED vars
  <2>1. \A h \in Host : HostInv(h)'
    BY <1>1, <1>5, OtherStep DEF vars
  <2> QED
    BY <1>1, <1>5, <2>1 DEF vars, ClusterInv, EdgeAppsFirst, Done
<1> QED
  BY <1>2, <1>3, <1>4, <1>5 DEF Next, HostStep, ClusterStep

\* What is known of the master and of each host between any two steps always holds: how far init
\* is, and what a command on a host has found and left there so far.
THEOREM InvHolds == Spec => []Inv
BY InvInit, InvStep, PTL DEF Spec

\* The types of InitJoin hold; with them, init never runs a phase behind its last one, and a host
\* is at a step exactly while a command runs there (NewInitCMD, NewJoinCMD, NewResetCMD).
THEOREM TypeCorrect == Spec => []TypeOK
<1>1. Inv => TypeOK
  BY DEF Inv
<1> QED
  BY <1>1, InvHolds, PTL

\* No host ever runs lite-apiserver with certificates of a cluster whose init has not deployed
\* every application of the edge nodes, whatever fails, is repeated or is reset on the way
\* (NewEdgeAppsPhase, deployLiteAPIServer).
THEOREM EdgeAppsAlwaysFirst == Spec => []EdgeAppsFirst
<1>1. Inv => EdgeAppsFirst
  BY DEF Inv
<1> QED
  BY <1>1, InvHolds, PTL

\* On a host where nothing was left of an earlier command, an edge worker that has joined always
\* reaches its cluster through a lite-apiserver of this cluster which reaches it, whatever failure
\* the join has swallowed (installLiteAPIServer).
THEOREM AlwaysThroughLite == Spec => []ThroughLite
<1>1. Inv => ThroughLite
  BY DEF Inv, HostInv, ThroughLite, JoinEnded, FreshInv, Fresh, LiteServes
<1> QED
  BY <1>1, InvHolds, PTL

\* Where edge-info was there when an edge worker's join began, only a failure of the Get itself
\* leaves a joined worker with the DNS of a cloud node; any other way of missing edge-info ends
\* the join in a later phase (prepareJoinEdgeNode, whose error is swallowed).
THEOREM AlwaysDnsOfEdge == Spec => []DnsOfEdge
<1>1. Inv => DnsOfEdge
  BY DEF Inv, HostInv, DnsOfEdge, JoinEnded, DnsInv
<1> QED
  BY <1>1, InvHolds, PTL

\* A node that has joined has the labels of its role, unless the one Update whose error is ignored
\* has failed, and has no others but those of the Node its join began with (NewAddNodeLabelPhase).
THEOREM AlwaysLabelledByRole == Spec => []LabelledByRole
<1>1. Inv => LabelledByRole
  BY DEF Inv, HostInv, LabelledByRole, JoinEnded, NodeInv, Fresh, LabelsOf
<1> QED
  BY <1>1, InvHolds, PTL

\* In a cluster whose init has ended a join of which no call fails by itself, on a host that is new
\* or was reset, fails in three cases only: with --enable-edge in a cluster without it, with the
\* name of SANs that have an address as well, and over a Node that still counted as ready when the
\* join began (TLSBootstrapCfg, printJoinCommand, kubeadm's kubelet-start).
THEOREM JoinAlwaysSucceeds == Spec => []JoinSucceeds
<1>1. Inv => JoinSucceeds
  BY DEF Inv, HostInv, JoinSucceeds, JoinEnded, SucceedInv, Fresh, Hopeless
<1> QED
  BY <1>1, InvHolds, PTL

=============================================================================
