# edgeadm in TLA+

edgeadm turns a native Kubernetes cluster into an edge cluster and back, builds such
clusters from nothing, and joins and resets nodes. This directory models the parts of it
whose behaviour depends on the *order* of things: commands that fail half-way and are run
again, commands that overlap, objects other actors write meanwhile, waits that may never
end, and the one data structure several goroutines share.

`PROJECT.json` lists every component, run, mutant, hazard and theorem, and maps each
definition to the lines of `src/` it models. Paths below are relative to
`src/pkg/edgeadm` unless they start with another directory.

## 1. Inventory

All durable state is in the cluster: objects in the API server and labels of nodes. A
command is one process that issues API calls one after the other and, with few exceptions,
returns the first error. There is no transaction, no lease between two edgeadm processes
and no record of how far a command got. A command that is killed is a command that stops
between two calls.

| Component | State it keeps | Operations | Talks to | Hard behaviour | Correct means |
|---|---|---|---|---|---|
| cluster-config switch (`common/update_config.go`, `common/prepare_join_node.go`, `common/common.go`) | kube-proxy and its edge copy with node affinity; ConfigMap and ServiceAccount of the copy; the `kubernetes` Endpoints, its backup `kubernetes-no-edge`, its slice; `edge-info`, Role, RoleBinding | `UpdateKubeConfig`, `JoinNodePrepare`, `RecoverKubeConfig`, `DeleteLiteApiServerCert` | API server, its endpoint controller, joining nodes | partial failure and re-run, overlap, refused Updates, objects the API server recreates | the original configuration is never lost; success means complete; kube-proxy everywhere throughout |
| edge-apps addon and detach (`common/common.go`, `cmd/addon`) | none of its own | `DeployEdgeAPPS`, `DeleteEdgeAPPS` | all the stages, in order | a failed stage leaves the rest undone; order on the way out | detach after a failed addon and a repeated detach clean up |
| tunnel, edge-health, service-group, site-manager, edge-coredns (`common/deploy_*.go`) | objects of their manifests, webhook configurations, Secrets | deploy and delete | kubeclient | polls whose result is dropped, waits for a node port, deletion in Go map order | stages end; success means deployed |
| edge preflight (`common/deploy_edge_preflight.go`) | bootstrap RBAC, `cluster-info`, the kubeadm and kubelet ConfigMaps | deploy | API server | most of it is kubeadm's and exists already | what an administrator edited is not written over |
| kubeclient: apply and delete (`pkg/util/kubeclient`) | none | `CreateResourceWithFile`, `DeleteResourceWithFile`, 20 handlers per kind | API server | create-or-update, delete-then-create, many documents in one file | applying twice is applying once, but for kinds that can only be created; a delete fails or not on what is gone, by its path |
| kubeclient: labels and versions (`client.go`) | labels of nodes | `AddNodeLabel`, `DeleteNodeLabel`, `CheckNodeLabel`, `k8sVersionInt` | API server, kubelets that write the same nodes | read-modify-write, refused Updates, polling with a time-out | the label arrives, or an error does; no foreign change is lost |
| change and revert (`cmd/change`, `cmd/revert`) | objects as above, helper Jobs, node labels | change a kubeadm cluster into an edge cluster and back | API server, jobs on the nodes | endless wait, half-labelled nodes, a nil configuration, an order of deletions | revert undoes change |
| helper jobs (`common/common.go`) | Jobs and their RBAC | deploy, clear | API server, kubelets | a job per node, each may fail or never end | every node changed or reported |
| edgex, topolvm (`common/common.go`, `common/csi_plugin.go`, `cmd/addon`) | objects of manifests, the ConfigMap users edit | addon, detach, in any choice of levels | kubeclient | addon again over what an interrupted one left; a webhook that is removed and deployed anew | a re-run goes through; nobody's configuration is written over |
| init (`pkg/util/kubeadm/init.go`, `steps/`) | the cluster being built | an ordered list of phases | vendored kubeadm, the components above | phases in an order a joining node can observe | no phase needs what a later one makes; what edge nodes run is there before they are let in |
| join (`pkg/util/kubeadm/join.go`, `steps/join_master.go`, `steps/lite_apiserver_init.go`) | `/etc/hosts`, certificates, lite-apiserver, the kubelet's configuration; the labels of the Node | an ordered list of phases | API server, lite-apiserver | errors that are swallowed, what an earlier join left | an edge node goes through lite-apiserver, asks the edge DNS and has the labels of its role |
| reset (`pkg/util/kubeadm/reset.go`, `steps/lite_apiserver_clean.go`) | the same | phases | vendored kubeadm | failures that are only warned of; the Node object stays | a node that was reset can join again, in any role |
| in-memory allocator (`src/pkg/util/allocator`) | bitmap, counter, mutex | `Allocate`, `AllocateNext`, `Release`, `ForEach`, `Has`, `Free`, `Snapshot`, `Restore` | goroutines | interleaving, two fields written one after the other | no address handed out twice; the counter is right |
| IP range (`src/pkg/util/ipallocator`) | base, max | the methods above by address, address arithmetic | the allocator | ranges of 0, 1, 2 addresses | network and broadcast never handed out |
| node and runtime set-up, certificates, command line, utilities, constants | local files | shell commands, file I/O, cryptography | the machine | shared work directory | outside the models |

The hazards, each at its line, are in `PROJECT.json`.

## 2. Modules

| Module | Models | State and actions |
|---|---|---|
| `KubeAPI` | the API server as client-go shows it (external) | `api` the objects, `copy` what each client read last, `pc` the next call, `run` the command and its outcome. Verbs `Get`, `Create`, `Update`, `Patch`, `Delete`: each one succeeds and leads to the next call, or ends the command |
| `KubeConfigSwitch` | the cluster-config switch with the first and last stages of addon and detach | one action per API call, in the order of the source; `Start` begins a command; `Abort`, `ListFails`, `DeleteEdgeInfoFails` are the faults; `ControllerWrites`, `JoinReadsEdgeInfo`, `JoinLabelsNode`, `NodeLeaves` the surroundings |
| `KubeConfigSwitch_proofs` | its theorems | |
| `SwitchPlan` | `KubeConfigSwitch` and `CommandRunner` side by side | history variables `before`, `written`, `calm`, `failed` record what `CommandRunner` remembers; `documents`, `Place` and `PlanOf` map objects, calls and commands |
| `SwitchPlan_proofs` | that the first implements the second | |
| `AddressPool` | the abstract promise of an address pool | a set of taken offsets; each call takes effect at one instant |
| `AllocationBitmap` | allocator and the range in front of it | `lock`, `allocated` (set bits), `count`; `pc` says where a goroutine is: at the lock, in the first or second half of the method, at the unlock |
| `NodeLabels` | `AddNodeLabel`, `DeleteNodeLabel`, `change label`, the label loop of revert | `labels` per node and key, `copy` what each caller read; `pc` the call a poll or loop is at, `tries`, `queue` of the loop |
| `NodeLabels_proofs` | its theorems | |
| `MCAllocationBitmap` | instance for TLC | the offsets asked for |
| `AllocationBitmap_proofs` | its theorems, the refinement included | |
| `Manifests` | the built-in manifests | data: kind, name and namespace of every document, in file order |
| `Workflows` | what each command does | data: a command is a sequence of stages of calls, one operator per function of the source |
| `CommandRunner` | the execution of such plans (a parameter) | `api` per document absent, of an earlier command or of this one; `stage`, `part`, `next`, `todo`, `tries` where the command is; `outcome`, `before`, `calm` how it stands. `Start`, `Perform`, `Refused`, `Decline`, `Fault`, `FailsAgain`, `Overlook`, `Interrupt` |
| `ClusterCommands` | the composition of the last two | the table of commands (`PlanOf`) and the properties of edgeadm's own plans |
| `MCClusterCommands` | instance for TLC | the levels asked for, the documents of kubeadm |
| `CommandRunner_proofs` | the theorems, for every plan | |
| `SoundPlans` | what a plan must look like for its commands to succeed and to lose nothing | no state: conditions on the order of the calls of a plan (`Sound`), and assumptions that every plan meets them |
| `SoundPlans_proofs` | that the conditions are enough, whatever fails | |
| `ClusterCommands_proofs` | the theorems about edgeadm's own plans | |
| `InitJoin` | init on a master, join and reset on hosts | `cluster` which phase init is at, `host` what is on each host, `node` the labels of its Node and whether it is ready, `run` the command, its step and what it found when it began; one action per phase |
| `InitJoin_proofs` | its theorems, for any number of hosts, clusters and faults | |

### How the switch corresponds to the code

`createCM`..`updateSlice` are the calls of `UpdateKubeProxyKubeconfig`,
`UpdateKubernetesEndpoint` and `UpdateKubernetesEndpointSlice`; `createRole`..`putEdgeInfo`
those of `JoinNodePrepare`; `checkNodes` is `CheckIfEdgeAppDeletable`;
`deleteDS`..`deleteBackup` are `RecoverKubeProxyKubeconfig` and
`RecoverKubernetesEndpoint`; `deleteRole`..`deleteEdgeInfo` are `DeleteLiteApiServerCert`.

Nothing in the code keeps two edgeadm processes apart, so what operators run at the same
time is a constant, `Concurrent`: none of the commands, addons, or all of them.

What the data is abstracted to:

- a DaemonSet is its affinity on the edge label (`none`, `noedge`, `edge`). The cluster
  starts as kubeadm leaves it: kube-proxy without an affinity. The edge DaemonSet is a copy
  of whatever kube-proxy has at the time, as in the code;
- Endpoints, backup and slice are their annotations: `original`, `edge`, or `blank` when the
  API server made the object anew;
- everything else is present or absent.

A copy a client holds has a flag `current`, which any write to the object clears; an
`Update` with a copy that is not current is refused. An Update of an object that was deleted
meanwhile is refused too: the server answers NotFound where the copy was of a deleted
object, Conflict where it was recreated.

Choices that a reader may wonder about:

- Gets of the kube-proxy ConfigMap and ServiceAccount are merged with the Create that
  follows: nothing changes these two, so the Get cannot matter.
- The Get of `edge-info` takes any error for "not there", so a failed Get leads to a Create.
- `DeleteLiteApiServerCert` drops the error of its last Delete: that call is never an error.
- An error of the List in the gate reads as "nodes are left", and the command returns nil
  without doing anything (`refused`).
- A fault is one action, `Abort`: a call that fails, or an edgeadm that is killed. As it may
  strike at the next call instead, after this one was applied, it covers replies that are
  lost. The next run starts from whatever the cluster then is.
- The stages of addon before `UpdateKubeConfig` and the stages of detach between the gate
  and `RecoverKubeConfig` write none of the objects here; they are in `Workflows`. Their
  failure is a run that never starts, or a detach that stops after the gate.

### How the allocator corresponds to the code

A method is `Lock`, then its body, then the deferred `Unlock`. Where a method writes both
the bitmap and the counter it has two actions with a state between them, in the order of
the source (`AllocateNext` counts first and sets the bit second, `Allocate` the other way
round). `AllocateBit(start)` is the scan of either strategy: the contiguous one starts at 0,
the random one anywhere. The bitmap's `big.Int` and the byte encoding of a snapshot are the
set of bits set. `Call` is the check `contains` of the range in front of the bitmap;
`CallPool` may answer `mismatchedNetwork`, when the snapshot given to `Restore` is of
another network. Offsets are numbers, as the networks of this repository have offsets that
fit in an `int`.

### How the labels correspond to the code

A poll (`wait.PollImmediate`, every second for three minutes) is `GetNode`, the Update, and
between two tries `wait`, from which it tries again or is out of time. The time can be up
after any try, as a try may take long; `MaxTries` is the 180 tries of the code, made small.
`AddNodeLabel` takes any error for another try and reads the node anew;
`DeleteNodeLabel` ends with the first refused Update, which is what the code does.
`change label` patches the nodes it listed, revert updates the copies its List returned.
An applied Update whose reply is lost is a failed one. A node that is missing is a Get that
fails; a node that is deleted and registers again is `SomebodyWrites` with other labels.
A label is a key with the value the caller means (`on`), another (`off`), or none.
`AddNameSpaceLabel` is the same loop on a namespace.

### How the commands correspond to the code

`Workflows` has one operator per function, named after it, and reads like the functions it
stands for: `DeployEdgeAPPS` is its eight stages in a row. A stage has parts, which most
have one of; the three edge-health manifests and those of revert come out of a Go map, and
run in any order. A stage says what becomes of an error:

| `onError` | in the code |
|---|---|
| `return` | `if err != nil { return err }` |
| `drop` | the error, or what is left of the manifest, is thrown away |
| `poll` | `wait.PollImmediate` whose result is dropped: tried again until the time is up, then the command goes on |
| `retry` | the endless loop of `waitTunnelCloudReady` |

A call is an operation on a document, and `Accepts` and `After` say what the API server and
the handler of kubeclient make of it:

| Operation | Handler |
|---|---|
| `put` | Create, and Update when it exists (most kinds of `CreateResourceWithFile`) |
| `keep` | Create, and leave it alone when it exists (ServiceAccounts) |
| `retain` | Get, and Create when NotFound; any other error of the Get counts as "it exists" |
| `create` | a plain Create, which fails on what exists; or a handler whose Update the API server refuses, because it is sent without the resource version (CSIDriver, webhook configurations) or without the generated selector (Job) of what exists |
| `clear`, `discard` | the Delete before the Create of a Service or StatefulSet; the one of a policy or webhook configuration, whose error nobody looks at |
| `post` | `CreateOrDeleteResourceWithFile`: POST, then a PUT without a name, which a namespaced object refuses |
| `delete` | Delete, for which NotFound is an error (`DeleteResourceWithFile`, or a plain call) |
| `remove` | `CreateOrDeleteResourceWithFile`: Delete, for which NotFound is none, with a dynamic client (site-manager, edge-coredns) and without (service-group); and other Deletes that take NotFound for an answer, or delete what was listed (`ClearJob`) |
| `await`, `gate` | Get of a Service or backup; `CheckIfEdgeAppDeletable` |
| `read` | the discovery in front of the Deletes of service-group, whose error, unlike theirs, is returned |
| `panic`, `unsupported` | the nil configuration of change; a kind `DeleteResourceWithFile` has no handler for |

A namespace must exist for what is put into it, and takes everything with it. What a
document says, and the seconds between two tries, are left out. Of the calls that
`KubeConfigSwitch` models one by one, only the objects they leave appear here; so
`DeployEdgeAPPS` here is the sequence around what `KubeConfigSwitch` is the inside of.

A command that starts is at its first call, whatever earlier ones did: the age of each document
(`old`, `new`) is all the model remembers, as edgeadm remembers nothing. `Fault` is a call that
fails with or without its effect, and `FailsAgain` one in a stage that is tried again: it may
fail as often as it is made, and only the first failure of a command counts against `MaxFaults`.
`Overlook` is a failure that the code takes for an answer, `Interrupt` the end of the command at
any point: the process is stopped, or a read that no operation stands for fails (the List of
`ClearJob`). `calm` is true of a command as long as none of these has happened to it.

### How init, join and reset correspond to the code

`KubeadmPhases` and `EdgePhases` are the lists of `NewInitCMD` and `NewEdgeAppsPhase`, as far as
a host can tell the phases apart; `RunPhase` is the next of them. A host goes through `hosts`
(`configControlPlaneInfo`), `discover` (`TLSBootstrapCfg`), `edge-info` (`prepareJoinEdgeNode`),
`lite` (`installLiteAPIServer`), kubeadm's `preflight` and `kubelet-start`, and `label`; `After`
has the `RunIf` of each. Reset is `cleanup-node` and `cleanup-lite`.

On a host the model keeps what one command leaves for the next: the alias in `/etc/hosts`,
the cluster a running lite-apiserver has certificates of and the name it proxies to, the
cluster and the server of the kubelet, its DNS, and `ca.crt`. `Answers(h, server)` says when
a client on the host is served: the cluster is up, it is the one the client trusts, and the
name resolves. Masters can be reset and initialised again under the hosts, so a host may
hold what belongs to a cluster that is gone. `Stops` is a failing call or an interrupt,
`Swallowed` the failures the code logs and forgets.

A Node outlives the reset of its host, with its labels, unless the operator deletes it
(`DeleteNode`). It is ready from the moment its kubelet registers, and stops being so some time
after that kubelet is gone (`NodeNotReady`); kubelet-start refuses to take the place of a Node
that is ready. So a host that is reset may join again over the Node of its first life, at once or
later.

For the properties `run` remembers what a join found: `fresh`, nothing of an earlier command on
the host; `found`, the Node it began with; `done`, init had ended; `there`, edge-info was
published, and the join's own Get of it has not failed; and `calm`, no call of it has failed by
itself.

kubeadm's own phases are taken from how edgeadm relies on them: its preflight refuses a host
that has a kubelet configuration or, for workers, a `ca.crt`, and kubelet-start ends with the
Node registered and ready.

## 3. Runs

| Run | Question | Instance |
|---|---|---|
| `switch_commands` | addon and detach in any order, two addons also at once, faults, controller writes and joining nodes: is the original kept, does success mean complete, does kube-proxy stay, does more than one addon go on? | 2 clients, 2 nodes, 4 commands, 2 faults, 2 controller writes; 327,022 states |
| `switch_plan` | does every call of the switch do what its plan in `Workflows` says, and stop where the plan stops? | 1 client, 2 nodes, 4 commands, 2 faults, 2 controller writes; 60,510 states |
| `switch_overlap` (violation) | addon while detach is under way: is the backup the original? | 2 clients, 3 commands, no fault |
| `switch_slice_left` (violation) | does detach restore the EndpointSlice? | 1 client, 2 commands, no fault |
| `switch_failed_addon` (violation) | does detach clean up after a failed addon, as the manual says? | 1 client, 2 commands, 1 fault of addon |
| `switch_join_race` (violation) | are the edge apps never deleted under an edge node? | 1 client, 1 node, 2 commands, no fault |
| `allocation_bitmap` | every interleaving of two goroutines over every method: counter, abstract pool, liveness | 2 goroutines, 3 usable addresses, random strategy; 96,976 states |
| `node_labels` | are foreign changes kept, is success real, does every call end? | 1 caller, 2 nodes, 2 keys, 2 tries, any number of calls and foreign writes from every initial labelling; 58,491 states |
| `cluster_commands` | every command over what any earlier ones left, with a fault anywhere: is success complete, does an undisturbed detach clear everything, what does a failure lose, do re-runs, detach and init go through, does every command end? | all built-in manifests, 1 node, 3 choices of levels, any number of commands, 1 fault, 2 tries; 124,188 states |
| `cluster_detach` (violation) | does detach edge-apps leave nothing of the edge running? | the same |
| `cluster_change` (violation) | does change succeed when nothing fails? The assumptions of the theorems are evaluated on every choice of levels and two nodes, too | change and revert only, 2 nodes, 1 fault |
| `init_join` | do joined hosts have what their role needs, whatever init, reset and earlier joins did? | 1 host, 2 clusters, 3 joins and resets, 1 fault, SANs that are a name or a name and an address; 979,378 states |

Bounds. Commands, faults and controller writes are counted and capped (`MaxRuns`,
`MaxFaults`, `MaxWrites`); everything else is finite by itself. Four commands hold the
longest story the code is exposed to: an addon that fails, its retry or a detach that fails,
a detach that succeeds, an addon again. Two faults hit a run and its repair. Two writes let
a controller spoil a copy and recreate the Endpoints. Two clients are enough for addons that
overlap: a third would wait at the same Create. Three usable addresses are the fewest
at which a scan can wrap around a hole and two goroutines still find something left. In
`node_labels` one caller is enough, because `SomebodyWrites` may do to a node whatever
another caller would; two nodes let a loop fail between them, and two tries make the second
one matter.

In `cluster_commands` the number of commands has no bound: the set of documents and their
three ages is finite, and TLC reaches every content of the cluster that any sequence of
commands leaves. The commands of one application (`topolvm`, `edgex`, `edge-apps`, init with
detach, change with revert) are explored together, since different applications share only
the namespace `edge-system` and the objects of kubeadm. One fault puts the cluster into
every state between two calls of every command, each of which then meets all the others
without a further fault; two tries make a poll repeat and give up. A run starts from an
empty cluster or from what kubeadm leaves.

In `init_join` one host is enough, because hosts meet only in the cluster, which a host
reads and does not change for others. Three commands hold join, reset, join; two clusters
let the first be replaced under a host. The SANs `ip` are left out of the run: to a host
such a cluster is a `mixed` one that it joins by its address. The theorems cover them.

The theorems of section 5 remove these bounds for the properties they cover: bounds are
constants there, and arbitrary.

Deadlock is not checked in the switch runs and in `init_join`, because the bounds stop them,
and in the cluster runs, because an operator need not start a command; it is checked in
`allocation_bitmap` and `node_labels`.

The six violation runs are behaviours of the code that contradict what the repository says:

- `BackupIsOriginal`: while detach runs, the edge ConfigMap is gone, so an addon started
  then passes its first Create, reads Endpoints that carry the edge annotations, and backs
  *those* up once detach has removed the old backup. No fault is needed.
- `DetachRestoresSlice`: addon rewrites the slice, and nothing restores it.
- `DetachCleansUp`: after an addon that stopped early, detach stops at the first object
  that addon had not created.
- `DetachSparesEdgeNodes`: the gate looks once; a node that is joining labels itself later.
- `DetachLeavesNothing`: service-group is deleted with nil options, so its manifests are
  rendered for the namespace `<no value>`; NotFound is no error, and detach reports success
  over a running Deployment and DaemonSet.
- `ChangeSucceeds`: change calls `DeployServiceGroup` without a configuration and
  dereferences it. This makes the second half of `runKubeamdChange` unreachable.

Several properties that hold name an exception, or leave out what the code does not promise,
and a reader should know where:

- `AddonComplete` and `DetachComplete` speak of the stages whose errors end the command. The
  polled deployment of tunnel-edge is not among them: an addon that stopped between its two
  documents is followed by one that reports success without the second, as a Put over the first
  never succeeds. `TunnelEdgeDeployed` speaks of clusters that had nothing of it before. Nor are
  the polled and dropped deletes of a detach (site-manager, edge-coredns, edge-info,
  service-group's grid): any of these may stay after a success if its call failed.
  `DetachClears` has all of them, for a detach none of whose calls failed.
- `RerunSucceeds`: addon topolvm fails once where an earlier command deleted the webhook or its
  Secret and stopped in front of the CSIDriver. Its own delete stops at what is gone, and the
  CSIDriver that is left is refused an Update. The property also says that the next addon is past it.
- `EveryCommandEnds`: change may stay in `waitTunnelCloudReady`, with the Service there, as long
  as every Get of it fails. Nothing else is excepted.
- `DnsOfEdge`: a join whose own Get of edge-info failed goes on, and may end well with the DNS
  of a cloud node. That error is swallowed; no other one, and nothing left on the host, comes to it.
- `LabelledByRole`: AddNodeLabel only adds and reset keeps the Node, so a host that joins again in
  another role has the labels of both. A join adds those of its role and no more; on a cloud node
  the one call that sets them may fail, as its error is ignored.
- `JoinSucceeds` leaves out `--enable-edge` in a cluster without it; clusters whose SANs are a name
  *and then* an address, where the printed join command has the name, cluster-info the address, and
  the alias that join puts in place of the address is in no `/etc/hosts`; and a join that begins
  while the Node from before the reset still counts as ready.
- `EdgeAppsFirst` counts the tunnel as deployed when its phase is through, also without tunnel-edge.

## 4. Fairness

The switch has only safety properties, and no fairness. In `AllocationBitmap` a goroutine inside
a method goes on (`WF` on `Run`, `Unlock` and the return of a refused call): the Go scheduler is
preemptive and no body blocks. `SF` on `Lock`: a waiter for a mutex that is released again and
again gets it, because `sync.Mutex` hands itself over to a waiter that starved for a
millisecond. No goroutine is assumed to make a call. In `NodeLabels`, `WF` on the steps of a
caller that is in a call: an API call returns or fails by its own time-out, and a second passes.
Nothing is assumed about success: every Update may be refused. In `CommandRunner`, `WF` on
`Step`: a command that runs makes its next call, whatever becomes of it. The failures are part
of `Step`, so no call has to succeed, and a stage that is tried again may fail every time
(`FailsAgain` has no bound); the polls end by their time-outs, and change may wait for ever. In
`InitJoin`, `WF` per host on the steps of join and reset; init has no fairness, as an operator
may leave a cluster half initialised, and a join must end nevertheless, by kubeadm's time-out.

## 5. What is proved

All of this holds for every set of clients, nodes, goroutines and offsets and for all
bounds; the assumptions are those of the modules (bounds are naturals, `Commands` is a
subset of the two commands, a free mutex is no goroutine) and those named below.

`KubeConfigSwitch_proofs`

- `TypeCorrect`: `TypeOK`, for any number of clients.
- `OriginalAlwaysKept`, `UpdateAlwaysCompletes`, `RecoverAlwaysCompletes`,
  `AddonAlwaysKeepsProxy`, `OneUpdaterAlways`: under `OnlyAddonsOverlap`, that is, for any
  number of operators of whom those who run something at the same time run addons; a single
  operator is a special case. The hypothesis is needed: `switch_overlap`, where an addon and a
  detach overlap, is the counterexample without it.
- None of the properties is inductive. The invariant is
  `Progress = TypeInv /\ AloneInv /\ CommandInv /\ Safe`. `Safe` has what is true between any
  two commands (`OriginalKept`) and, for each client and each value of its `pc`, what the calls
  before it have achieved (`UpdateAt`, `RecoverAt`): at `updateEndpoint`, say, the ConfigMap,
  the ServiceAccount, both affinities and the backup, and what the copies hold that a later
  call writes back. A failed call drops back to what holds between commands, so the invariant
  says at once why a re-run can trust nothing and a success everything.
- `AloneInv` is why others do not disturb this: at most one client is past its first call, and
  a detach is the only command that runs (`CommandInv` ties what a client runs to where it is).
  The Create of the edge ConfigMap preserves it: it succeeds only when the object is absent,
  and by `UpdateAt` nobody who is past it would then have found it gone (`OthersWait`).

`SwitchPlan_proofs`

- `SwitchFollowsPlan`: `PlannedSpec => FollowsPlan`. One command appears in two models, in
  `KubeConfigSwitch` with copies, resource versions and other writers, in `Workflows` as a plan
  that `CommandRunner` executes; the first is shown to implement the second. A call of the
  switch is `Perform`, `Refused`, `Decline` or `Fault` of the runner at the same
  place of the plan, an operator who starts is `Start`, and a Get, the writes of the API server
  and the joins of nodes are stutters. It is for one operator (`OperatorAssumption`), as
  `CommandRunner` executes one command at a time, and any number of nodes, commands, faults and
  writes.
- `CommandRunner` remembers more than the switch does: what a command found and wrote, and
  whether a call of it failed by itself. Those are history variables, which `Record` updates and
  which restrict nothing. The invariant is `PlannedInv = Progress /\ HistoryInv`. `Progress` is
  what makes a refused Update a fault and not a behaviour the plan lacks: when the copy is
  current, the object is there and the plan accepts the call; when it is not, the API server
  wrote, which no plan knows of. `HistoryInv` ties `run` to `pc`, and bounds the failures by the
  commands started.
- The switch has no fairness, so the refinement is of the runner's steps, and not of its `WF`.

`AllocationBitmap_proofs`

- `TypeCorrect`: also that no bit outside the usable addresses is ever set.
- `CountAlwaysSetBits`: the counter is the number of set bits whenever the mutex is free.
  The invariant `Inv` adds who holds the mutex (`LockInv`), that `rest` is reached only by
  methods with two halves and with an offset in the range (`MethodInv`), and the exact
  difference between counter and set bits in each half (`CountInv`).
- `PoolAlwaysPromises`: `Spec => Pool!Spec`. Every step is a step of the abstract pool or
  stutters. The step of the pool happens where the bitmap changes; for `AllocateNext` that
  is the second half, so the proof needs `Inv` to know that the bit chosen in the first half
  is still clear, and that `full` is answered only when no bit is (the counter is right). It
  rests on lemmas about cardinalities and on one about the scan: from any start, it finds a
  bit whenever a bit is clear.

`NodeLabels_proofs`

- `TypeCorrect`, `NoChangeEverLost`, `SuccessAlwaysReal`, for any nodes, callers, keys and
  number of tries. The invariant `Inv` says that a copy nobody has made stale is the node as
  it is (`CopyInv`), and that a poll is about one node (`CallInv`). Writing back a whole
  node is then the same as changing only the labels of the call.

`CommandRunner_proofs`

- `TypeCorrect`, `AddonAlwaysComplete`, `DetachAlwaysComplete`, `UserConfigAlwaysKept`, for
  every plan, any documents, any number of faults and tries. The plans need to be well-formed
  (`PlanAssumption`), not to undo themselves (`LastingAssumption`: no addon deletes a document
  it has written, no detach writes one it has deleted), and not to write what users edit
  (`UserConfigAssumption`). TLC evaluates the three on edgeadm's own plans in every cluster run.
- That success is complete is not inductive: a stage may be repeated, its parts come in any
  order, and the cluster changes under the command. The invariant `EffectInv` says that every
  call the command has passed, in a stage whose errors end it, still has its effect, where
  *passed* means: in an earlier stage, in a part that was taken and is not the present one, or
  earlier in that part. `LastingAssumption` is what keeps a later call from undoing one that
  was passed; an error of such a stage ends the command, so it can never be passed without
  its effect.

`SoundPlans_proofs` and `ClusterCommands_proofs`

- `SoundCommandsSucceed`: a command none of whose calls fails by itself does not end in an error,
  if every stage that returns errors is *sound* for what the command found. Sound is a condition
  on the text of the plan: what a call asks for was found and no call that can come before takes
  it away, or a call that must come before writes it; and what it must not meet was not there and
  nothing before writes it, or a call that must come before deletes it for sure. As the parts of a
  stage come in any order, *can come before* and *must come before* are not the same. So the
  states a command goes through, with all their interrupted predecessors, are reduced to one look
  at its plan.
- The invariant behind it: `CalmInv`, as long as no call has failed by itself, the documents
  found and not yet taken away are there, and those not found and not yet written are not;
  `GoneInv`, what a call that was passed has surely deleted and nothing writes afterwards is not
  there; `SoundInv`, an error without such a failure comes from a stage that is not sound, with all
  written that comes before it.
  `EffectInv` above supplies what the calls passed have left.
- `DetachAlwaysSucceeds` (`DetachSucceeds`) follows for every plan under `DetachAssumption`, the
  detach plans are sound for what they need and its namespaces. It needs `HousedInv`: no document
  is there without its namespace, in any state, which `HousingAssumption` starts off.
- `DetachAlwaysClears` (`DetachClears`) follows for every plan under `ClearingAssumption`: each
  delete of a detach plan is made in any case, and no later call writes what it deletes. It is
  about the stages whose errors are dropped, too, and rests on `GoneInv`.
- `AddonAlwaysLosesLittle` (`AddonLosesLittle`), for every plan under `ReplacementAssumption`: an
  addon deletes only what its stages are there to delete, or a document it writes with the very
  next call. The invariant `LostInv` says what is missing at each call: at most that one document,
  between the two calls.
- `RerunAlwaysSucceeds`, `InitAlwaysSucceeds` (`RerunSucceeds`, `InitSucceeds`) under
  `RerunAssumption` and `InitAssumption`: the plans of topolvm and edgex are sound whatever they
  find, but for the one Create of the CSIDriver, which is sound where the webhook and its Secret
  are found as well, or no CSIDriver is, and the plan of init is sound for an empty cluster. That
  the next addon is past a CSIDriver left behind follows from the second half of `SoundInv`: when
  the Create is refused, what must come before it, the webhook and the Secret, has been written.
  `TunnelEdgeAlwaysDeployed` (`TunnelEdgeDeployed`) is about a stage whose errors are dropped:
  `WrittenInv` says that a sound stage of a calm command has left what it writes, although nothing
  would stop the command if it had not.
- The assumptions are about constants only. TLC evaluates them on edgeadm's own plans, with every
  stage and call of `Workflows`: with three choices of levels and one node in `cluster_commands`,
  with all choices of levels (200 commands) and two nodes in `cluster_change`. A plan that makes a
  call too early, or leaves one out that a later one needs, fails them at once. So the theorems
  cover every choice of levels, and not only the three whose states TLC goes through.

`InitJoin_proofs`

- `TypeCorrect`, `EdgeAppsAlwaysFirst`, `AlwaysThroughLite`, `AlwaysDnsOfEdge`,
  `AlwaysLabelledByRole`, `JoinAlwaysSucceeds`: every safety property of `InitJoin`, for any
  number of hosts, clusters, commands and faults, and any SANs.
- The invariant `Inv` is the types, `ClusterInv` (what the outcome of init says about how far
  it is; no host knows of a cluster that has not been yet), `EdgeAppsFirst`, and `HostInv` for
  each host. `HostInv` says, step by step, what a join has achieved or found so far:
  `StepInv` which steps a role has, `CleanInv` what a reset that worked leaves, `FreshInv` the
  host of a join that started there, `NodeInv` its Node, `DnsInv` that a join that has not
  set the DNS of the edge has lost its API server and cannot end well, and `SucceedInv` that
  the API server answers at each step of a join that can succeed.
- `HostInv` of one host reads the cluster and nothing of other hosts. So a step of a host is
  shown to preserve its own (`OwnStep`, one lemma per action) and to leave those of the others
  alone (`OtherStep`); a phase of init only adds to what is published (`PhaseInv`), and with a
  new or a reset master no API server answers the old commands any more (`LostCluster`). All of
  `HostInv` survives failures: a command that is stopped is over (`StopsInv`), and for each error
  that is swallowed there is a lemma (`HostsSwallowedInv`..`ResetSwallowedInv`), so that the
  theorems about disturbed joins (`AlwaysThroughLite`, `AlwaysDnsOfEdge`, `AlwaysLabelledByRole`)
  have them in it.
- `DnsOfEdge`, `LabelledByRole` and `JoinSucceeds` name their exceptions themselves (section 3), so
  these are the exceptions of the theorems, too.

Every safety property that a passing run checks is a theorem. Only model-checked are
`CallsReturn`, `CallsEnd`, `EveryCommandEnds` and `CommandsEnd`, as liveness under fairness is out
of the prover's reach, and what the runs that expect a violation say.

## 6. Not modelled, and why

- The vendored kubeadm phases of init, join and reset: third-party code, one step each where
  edgeadm relies on them. `token.go`, certificates and the upload of certificates likewise.
- Shell commands, unpacking of packages, container runtime, kube-vip, static pods: pure I/O
  without an order another actor could observe. The shared work directory is a listed hazard.
- `cmd/change/kubeadm.go` behind line 101: never reached, because the call there panics.
- Code that nothing calls: `edge_app.go:395-512`, `RecoverClusterInfoKubeconfig`,
  `RemoveTopolvmCRD`, `RemoveNamespace`, the create half of the dynamic-client branch of
  `CreateOrDeleteResourceWithFile` (its delete half is used by `DeleteSiteManager` and
  `DeleteEdgeCoredns`), `PatchNode`, `MarkNode`, `IsOverK8sVersion`, and the
  manifests in `edgex-k8s.go`, of mqtt and of random-device.
- Contents of manifests, and manifests of the user's own (`--manifest-dir`): the models have
  the built-in ones.
- `detach edgex` removes local directories once it is through, and DeployTopolvmAppS labels
  namespaces: local files, and a loop that `NodeLabels` has for nodes.
- The arithmetic between addresses and offsets (`RangeSize`, `GetIndexedIP`, `addIPOffset`,
  `calculateIPOffset`): its one use takes a small index of a service network.
- Two operators who run different commands at the same time, outside the cluster-config
  switch: the handlers write whole documents and read nothing they depend on, so overlapping
  runs add nothing to interrupted ones; where a read decides, `KubeConfigSwitch` has them.

## 7. What could come next

1. Two commands at once in `CommandRunner`, with the Delete and Create of a Service of each
   between those of the other.
2. The half of change behind the panic, once the code gets there.
3. The same refinement for the labels that change sets, which `NodeLabels` has call by call.
4. The address arithmetic, if the allocator is ever used for a network of the user's.
