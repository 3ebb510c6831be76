----------------------------- MODULE SwitchPlan -----------------------------
(***************************************************************************)
(* The two models of the cluster-config switch.  KubeConfigSwitch has it   *)
(* with copies, resource versions and the API server's own writes;         *)
(* Workflows has the same functions as plans that CommandRunner executes.  *)
(* The behaviours of the first, of one edgeadm at a time, are behaviours of*)
(* the second.                                                             *)
(*                                                                         *)
(* CommandRunner remembers what a command found and what it has written.   *)
(* The history variables record the same of KubeConfigSwitch and do not    *)
(* restrict it.                                                            *)
(***************************************************************************)
EXTENDS KubeConfigSwitch, Sequences

CONSTANT Operator   \* the edgeadm process
ASSUME OperatorAssumption == Clients = {Operator}

W == INSTANCE Workflows

VARIABLES
  before,    \* the documents the command found
  written,   \* the documents it has written so far
  calm,      \* no call of it failed by itself
  failed     \* commands one of whose calls did

historyVars == <<before, written, calm, failed>>

Of(verb) == [app |-> "edge-apps", verb |-> verb, levels |-> {}]
\* DeployEdgeAPPS from UpdateKubeConfig on; the gate of DeleteEdgeAPPS, and what follows from
\* RecoverKubeConfig on.
PlanOf ==
  [c \in {Of("addon"), Of("detach")} |->
     IF c = Of("addon") THEN W!UpdateKubeConfig \o W!JoinNodePrepare
     ELSE W!CheckIfEdgeAppDeletable \o W!RecoverKubeConfig \o W!DeleteLiteApiServerCert]

(***************************************************************************)
(* What the objects of KubeConfigSwitch are as documents of the plans.     *)
(***************************************************************************)
DocumentOf ==
  [ edgeCM |-> W!EdgeKubeProxy[1], edgeSA |-> W!EdgeKubeProxy[2],
    edgeProxy |-> W!EdgeKubeProxy[3], kubeProxy |-> W!Affinity,
    kubernetes |-> W!Annotations, backup |-> W!Backup, role |-> W!LiteApiServerAccess[1],
    roleBinding |-> W!LiteApiServerAccess[2], edgeInfo |-> W!EdgeInfo ]
EdgeNamespace == W!Namespace(W!EdgeSystem)
Documents == {DocumentOf[o] : o \in DOMAIN DocumentOf} \cup {EdgeNamespace, W!EdgeNodes}

\* Affinity is there when kube-proxy has one, Annotations when they are the edge's.
There(o) ==
  CASE o = "kubeProxy" -> api[o] # "none"
    [] o = "kubernetes" -> api[o] = "edge"
    [] OTHER -> api[o] # Absent
\* The stages before these have made the namespace.
Found ==
  {EdgeNamespace} \cup {DocumentOf[o] : o \in {x \in DOMAIN DocumentOf : There(x)}}
documents ==
  [d \in Documents |-> IF d \notin Found THEN "none" ELSE IF d \in written THEN "new" ELSE "old"]

(***************************************************************************)
(* Where a command is in its plan.  A Get is at the call it prepares, the  *)
(* slice, which is no document, at the namespace, which the code makes sure*)
(* of right behind it.                                                     *)
(***************************************************************************)
Place ==
  [ idle |-> <<0, 0>>,
    createCM |-> <<1, 1>>, createSA |-> <<1, 2>>, getDS |-> <<1, 3>>, createDS |-> <<1, 3>>,
    patchProxy |-> <<1, 4>>, patchEdge |-> <<1, 5>>, getEndpoint |-> <<1, 5>>,
    backupEndpoint |-> <<1, 5>>, updateEndpoint |-> <<1, 6>>, getSlice |-> <<2, 1>>,
    updateSlice |-> <<2, 1>>, createRole |-> <<3, 1>>, createRoleBinding |-> <<3, 2>>,
    getEdgeInfo |-> <<3, 3>>, putEdgeInfo |-> <<3, 3>>,
    checkNodes |-> <<1, 1>>, deleteDS |-> <<2, 1>>, deleteCM |-> <<2, 2>>,
    deleteSA |-> <<2, 3>>, recoverProxy |-> <<2, 4>>, getBackup |-> <<2, 5>>,
    deleteEndpoint |-> <<2, 6>>, createEndpoint |-> <<2, 7>>, deleteBackup |-> <<2, 7>>,
    deleteRole |-> <<3, 1>>, deleteRoleBinding |-> <<3, 2>>, deleteEdgeInfo |-> <<4, 1>> ]

Step == pc[Operator]
Count(b) == IF b THEN 1 ELSE 0

Runner ==
  INSTANCE CommandRunner WITH
    Plan <- PlanOf, Inherited <- {EdgeNamespace}, UserConfig <- {}, MaxTries <- 1,
    MaxFaults <- MaxRuns,
    app <- "edge-apps", api <- documents,
    command <- IF run[Operator].command = "none"
               THEN [app |-> "none", verb |-> "none", levels |-> {}]
               ELSE Of(run[Operator].command),
    outcome <- run[Operator].outcome,
    stage <- Place[Step][1], next <- Place[Step][2],
    part <- Count(Step # Idle), todo <- {}, tries <- Count(Step # Idle),
    faults <- failed

----------------------------------------------------------------------------
(***************************************************************************)
(* The history.                                                            *)
(***************************************************************************)
\* What the step writes when it goes well.
WrittenAt ==
  [ createCM |-> "edgeCM", createSA |-> "edgeSA", createDS |-> "edgeProxy",
    patchProxy |-> "kubeProxy", backupEndpoint |-> "backup", updateEndpoint |-> "kubernetes",
    createRole |-> "role", createRoleBinding |-> "roleBinding", putEdgeInfo |-> "edgeInfo" ]
Writes ==
  IF Step = "updateSlice" THEN {EdgeNamespace}
  ELSE {DocumentOf[WrittenAt[s]] : s \in {Step} \cap DOMAIN WrittenAt}

Starts == Step = Idle /\ Step' # Idle
GoesOn == Step # Idle /\ Step' # Step /\ run'[Operator].outcome \in {"running", "ok"}
\* An error that is not a refusal because of what the cluster holds; that of the last Delete
\* is thrown away.
Fails ==
  \/ run'[Operator].outcome = "error" /\ Step # Idle /\ Runner!Accepts(Runner!ThisCall)
  \/ Step = "deleteEdgeInfo" /\ faults' # faults

Record ==
  /\ before' = IF Starts THEN Found ELSE before
  /\ written' = IF Starts THEN {} ELSE IF GoesOn THEN written \cup Writes ELSE written
  /\ calm' = IF Starts THEN TRUE ELSE calm /\ ~Fails
  /\ failed' = failed + Count(Fails)

PlannedInit == Init /\ before = {} /\ written = {} /\ calm = TRUE /\ failed = 0
PlannedSpec == PlannedInit /\ [][Next /\ Record]_<<vars, historyVars>>

\* Every call of the switch is a call of the plan, in its order, with its effect on the
\* documents, and fails or ends the command where the plan says so; all else, the Gets, the
\* API server and the joining nodes, changes no document (UpdateKubeConfig, JoinNodePrepare,
\* RecoverKubeConfig, DeleteLiteApiServerCert).
FollowsPlan == Runner!Init /\ [][Runner!Next]_(Runner!vars)
=============================================================================
