----------------------- MODULE KubeConfigSwitch_proofs -----------------------
(***************************************************************************)
(* Theorems about KubeConfigSwitch, for every set of clients and nodes and *)
(* every bound.                                                            *)
(***************************************************************************)
EXTENDS KubeConfigSwitch, TLAPS

(***************************************************************************)
(* What the verbs of KubeAPI do to the types.                              *)
(***************************************************************************)
LEMMA WriteTyped ==
  ASSUME ApiOK, ClientOK, NEW o \in Objects, NEW v \in Contents,
         o = "kubeProxy" => v \in Affinity, Write(o, v)
  PROVE  ApiOK' /\ copy' \in [Clients -> Copies]
BY DEF ApiOK, ClientOK, Write, Touched, Copies, Objects

LEMMA ContinueTyped ==
  ASSUME ClientOK, NEW c \in Clients, NEW next \in Steps, Continue(c, next)
  PROVE  pc' \in [Clients -> Steps] /\ run' \in [Clients -> Runs]
BY DEF ClientOK, Continue, Outcome, Runs

LEMMA ReturnTyped ==
  ASSUME ApiOK, ClientOK, NEW c \in Clients,
         NEW outcome \in {"ok", "error", "refused"}, Return(c, outcome)
  PROVE  ApiOK' /\ ClientOK'
<1>1. NoCopy \in Copies
  BY DEF NoCopy, Copies, Contents, Absent
<1>2. Outcome(c, outcome) \in Runs
  BY DEF ClientOK, Outcome, Runs
<1> QED
  BY <1>1, <1>2 DEF Return, ApiOK, ClientOK, Steps

LEMMA FailTyped ==
  ASSUME ApiOK, ClientOK, NEW c \in Clients, Fail(c)
  PROVE  ApiOK' /\ ClientOK'
BY ReturnTyped DEF Fail

LEMMA CreateTyped ==
  ASSUME ApiOK, ClientOK, NEW c \in Clients, NEW o \in Objects \ {"kubeProxy"},
         NEW v \in Contents, NEW next \in Steps, Create(c, o, v, next)
  PROVE  ApiOK' /\ ClientOK'
BY WriteTyped, ContinueTyped, FailTyped DEF Create, ClientOK

LEMMA ReadTyped ==
  ASSUME ApiOK, ClientOK, NEW c \in Clients, NEW o \in Objects, NEW next \in Steps,
         Read(c, o, next)
  PROVE  ApiOK' /\ ClientOK'
<1>1. [object |-> o, content |-> api[o], current |-> TRUE] \in Copies
  BY DEF ApiOK, Copies
<1> QED
  BY <1>1, ContinueTyped DEF Read, ApiOK, ClientOK

LEMMA GetTyped ==
  ASSUME ApiOK, ClientOK, NEW c \in Clients, NEW o \in Objects, NEW next \in Steps,
         Get(c, o, next)
  PROVE  ApiOK' /\ ClientOK'
BY ReadTyped, FailTyped DEF Get

LEMMA UpdateTyped ==
  ASSUME ApiOK, ClientOK, NEW c \in Clients, copy[c].object \in Objects \ {"kubeProxy"},
         NEW v \in Contents, NEW next \in Steps, Update(c, v, next)
  PROVE  ApiOK' /\ ClientOK'
BY WriteTyped, ContinueTyped, FailTyped DEF Update, ClientOK

LEMMA PatchTyped ==
  ASSUME ApiOK, ClientOK, NEW c \in Clients, NEW o \in Objects, NEW possible \in BOOLEAN,
         NEW v \in Affinity, NEW next \in Steps, Patch(c, o, possible, v, next)
  PROVE  ApiOK' /\ ClientOK'
BY WriteTyped, ContinueTyped, FailTyped DEF Patch, ClientOK, Contents

LEMMA DeleteTyped ==
  ASSUME ApiOK, ClientOK, NEW c \in Clients, NEW o \in Objects \ {"kubeProxy"},
         NEW next \in Steps, Delete(c, o, next)
  PROVE  ApiOK' /\ ClientOK'
BY WriteTyped, ContinueTyped, FailTyped DEF Delete, ClientOK, Contents

LEMMA DeleteIfAnyTyped ==
  ASSUME ApiOK, ClientOK, NEW c \in Clients, NEW o \in Objects \ {"kubeProxy"},
         NEW next \in Steps, DeleteIfAny(c, o, next)
  PROVE  ApiOK' /\ ClientOK'
BY WriteTyped, ContinueTyped DEF DeleteIfAny, ClientOK, Contents

LEMMA CopyTyped ==
  ASSUME ClientOK, NEW c \in Clients
  PROVE  copy[c].content \in Contents
BY DEF ClientOK, Copies

(***************************************************************************)
(* An Update needs to know which object its client read: that part of the  *)
(* invariant goes with the types.                                          *)
(***************************************************************************)
ReadOK ==
  \A c \in Clients :
    /\ pc[c] \in {"backupEndpoint", "updateEndpoint"} => copy[c].object = "kubernetes"
    /\ pc[c] = "updateSlice" => copy[c].object = "slice"
    /\ pc[c] = "putEdgeInfo" => copy[c].object = "edgeInfo"

LEMMA UpdateKubeConfigTyped ==
  ASSUME ApiOK, ClientOK, ReadOK, NEW c \in Clients, UpdateKubeConfig(c)
  PROVE  ApiOK' /\ ClientOK'
<1> USE DEF Objects, Flags, Contents, Affinity, Steps, AddonSteps, UpdateSteps, PrepareSteps, At
<1>1. CASE CreateEdgeCM(c)
  BY <1>1, CreateTyped DEF CreateEdgeCM
<1>2. CASE CreateEdgeSA(c)
  BY <1>2, CreateTyped DEF CreateEdgeSA
<1>3. CASE GetKubeProxy(c)
  BY <1>3, GetTyped DEF GetKubeProxy
<1>4. CASE CreateEdgeProxy(c)
  BY <1>4, CreateTyped, CopyTyped DEF CreateEdgeProxy
<1>5. CASE PatchProxy(c)
  BY <1>5, PatchTyped DEF PatchProxy
<1>6. CASE PatchEdgeProxy(c)
  BY <1>6, PatchTyped DEF PatchEdgeProxy
<1>7. CASE GetEndpoint(c)
  BY <1>7, GetTyped DEF GetEndpoint
<1>8. CASE BackupEndpoint(c)
  BY <1>8, CreateTyped, CopyTyped DEF BackupEndpoint
<1>9. CASE UpdateEndpoint(c)
  BY <1>9, UpdateTyped DEF UpdateEndpoint, ReadOK
<1>10. CASE GetSlice(c)
  BY <1>10, GetTyped DEF GetSlice
<1>11. CASE UpdateSlice(c)
  BY <1>11, UpdateTyped DEF UpdateSlice, ReadOK
<1> QED
  BY <1>1, <1>2, <1>3, <1>4, <1>5, <1>6, <1>7, <1>8, <1>9, <1>10, <1>11
     DEF UpdateKubeConfig

LEMMA JoinNodePrepareTyped ==
  ASSUME ApiOK, ClientOK, ReadOK, NEW c \in Clients, JoinNodePrepare(c)
  PROVE  ApiOK' /\ ClientOK'
<1> USE DEF Objects, Flags, Contents, Steps, AddonSteps, PrepareSteps, At
<1>1. CASE CreateRole(c)
  BY <1>1, CreateTyped DEF CreateRole
<1>2. CASE CreateRoleBinding(c)
  BY <1>2, CreateTyped DEF CreateRoleBinding
<1>3. CASE GetEdgeInfo(c)
  BY <1>3, ReadTyped DEF GetEdgeInfo
<1>4. CASE PutEdgeInfo(c)
  BY <1>4, CreateTyped, UpdateTyped DEF PutEdgeInfo, ReadOK
<1> QED
  BY <1>1, <1>2, <1>3, <1>4 DEF JoinNodePrepare

LEMMA DetachTyped ==
  ASSUME ApiOK, ClientOK, NEW c \in Clients,
         CheckIfEdgeAppDeletable(c) \/ RecoverKubeConfig(c) \/ DeleteLiteApiServerCert(c)
  PROVE  ApiOK' /\ ClientOK'
<1> USE DEF Objects, Flags, Affinity, Steps, DetachSteps, RecoverSteps, CertSteps, At
<1>1. CASE CheckIfEdgeAppDeletable(c)
  BY <1>1, ContinueTyped, ReturnTyped DEF CheckIfEdgeAppDeletable, ApiOK, ClientOK
<1>2. CASE DeleteEdgeProxy(c)
  BY <1>2, DeleteTyped DEF DeleteEdgeProxy
<1>3. CASE DeleteEdgeCM(c)
  BY <1>3, DeleteTyped DEF DeleteEdgeCM
<1>4. CASE DeleteEdgeSA(c)
  BY <1>4, DeleteTyped DEF DeleteEdgeSA
<1>5. CASE RecoverProxy(c)
  BY <1>5, PatchTyped DEF RecoverProxy
<1>6. CASE GetBackup(c)
  BY <1>6, GetTyped DEF GetBackup
<1>7. CASE DeleteEndpoint(c)
  BY <1>7, DeleteTyped DEF DeleteEndpoint
<1>8. CASE CreateEndpoint(c)
  BY <1>8, CreateTyped, CopyTyped DEF CreateEndpoint
<1>9. CASE DeleteBackup(c)
  BY <1>9, DeleteTyped DEF DeleteBackup
<1>10. CASE DeleteRole(c)
  BY <1>10, DeleteTyped DEF DeleteRole
<1>11. CASE DeleteRoleBinding(c)
  BY <1>11, DeleteTyped DEF DeleteRoleBinding
<1>12. CASE DeleteEdgeInfo(c)
  BY <1>12, DeleteIfAnyTyped DEF DeleteEdgeInfo
<1> QED
  BY <1>1, <1>2, <1>3, <1>4, <1>5, <1>6, <1>7, <1>8, <1>9, <1>10, <1>11, <1>12
     DEF RecoverKubeConfig, DeleteLiteApiServerCert

LEMMA ReadStep ==
  ASSUME ClientOK, ReadOK, NEW c \in Clients, Command(c)
  PROVE  ReadOK'
<1> USE DEF ClientOK, ReadOK, At, Continue, Write, Touched, Fail, Return, NoCopy, Idle
<1>1. CASE UpdateKubeConfig(c)
  BY <1>1 DEF UpdateKubeConfig, CreateEdgeCM, CreateEdgeSA, GetKubeProxy, CreateEdgeProxy,
     PatchProxy, PatchEdgeProxy, GetEndpoint, BackupEndpoint, UpdateEndpoint, GetSlice,
     UpdateSlice, Create, Get, Read, Patch, Update
<1>2. CASE JoinNodePrepare(c)
  BY <1>2 DEF JoinNodePrepare, CreateRole, CreateRoleBinding, GetEdgeInfo, PutEdgeInfo,
     Create, Read, Update
<1>3. CASE CheckIfEdgeAppDeletable(c)
  BY <1>3 DEF CheckIfEdgeAppDeletable
<1>4. CASE RecoverKubeConfig(c)
  BY <1>4 DEF RecoverKubeConfig, DeleteEdgeProxy, DeleteEdgeCM, DeleteEdgeSA, RecoverProxy,
     GetBackup, DeleteEndpoint, CreateEndpoint, DeleteBackup, Create, Get, Read, Patch, Delete
<1>5. CASE DeleteLiteApiServerCert(c)
  BY <1>5 DEF DeleteLiteApiServerCert, DeleteRole, DeleteRoleBinding, DeleteEdgeInfo,
     Delete, DeleteIfAny
<1> QED
  BY <1>1, <1>2, <1>3, <1>4, <1>5 DEF Command

LEMMA CommandFrame ==
  ASSUME NEW c \in Clients, Command(c)
  PROVE  UNCHANGED <<node, runs, faults, writes>>
BY DEF Command, UpdateKubeConfig, JoinNodePrepare, CheckIfEdgeAppDeletable,
   RecoverKubeConfig, DeleteLiteApiServerCert, CreateEdgeCM, CreateEdgeSA, GetKubeProxy,
   CreateEdgeProxy, PatchProxy, PatchEdgeProxy, GetEndpoint, BackupEndpoint,
   UpdateEndpoint, GetSlice, UpdateSlice, CreateRole, CreateRoleBinding, GetEdgeInfo,
   PutEdgeInfo, DeleteEdgeProxy, DeleteEdgeCM, DeleteEdgeSA, RecoverProxy, GetBackup,
   DeleteEndpoint, CreateEndpoint, DeleteBackup, DeleteRole, DeleteRoleBinding,
   DeleteEdgeInfo, At, boundVars

TypeInv == TypeOK /\ ReadOK

LEMMA InitTyped == Init => TypeInv
BY BoundsAssumption DEF Init, TypeInv, TypeOK, ApiOK, ClientOK, NodeOK, BoundsOK, ReadOK,
   NativeCluster, Objects, Flags, Contents, Affinity, Annotations, Steps, Copies, Runs,
   NoCopy, NoRun, Idle, Absent

LEMMA FaultTyped ==
  ASSUME TypeInv, NEW c \in Clients, Fault(c)
  PROVE  TypeInv'
<1>1. ApiOK' /\ ClientOK'
  BY ReturnTyped DEF TypeInv, TypeOK, Fault, Abort, ListFails, DeleteEdgeInfoFails, Fail
<1>2. ReadOK'
  BY DEF TypeInv, TypeOK, ClientOK, ReadOK, Fault, Abort, ListFails, DeleteEdgeInfoFails,
     Fail, Return, NoCopy, Idle
<1>3. NodeOK' /\ BoundsOK'
  BY BoundsAssumption DEF TypeInv, TypeOK, NodeOK, BoundsOK, Fault, Abort, ListFails,
     DeleteEdgeInfoFails, UseFault
<1> QED
  BY <1>1, <1>2, <1>3 DEF TypeInv, TypeOK

LEMMA StartTyped ==
  ASSUME TypeInv, NEW c \in Clients, NEW command \in Commands, Start(c, command)
  PROVE  TypeInv'
<1>1. command \in {"addon", "detach"}
  BY CommandsAssumption
<1>2. NoCopy \in Copies
  BY DEF NoCopy, Copies, Contents, Absent
<1>3. ApiOK' /\ ClientOK'
  BY <1>1, <1>2 DEF TypeInv, TypeOK, ApiOK, ClientOK, Start, Begin, Steps, AddonSteps,
     UpdateSteps, DetachSteps, Runs
<1>4. ReadOK'
  BY <1>1 DEF TypeInv, TypeOK, ClientOK, ReadOK, Start, Begin
<1>5. NodeOK' /\ BoundsOK'
  BY BoundsAssumption DEF TypeInv, TypeOK, NodeOK, BoundsOK, Start
<1> QED
  BY <1>3, <1>4, <1>5 DEF TypeInv, TypeOK

LEMMA ControllerTyped ==
  ASSUME TypeInv, NEW o \in {"kubernetes", "slice"}, ControllerWrites(o)
  PROVE  TypeInv'
<1> DEFINE v == IF api[o] = Absent THEN "blank" ELSE api[o]
<1>1. v \in Contents /\ o \in Objects
  BY DEF TypeInv, TypeOK, ApiOK, Objects, Contents, Annotations
<1>2. ApiOK' /\ copy' \in [Clients -> Copies]
  BY <1>1, WriteTyped DEF TypeInv, TypeOK, ControllerWrites
<1>3. ClientOK' /\ NodeOK' /\ BoundsOK'
  BY <1>2, BoundsAssumption DEF TypeInv, TypeOK, ClientOK, NodeOK, BoundsOK, ControllerWrites
<1>4. ReadOK'
  BY DEF TypeInv, ReadOK, ControllerWrites, Write, Touched
<1> QED
  BY <1>2, <1>3, <1>4 DEF TypeInv, TypeOK

LEMMA JoinTyped ==
  ASSUME TypeInv, NEW n \in Node,
         JoinReadsEdgeInfo(n) \/ JoinLabelsNode(n) \/ NodeLeaves(n)
  PROVE  TypeInv'
BY DEF TypeInv, TypeOK, ApiOK, ClientOK, NodeOK, BoundsOK, ReadOK, JoinReadsEdgeInfo,
   JoinLabelsNode, NodeLeaves, apiVars, boundVars

LEMMA NextTyped == TypeInv /\ [Next]_vars => TypeInv'
<1> SUFFICES ASSUME TypeInv, [Next]_vars PROVE TypeInv'
  OBVIOUS
<1>1. ASSUME NEW c \in Clients, Command(c) PROVE TypeInv'
  <2>1. ApiOK' /\ ClientOK'
    BY <1>1, UpdateKubeConfigTyped, JoinNodePrepareTyped, DetachTyped
       DEF TypeInv, TypeOK, Command
  <2>2. ReadOK'
    BY <1>1, ReadStep DEF TypeInv, TypeOK
  <2>3. NodeOK' /\ BoundsOK'
    BY <1>1, CommandFrame DEF TypeInv, TypeOK, NodeOK, BoundsOK
  <2> QED
    BY <2>1, <2>2, <2>3 DEF TypeInv, TypeOK
<1>2. CASE UNCHANGED vars
  BY <1>2 DEF TypeInv, TypeOK, ApiOK, ClientOK, NodeOK, BoundsOK, ReadOK, vars
<1> QED
  BY <1>1, <1>2, FaultTyped, StartTyped, ControllerTyped, JoinTyped DEF Next

\* Every reachable state is well typed: kube-proxy always exists, whatever is aborted.
THEOREM TypeCorrect == Spec => []TypeOK
<1>1. TypeInv => TypeOK
  BY DEF TypeInv
<1> QED
  BY <1>1, InitTyped, NextTyped, PTL DEF Spec

----------------------------------------------------------------------------
(***************************************************************************)
(* Operators who run commands at the same time run addons.  Then at most   *)
(* one of them is past its first call, and detach is alone: how far that   *)
(* command has come says what the cluster looks like.  Nothing else changes*)
(* these objects except the API server, which puts back a missing          *)
(* "kubernetes".                                                           *)
(***************************************************************************)
OnlyAddonsOverlap == \A c, d \in Clients : c = d \/ Concurrent \subseteq {"addon"}

\* Where a command has done nothing yet.
Waiting == {Idle, "createCM"}
AloneInv ==
  \A c, d \in Clients : c # d =>
    /\ pc[c] \in Waiting \/ pc[d] \in Waiting
    /\ pc[c] \in DetachSteps => pc[d] = Idle
CommandInv == \A c \in Clients : pc[c] \in DetachSteps => run[c].command = "detach"

\* What each command has established when it is at a step.
CMMade == (UpdateSteps \ {"createCM"}) \cup PrepareSteps
SAMade == CMMade \ {"createSA"}
ProxyApart == SAMade \ {"getDS", "createDS", "patchProxy"}
ProxySplit == ProxyApart \ {"patchEdge"}
BackupMade == {"updateEndpoint", "getSlice", "updateSlice"} \cup PrepareSteps
EndpointEdge == BackupMade \ {"updateEndpoint"}

ProxyGone == (RecoverSteps \ {"deleteDS"}) \cup CertSteps
CMGone == ProxyGone \ {"deleteCM"}
SAGone == CMGone \ {"deleteSA"}
ProxyBack == SAGone \ {"recoverProxy"}
EndpointBack == {"deleteBackup"} \cup CertSteps

UpdateAt(c) ==
  /\ pc[c] \in CMMade => api["edgeCM"] = "present"
  /\ pc[c] \in SAMade => api["edgeSA"] = "present"
  /\ pc[c] = "createDS" => copy[c].content = api["kubeProxy"]
  /\ pc[c] = "patchProxy" => api["edgeProxy"] = api["kubeProxy"]
  /\ pc[c] \in ProxyApart => api["kubeProxy"] = "noedge"
  /\ pc[c] \in ProxySplit => api["edgeProxy"] = "edge"
  /\ pc[c] = "backupEndpoint" =>
       copy[c].content = api["kubernetes"] /\ api["kubernetes"] # Absent
  /\ pc[c] \in BackupMade => api["backup"] = "original"
  /\ pc[c] \in EndpointEdge => api["kubernetes"] = "edge"
  /\ pc[c] \in PrepareSteps => api["slice"] = "edge"

RecoverAt(c) ==
  /\ pc[c] \in ProxyGone => api["edgeProxy"] = Absent
  /\ pc[c] \in CMGone => api["edgeCM"] = Absent
  /\ pc[c] \in SAGone => api["edgeSA"] = Absent
  /\ pc[c] \in ProxyBack => api["kubeProxy"] = "none"
  /\ pc[c] \in {"deleteEndpoint", "createEndpoint"} =>
       api["backup"] = "original" /\ copy[c].content = "original"
  /\ pc[c] \in EndpointBack => api["kubernetes"] = "original"
  /\ pc[c] \in CertSteps => api["backup"] = Absent

UpdateProgress == \A c \in Clients : UpdateAt(c)
RecoverProgress == \A c \in Clients : RecoverAt(c)

Safe == OriginalKept /\ UpdateProgress /\ RecoverProgress
Progress == TypeInv /\ AloneInv /\ CommandInv /\ Safe

\* A command moves its own client only, and addon never turns into detach.
LEMMA OwnCommand ==
  ASSUME TypeInv, NEW c \in Clients, Command(c)
  PROVE  /\ \A d \in Clients \ {c} : pc'[d] = pc[d] /\ run'[d] = run[d]
         /\ run'[c].command = run[c].command
         /\ pc[c] \in AddonSteps => pc'[c] \in (AddonSteps \ {"createCM"}) \cup {Idle}
         /\ pc[c] \in DetachSteps => pc'[c] \in DetachSteps \cup {Idle}
         /\ pc[c] \in AddonSteps \cup DetachSteps
<1> USE DEF TypeInv, TypeOK, ClientOK, Runs, Outcome, At, Continue, Fail, Return, Idle,
       AddonSteps, UpdateSteps, PrepareSteps, DetachSteps, RecoverSteps, CertSteps
<1>1. CASE UpdateKubeConfig(c)
  BY <1>1 DEF UpdateKubeConfig, CreateEdgeCM, CreateEdgeSA, GetKubeProxy, CreateEdgeProxy,
     PatchProxy, PatchEdgeProxy, GetEndpoint, BackupEndpoint, UpdateEndpoint, GetSlice,
     UpdateSlice, Create, Get, Read, Patch, Update
<1>2. CASE JoinNodePrepare(c)
  BY <1>2 DEF JoinNodePrepare, CreateRole, CreateRoleBinding, GetEdgeInfo, PutEdgeInfo,
     Create, Read, Update
<1>3. CASE CheckIfEdgeAppDeletable(c)
  BY <1>3 DEF CheckIfEdgeAppDeletable
<1>4. CASE RecoverKubeConfig(c)
  BY <1>4 DEF RecoverKubeConfig, DeleteEdgeProxy, DeleteEdgeCM, DeleteEdgeSA, RecoverProxy,
     GetBackup, DeleteEndpoint, CreateEndpoint, DeleteBackup, Create, Get, Read, Patch, Delete
<1>5. CASE DeleteLiteApiServerCert(c)
  BY <1>5 DEF DeleteLiteApiServerCert, DeleteRole, DeleteRoleBinding, DeleteEdgeInfo,
     Delete, DeleteIfAny
<1> QED
  BY <1>1, <1>2, <1>3, <1>4, <1>5 DEF Command

LEMMA AtCreateCM ==
  ASSUME NEW c \in Clients, Command(c), pc[c] = "createCM"
  PROVE  CreateEdgeCM(c)
BY DEF Command, UpdateKubeConfig, JoinNodePrepare, CheckIfEdgeAppDeletable,
   RecoverKubeConfig, DeleteLiteApiServerCert, CreateEdgeSA, GetKubeProxy,
   CreateEdgeProxy, PatchProxy, PatchEdgeProxy, GetEndpoint, BackupEndpoint,
   UpdateEndpoint, GetSlice, UpdateSlice, CreateRole, CreateRoleBinding, GetEdgeInfo,
   PutEdgeInfo, DeleteEdgeProxy, DeleteEdgeCM, DeleteEdgeSA, RecoverProxy, GetBackup,
   DeleteEndpoint, CreateEndpoint, DeleteBackup, DeleteRole, DeleteRoleBinding,
   DeleteEdgeInfo, At

\* While a command goes on, the others have done nothing yet: it has created the edge
\* ConfigMap, or it is a detach.
LEMMA OthersWait ==
  ASSUME Progress, NEW c \in Clients, Command(c)
  PROVE  \/ pc[c] = "createCM" /\ Fail(c)
         \/ \A d \in Clients \ {c} : pc[d] \in Waiting
<1>1. CASE pc[c] # "createCM"
  <2>1. pc[c] \notin Waiting
    BY <1>1, OwnCommand DEF Progress, Waiting, Idle, AddonSteps, UpdateSteps, PrepareSteps,
       DetachSteps, RecoverSteps, CertSteps
  <2> QED
    BY <2>1 DEF Progress, AloneInv
<1>2. CASE pc[c] = "createCM" /\ api["edgeCM"] # Absent
  <2>1. CreateEdgeCM(c)
    BY <1>2, AtCreateCM
  <2> QED
    BY <1>2, <2>1 DEF CreateEdgeCM, Create
<1>3. CASE pc[c] = "createCM" /\ api["edgeCM"] = Absent
  <2> SUFFICES ASSUME NEW d \in Clients \ {c} PROVE pc[d] \in Waiting
    OBVIOUS
  <2>1. pc[d] \notin CMMade
    BY <1>3 DEF Progress, Safe, UpdateProgress, UpdateAt, Absent
  <2>2. pc[d] \notin DetachSteps
    BY <1>3 DEF Progress, AloneInv, Idle
  <2> QED
    BY <2>1, <2>2 DEF Progress, TypeInv, TypeOK, ClientOK, Steps, AddonSteps, UpdateSteps,
       CMMade, Waiting
<1> QED
  BY <1>1, <1>2, <1>3

\* Of a client that waits the invariant asks nothing, and whoever is left alone in a cluster
\* that stays as it is keeps what it has.
LEMMA WaitingHolds ==
  ASSUME NEW d \in Clients, pc'[d] \in Waiting \cup {"checkNodes"}
  PROVE  UpdateAt(d)' /\ RecoverAt(d)'
BY DEF UpdateAt, RecoverAt, Waiting, Idle, CMMade, SAMade, ProxyApart, ProxySplit, BackupMade,
   EndpointEdge, ProxyGone, CMGone, SAGone, ProxyBack, EndpointBack, UpdateSteps,
   PrepareSteps, RecoverSteps, CertSteps

LEMMA UntouchedHolds ==
  ASSUME NEW d \in Clients, UpdateAt(d), RecoverAt(d),
         api' = api, pc'[d] = pc[d], copy'[d] = copy[d]
  PROVE  UpdateAt(d)' /\ RecoverAt(d)'
BY DEF UpdateAt, RecoverAt

\* What the client of a call has established after it.
LEMMA UpdateKubeConfigProgress ==
  ASSUME Progress, NEW c \in Clients, UpdateKubeConfig(c)
  PROVE  OriginalKept' /\ UpdateAt(c)' /\ RecoverAt(c)'
<1> USE DEF Progress, TypeInv, TypeOK, ApiOK, ClientOK, ReadOK, Safe, OriginalKept,
       UpdateProgress, RecoverProgress, UpdateAt, RecoverAt, At, Continue, Write, Touched,
       Fail, Return, Idle, Absent, Objects, Flags
<1> USE DEF CMMade, SAMade, ProxyApart, ProxySplit, BackupMade, EndpointEdge, ProxyGone,
       CMGone, SAGone, ProxyBack, EndpointBack, UpdateSteps, PrepareSteps, RecoverSteps, CertSteps
<1>1. CASE CreateEdgeCM(c)
  BY <1>1 DEF CreateEdgeCM, Create
<1>2. CASE CreateEdgeSA(c)
  BY <1>2 DEF CreateEdgeSA, Create
<1>3. CASE GetKubeProxy(c)
  BY <1>3 DEF GetKubeProxy, Get, Read
<1>4. CASE CreateEdgeProxy(c)
  BY <1>4 DEF CreateEdgeProxy, Create
<1>5. CASE PatchProxy(c)
  BY <1>5 DEF PatchProxy, Patch
<1>6. CASE PatchEdgeProxy(c)
  BY <1>6 DEF PatchEdgeProxy, Patch
<1>7. CASE GetEndpoint(c)
  BY <1>7 DEF GetEndpoint, Get, Read
<1>8. CASE BackupEndpoint(c)
  BY <1>8 DEF BackupEndpoint, Create
<1>9. CASE UpdateEndpoint(c)
  BY <1>9 DEF UpdateEndpoint, Update
<1>10. CASE GetSlice(c)
  BY <1>10 DEF GetSlice, Get, Read
<1>11. CASE UpdateSlice(c)
  BY <1>11 DEF UpdateSlice, Update
<1> QED
  BY <1>1, <1>2, <1>3, <1>4, <1>5, <1>6, <1>7, <1>8, <1>9, <1>10, <1>11
     DEF UpdateKubeConfig

LEMMA JoinNodePrepareProgress ==
  ASSUME Progress, NEW c \in Clients, JoinNodePrepare(c)
  PROVE  OriginalKept' /\ UpdateAt(c)' /\ RecoverAt(c)'
<1> USE DEF Progress, TypeInv, TypeOK, ApiOK, ClientOK, ReadOK, Safe, OriginalKept,
       UpdateProgress, RecoverProgress, UpdateAt, RecoverAt, At, Continue, Write, Touched,
       Fail, Return, Idle, Absent, Objects, Flags
<1> USE DEF CMMade, SAMade, ProxyApart, ProxySplit, BackupMade, EndpointEdge, ProxyGone,
       CMGone, SAGone, ProxyBack, EndpointBack, UpdateSteps, PrepareSteps, RecoverSteps, CertSteps
<1>1. CASE CreateRole(c)
  BY <1>1 DEF CreateRole, Create
<1>2. CASE CreateRoleBinding(c)
  BY <1>2 DEF CreateRoleBinding, Create
<1>3. CASE GetEdgeInfo(c)
  BY <1>3 DEF GetEdgeInfo, Read
<1>4. CASE PutEdgeInfo(c)
  BY <1>4 DEF PutEdgeInfo, Create, Update
<1> QED
  BY <1>1, <1>2, <1>3, <1>4
     DEF JoinNodePrepare

LEMMA DetachProgress ==
  ASSUME Progress, NEW c \in Clients,
         CheckIfEdgeAppDeletable(c) \/ RecoverKubeConfig(c) \/ DeleteLiteApiServerCert(c)
  PROVE  OriginalKept' /\ UpdateAt(c)' /\ RecoverAt(c)'
<1> USE DEF Progress, TypeInv, TypeOK, ApiOK, ClientOK, ReadOK, Safe, OriginalKept,
       UpdateProgress, RecoverProgress, UpdateAt, RecoverAt, At, Continue, Write, Touched,
       Fail, Return, Idle, Absent, Objects, Flags
<1> USE DEF CMMade, SAMade, ProxyApart, ProxySplit, BackupMade, EndpointEdge, ProxyGone,
       CMGone, SAGone, ProxyBack, EndpointBack, UpdateSteps, PrepareSteps, RecoverSteps, CertSteps
<1>1. CASE CheckIfEdgeAppDeletable(c)
  BY <1>1 DEF CheckIfEdgeAppDeletable
<1>2. CASE DeleteEdgeProxy(c)
  BY <1>2 DEF DeleteEdgeProxy, Delete
<1>3. CASE DeleteEdgeCM(c)
  BY <1>3 DEF DeleteEdgeCM, Delete
<1>4. CASE DeleteEdgeSA(c)
  BY <1>4 DEF DeleteEdgeSA, Delete
<1>5. CASE RecoverProxy(c)
  BY <1>5 DEF RecoverProxy, Patch
<1>6. CASE GetBackup(c)
  BY <1>6 DEF GetBackup, Get, Read
<1>7. CASE DeleteEndpoint(c)
  BY <1>7 DEF DeleteEndpoint, Delete
<1>8. CASE CreateEndpoint(c)
  BY <1>8 DEF CreateEndpoint, Create
<1>9. CASE DeleteBackup(c)
  BY <1>9 DEF DeleteBackup, Delete
<1>10. CASE DeleteRole(c)
  BY <1>10 DEF DeleteRole, Delete
<1>11. CASE DeleteRoleBinding(c)
  BY <1>11 DEF DeleteRoleBinding, Delete
<1>12. CASE DeleteEdgeInfo(c)
  BY <1>12 DEF DeleteEdgeInfo, DeleteIfAny
<1> QED
  BY <1>1, <1>2, <1>3, <1>4, <1>5, <1>6, <1>7, <1>8, <1>9, <1>10, <1>11, <1>12
     DEF RecoverKubeConfig, DeleteLiteApiServerCert

LEMMA CommandProgress ==
  ASSUME Progress, NEW c \in Clients, Command(c)
  PROVE  Safe'
<1>1. OriginalKept' /\ UpdateAt(c)' /\ RecoverAt(c)'
  BY UpdateKubeConfigProgress, JoinNodePrepareProgress, DetachProgress DEF Command
<1>2. ASSUME NEW d \in Clients \ {c} PROVE UpdateAt(d)' /\ RecoverAt(d)'
  <2>1. pc'[d] = pc[d]
    BY OwnCommand DEF Progress
  <2>2. CASE Fail(c)
    <3>1. api' = api /\ copy'[d] = copy[d]
      BY <2>2 DEF Fail, Return, Progress, TypeInv, TypeOK, ClientOK
    <3> QED
      BY <2>1, <3>1, UntouchedHolds DEF Progress, Safe, UpdateProgress, RecoverProgress
  <2> QED
    BY <2>1, <2>2, OthersWait, WaitingHolds
<1> QED
  BY <1>1, <1>2 DEF Safe, UpdateProgress, RecoverProgress

\* Who begins or ends leaves the cluster and the others alone.
LEMMA FaultOrStart ==
  ASSUME TypeInv, NEW c \in Clients,
         Fault(c) \/ \E command \in Commands : Start(c, command)
  PROVE  /\ api' = api
         /\ \A d \in Clients \ {c} :
              pc'[d] = pc[d] /\ copy'[d] = copy[d] /\ run'[d] = run[d]
         /\ Fault(c) => pc[c] # Idle /\ pc'[c] = Idle
         /\ pc'[c] \in Waiting \cup {"checkNodes"}
BY DEF TypeInv, TypeOK, ClientOK, Fault, Abort, ListFails, DeleteEdgeInfoFails, Fail, Return,
   Start, Begin, Waiting, Idle

LEMMA EnvironmentProgress ==
  ASSUME Progress,
         \/ \E c \in Clients : Fault(c) \/ \E command \in Commands : Start(c, command)
         \/ \E o \in {"kubernetes", "slice"} : ControllerWrites(o)
         \/ \E n \in Node : JoinReadsEdgeInfo(n) \/ JoinLabelsNode(n) \/ NodeLeaves(n)
         \/ UNCHANGED vars
  PROVE  Safe'
<1>1. ASSUME NEW c \in Clients,
             Fault(c) \/ \E command \in Commands : Start(c, command)
      PROVE  Safe'
  <2>1. OriginalKept'
    BY <1>1, FaultOrStart DEF Progress, Safe, OriginalKept
  <2>2. UpdateAt(c)' /\ RecoverAt(c)'
    BY <1>1, FaultOrStart, WaitingHolds DEF Progress
  <2>3. ASSUME NEW d \in Clients \ {c} PROVE UpdateAt(d)' /\ RecoverAt(d)'
    BY <1>1, FaultOrStart, UntouchedHolds DEF Progress, Safe, UpdateProgress, RecoverProgress
  <2> QED
    BY <2>1, <2>2, <2>3 DEF Safe, UpdateProgress, RecoverProgress
<1>2. ASSUME NEW o \in {"kubernetes", "slice"}, ControllerWrites(o) PROVE Safe'
  BY <1>2 DEF ControllerWrites, Write, Touched, Progress, TypeInv, TypeOK, ApiOK, ClientOK,
     Safe, OriginalKept, UpdateProgress, RecoverProgress, UpdateAt, RecoverAt, Absent,
     Objects, Flags, BackupMade, EndpointEdge, ProxyGone, EndpointBack, PrepareSteps,
     RecoverSteps, CertSteps
<1>3. CASE \/ \E n \in Node : JoinReadsEdgeInfo(n) \/ JoinLabelsNode(n) \/ NodeLeaves(n)
           \/ UNCHANGED vars
  <2>1. UNCHANGED apiVars
    BY <1>3 DEF JoinReadsEdgeInfo, JoinLabelsNode, NodeLeaves, apiVars, vars
  <2> QED
    BY <2>1, UntouchedHolds DEF apiVars, Progress, Safe, OriginalKept, UpdateProgress,
       RecoverProgress
<1> QED
  BY <1>1, <1>2, <1>3

LEMMA CommandKeepsAlone ==
  ASSUME Progress, NEW c \in Clients, Command(c)
  PROVE  AloneInv' /\ CommandInv'
<1> USE DEF Progress
<1>1. pc[c] \in DetachSteps \/ pc'[c] \notin DetachSteps
  BY OwnCommand DEF AddonSteps, UpdateSteps, PrepareSteps, DetachSteps, RecoverSteps,
     CertSteps, Idle
<1>2. CommandInv'
  BY <1>1, OwnCommand DEF CommandInv
<1>3. pc'[c] \in Waiting \/ \A d \in Clients \ {c} : pc[d] \in Waiting
  BY OthersWait DEF Fail, Return, TypeInv, TypeOK, ClientOK, Waiting
<1>4. pc[c] # Idle
  BY OwnCommand DEF AddonSteps, UpdateSteps, PrepareSteps, DetachSteps, RecoverSteps,
     CertSteps, Idle
<1>5. AloneInv'
  <2> SUFFICES ASSUME NEW x \in Clients, NEW y \in Clients, x # y
               PROVE  /\ pc'[x] \in Waiting \/ pc'[y] \in Waiting
                      /\ pc'[x] \in DetachSteps => pc'[y] = Idle
    BY DEF AloneInv
  <2>1. CASE c \notin {x, y}
    BY <2>1, OwnCommand DEF AloneInv
  <2>2. CASE x = c
    BY <2>2, <1>1, <1>3, OwnCommand DEF AloneInv
  <2>3. CASE y = c
    BY <2>3, <1>3, <1>4, OwnCommand DEF AloneInv
  <2> QED
    BY <2>1, <2>2, <2>3
<1> QED
  BY <1>2, <1>5

LEMMA StartKeepsAlone ==
  ASSUME Progress, OnlyAddonsOverlap, NEW c \in Clients, NEW command \in Commands,
         Start(c, command)
  PROVE  AloneInv' /\ CommandInv'
<1> USE DEF Progress
<1>1. command \in {"addon", "detach"}
  BY CommandsAssumption
<1>2. /\ pc[c] = Idle /\ pc'[c] = IF command = "addon" THEN "createCM" ELSE "checkNodes"
      /\ run'[c].command = command
      /\ \A d \in Clients \ {c} : pc'[d] = pc[d] /\ run'[d] = run[d]
  BY DEF Start, Begin, TypeInv, TypeOK, ClientOK
<1>3. CommandInv'
  BY <1>1, <1>2 DEF CommandInv, DetachSteps, RecoverSteps, CertSteps
<1>4. ASSUME NEW d \in Clients \ {c}
      PROVE  pc[d] = Idle \/ (command = "addon" /\ pc[d] \notin DetachSteps)
  <2>1. CASE {command, run[d].command} \subseteq Concurrent
    BY <1>1, <2>1 DEF OnlyAddonsOverlap, CommandInv
  <2> QED
    BY <2>1 DEF Start
<1>5. AloneInv'
  <2> SUFFICES ASSUME NEW x \in Clients, NEW y \in Clients, x # y
               PROVE  /\ pc'[x] \in Waiting \/ pc'[y] \in Waiting
                      /\ pc'[x] \in DetachSteps => pc'[y] = Idle
    BY DEF AloneInv
  <2>1. CASE c \notin {x, y}
    BY <2>1, <1>2 DEF AloneInv
  <2>2. CASE x = c
    BY <2>2, <1>1, <1>2, <1>4 DEF Waiting, Idle, DetachSteps, RecoverSteps, CertSteps
  <2>3. CASE y = c
    BY <2>3, <1>1, <1>2, <1>4 DEF Waiting, Idle, DetachSteps, RecoverSteps, CertSteps
  <2> QED
    BY <2>1, <2>2, <2>3
<1> QED
  BY <1>3, <1>5

LEMMA RestKeepsAlone ==
  ASSUME Progress,
         \/ \E c \in Clients : Fault(c)
         \/ \E o \in {"kubernetes", "slice"} : ControllerWrites(o)
         \/ \E n \in Node : JoinReadsEdgeInfo(n) \/ JoinLabelsNode(n) \/ NodeLeaves(n)
         \/ UNCHANGED vars
  PROVE  AloneInv' /\ CommandInv'
<1>1. ASSUME NEW c \in Clients, Fault(c) PROVE AloneInv' /\ CommandInv'
  <2>1. /\ pc'[c] = Idle
        /\ \A d \in Clients \ {c} : pc'[d] = pc[d] /\ run'[d] = run[d]
    BY <1>1, FaultOrStart DEF Progress
  <2>2. Idle \in Waiting /\ Idle \notin DetachSteps
    BY DEF Waiting, Idle, DetachSteps, RecoverSteps, CertSteps
  <2> QED
    BY <2>1, <2>2 DEF Progress, AloneInv, CommandInv
<1>2. CASE \/ \E o \in {"kubernetes", "slice"} : ControllerWrites(o)
           \/ \E n \in Node : JoinReadsEdgeInfo(n) \/ JoinLabelsNode(n) \/ NodeLeaves(n)
           \/ UNCHANGED vars
  <2>1. pc' = pc /\ run' = run
    BY <1>2 DEF ControllerWrites, JoinReadsEdgeInfo, JoinLabelsNode, NodeLeaves, apiVars, vars
  <2> QED
    BY <2>1 DEF Progress, AloneInv, CommandInv
<1> QED
  BY <1>1, <1>2

LEMMA InitProgress == Init => Progress
<1> SUFFICES ASSUME Init PROVE Progress
  OBVIOUS
<1>1. \A c \in Clients : pc[c] = Idle
  BY DEF Init
<1>2. AloneInv /\ CommandInv
  BY <1>1 DEF AloneInv, CommandInv, Waiting, Idle, DetachSteps, RecoverSteps, CertSteps
<1>3. UpdateProgress /\ RecoverProgress
  BY <1>1 DEF UpdateProgress, RecoverProgress, UpdateAt, RecoverAt, Idle, CMMade, SAMade,
     ProxyApart, ProxySplit, BackupMade, EndpointEdge, ProxyGone, CMGone, SAGone, ProxyBack,
     EndpointBack, UpdateSteps, PrepareSteps, RecoverSteps, CertSteps
<1>4. OriginalKept
  BY DEF Init, OriginalKept, NativeCluster, Objects, Flags, Absent
<1> QED
  BY <1>2, <1>3, <1>4, InitTyped DEF Progress, Safe

LEMMA NextProgress ==
  ASSUME OnlyAddonsOverlap
  PROVE  Progress /\ [Next]_vars => Progress'
<1> SUFFICES ASSUME Progress, [Next]_vars PROVE Progress'
  OBVIOUS
<1>1. TypeInv'
  BY NextTyped DEF Progress
<1>2. Safe'
  BY CommandProgress, EnvironmentProgress DEF Next
<1>3. AloneInv' /\ CommandInv'
  BY CommandKeepsAlone, StartKeepsAlone, RestKeepsAlone DEF Next
<1> QED
  BY <1>1, <1>2, <1>3 DEF Progress

LEMMA ProgressInvariant ==
  ASSUME OnlyAddonsOverlap
  PROVE  Spec => []Progress
BY InitProgress, NextProgress, PTL DEF Spec

\* Whoever runs addons at the same time, and however addons and detaches follow each other,
\* aborted or not: the annotations the "kubernetes" Endpoints had are never lost.
THEOREM OriginalAlwaysKept ==
  ASSUME OnlyAddonsOverlap
  PROVE  Spec => []OriginalKept
<1>1. Progress => OriginalKept
  BY DEF Progress, Safe
<1> QED
  BY <1>1, ProgressInvariant, PTL

\* As long as only addons overlap, an UpdateKubeConfig that returns nil has wired the cluster.
THEOREM UpdateAlwaysCompletes ==
  ASSUME OnlyAddonsOverlap
  PROVE  Spec => []UpdateCompletes
<1>1. Progress => UpdateCompletes
  BY DEF Progress, Safe, UpdateProgress, UpdateAt, UpdateCompletes, EdgeWired, CMMade, SAMade,
     ProxyApart, ProxySplit, BackupMade, EndpointEdge, PrepareSteps
<1> QED
  BY <1>1, ProgressInvariant, PTL

\* As long as only addons overlap, a RecoverKubeConfig that returns nil has restored
\* kube-proxy and the Endpoints.
THEOREM RecoverAlwaysCompletes ==
  ASSUME OnlyAddonsOverlap
  PROVE  Spec => []RecoverCompletes
<1>1. Progress => RecoverCompletes
  BY DEF Progress, Safe, RecoverProgress, RecoverAt, RecoverCompletes, ProxyRestored,
     ProxyGone, CMGone, SAGone, ProxyBack, EndpointBack, CertSteps
<1> QED
  BY <1>1, ProgressInvariant, PTL

KeepsProxy ==
  \A c \in Clients : pc[c] \in AddonSteps /\ pc'[c] # pc[c]
    => \A n \in Node : Served(n) => Served(n)'

LEMMA AddonStepKeepsProxy ==
  ASSUME Progress, NEW c \in Clients, UpdateKubeConfig(c) \/ JoinNodePrepare(c),
         NEW n \in Node, Served(n)
  PROVE  Served(n)'
<1>1. node' = node
  BY CommandFrame DEF Command
<1> USE <1>1 DEF Progress, TypeInv, TypeOK, ApiOK, ReadOK, Safe, UpdateProgress, UpdateAt, Served,
       Selects, At, Write, Fail, Return, Objects, Flags, Affinity, Absent
<1>2. CASE PatchProxy(c)
  BY <1>2 DEF PatchProxy, Patch
<1>3. CASE PatchEdgeProxy(c)
  <2>1. api["kubeProxy"] = "noedge"
    BY <1>3 DEF PatchEdgeProxy, ProxyApart, SAMade, CMMade, UpdateSteps
  <2> QED
    BY <1>3, <2>1 DEF PatchEdgeProxy, Patch
<1>4. CASE CreateEdgeProxy(c)
  BY <1>4 DEF CreateEdgeProxy, Create
<1>5. CASE UpdateKubeConfig(c) /\ ~PatchProxy(c) /\ ~PatchEdgeProxy(c) /\ ~CreateEdgeProxy(c)
  BY <1>5 DEF UpdateKubeConfig, CreateEdgeCM, CreateEdgeSA, GetKubeProxy, GetEndpoint,
     BackupEndpoint, UpdateEndpoint, GetSlice, UpdateSlice, Create, Get, Read, Update
<1>6. CASE JoinNodePrepare(c)
  BY <1>6 DEF JoinNodePrepare, CreateRole, CreateRoleBinding, GetEdgeInfo, PutEdgeInfo,
     Create, Read, Update
<1> QED
  BY <1>2, <1>3, <1>4, <1>5, <1>6

\* As long as only addons overlap, no addon takes kube-proxy away from a node that has it.
THEOREM AddonAlwaysKeepsProxy ==
  ASSUME OnlyAddonsOverlap
  PROVE  Spec => AddonKeepsProxy
<1>1. ASSUME Progress, [Next]_vars PROVE [KeepsProxy]_vars
  <2> SUFFICES ASSUME NEW c \in Clients, pc[c] \in AddonSteps, pc'[c] # pc[c],
                      NEW n \in Node, Served(n)
               PROVE  Served(n)'
    BY DEF KeepsProxy
  <2>1. ASSUME NEW d \in Clients, Command(d) PROVE Served(n)'
    <3>1. Command(c)
      BY <1>1, <2>1, OwnCommand DEF Progress
    <3>2. ~CheckIfEdgeAppDeletable(c) /\ ~RecoverKubeConfig(c) /\ ~DeleteLiteApiServerCert(c)
      BY DEF AddonSteps, UpdateSteps, PrepareSteps, CheckIfEdgeAppDeletable,
         RecoverKubeConfig, DeleteLiteApiServerCert, DeleteEdgeProxy, DeleteEdgeCM,
         DeleteEdgeSA, RecoverProxy, GetBackup, DeleteEndpoint, CreateEndpoint, DeleteBackup,
         DeleteRole, DeleteRoleBinding, DeleteEdgeInfo, At
    <3> QED
      BY <1>1, <3>1, <3>2, AddonStepKeepsProxy DEF Command
  <2>2. ASSUME NEW d \in Clients,
               Fault(d) \/ \E command \in Commands : Start(d, command)
        PROVE  Served(n)'
    <3>1. api' = api
      BY <1>1, <2>2, FaultOrStart DEF Progress
    <3>2. node' = node
      BY <2>2 DEF Fault, Abort, ListFails, DeleteEdgeInfoFails, UseFault, Start
    <3> QED
      BY <3>1, <3>2 DEF Served, Selects
  <2>3. CASE \/ \E o \in {"kubernetes", "slice"} : ControllerWrites(o)
             \/ \E m \in Node : JoinReadsEdgeInfo(m) \/ JoinLabelsNode(m) \/ NodeLeaves(m)
             \/ UNCHANGED vars
    BY <2>3 DEF ControllerWrites, JoinReadsEdgeInfo, JoinLabelsNode, NodeLeaves, apiVars, vars
  <2> QED
    BY <1>1, <2>1, <2>2, <2>3 DEF Next
<1> QED
  BY <1>1, ProgressInvariant, PTL DEF Spec, AddonKeepsProxy, KeepsProxy

OnlyOneUpdates ==
  \A c \in Clients : Updating(c)' /\ ~Updating(c)
    => ~EdgeWired /\ \A d \in Clients : ~Updating(d)

\* The edge ConfigMap locks out all addons but one: who is past its Create found none, in a
\* cluster where nobody else was.
THEOREM OneUpdaterAlways ==
  ASSUME OnlyAddonsOverlap
  PROVE  Spec => OneUpdater
<1>1. ASSUME Progress, [Next]_vars PROVE [OnlyOneUpdates]_vars
  <2> SUFFICES ASSUME NEW c \in Clients, Updating(c)', ~Updating(c)
               PROVE  ~EdgeWired /\ \A d \in Clients : ~Updating(d)
    BY DEF OnlyOneUpdates
  <2> USE DEF Progress
  <2>1. pc'[c] # pc[c] /\ pc'[c] \notin Waiting \cup DetachSteps \cup {Idle}
    BY DEF Updating, Waiting, Idle, AddonSteps, UpdateSteps, PrepareSteps, DetachSteps,
       RecoverSteps, CertSteps
  <2>2. ASSUME NEW d \in Clients, Command(d)
        PROVE  pc[c] = "createCM" /\ Command(c)
    BY <1>1, <2>1, <2>2, OwnCommand DEF Updating, Idle
  <2>3. ASSUME NEW d \in Clients,
               Fault(d) \/ \E command \in Commands : Start(d, command)
        PROVE  FALSE
    BY <1>1, <2>1, <2>3, FaultOrStart DEF Waiting, DetachSteps
  <2>4. pc' = pc => FALSE
    BY <2>1
  <2>5. pc[c] = "createCM" /\ Command(c)
    BY <1>1, <2>2, <2>3, <2>4 DEF Next, ControllerWrites, JoinReadsEdgeInfo, JoinLabelsNode,
       NodeLeaves, apiVars, vars
  <2>6. CreateEdgeCM(c)
    BY <2>5, AtCreateCM
  <2>7. api["edgeCM"] = Absent
    BY <1>1, <2>1, <2>6 DEF CreateEdgeCM, Create, Fail, Return, TypeInv, TypeOK, ClientOK
  <2>8. ASSUME NEW d \in Clients PROVE ~Updating(d)
    BY <1>1, <2>7 DEF Safe, UpdateProgress, UpdateAt, Updating, AddonSteps, CMMade, Absent
  <2> QED
    BY <2>7, <2>8 DEF EdgeWired, Absent
<1> QED
  BY <1>1, ProgressInvariant, PTL DEF Spec, OneUpdater, OnlyOneUpdates
=============================================================================
