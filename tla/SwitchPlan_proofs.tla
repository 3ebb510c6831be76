------------------------- MODULE SwitchPlan_proofs -------------------------
(***************************************************************************)
(* KubeConfigSwitch, run by one edgeadm, implements CommandRunner with the *)
(* plans of Workflows: for any number of nodes, commands, failures and     *)
(* writes of the API server.                                               *)
(***************************************************************************)
EXTENDS SwitchPlan, KubeConfigSwitch_proofs, SequenceTheorems

(***************************************************************************)
(* The documents and the plans, spelled out.                               *)
(***************************************************************************)
LEMMA In2 ==
  ASSUME NEW ns, NEW a, NEW b
  PROVE  W!In(ns, <<a, b>>) = << W!Document(ns, a[1], a[2]), W!Document(ns, b[1], b[2]) >>
BY DEF W!In

LEMMA In3 ==
  ASSUME NEW ns, NEW a, NEW b, NEW c
  PROVE  W!In(ns, <<a, b, c>>) =
           << W!Document(ns, a[1], a[2]), W!Document(ns, b[1], b[2]), W!Document(ns, c[1], c[2]) >>
BY DEF W!In

LEMMA Calls2 ==
  ASSUME NEW op, NEW a, NEW b
  PROVE  W!Calls(op, <<a, b>>) = << W!Call(op, a), W!Call(op, b) >>
BY DEF W!Calls

LEMMA Calls3 ==
  ASSUME NEW op, NEW a, NEW b, NEW c
  PROVE  W!Calls(op, <<a, b, c>>) = << W!Call(op, a), W!Call(op, b), W!Call(op, c) >>
BY DEF W!Calls

LEMMA EdgeKubeProxyDocuments ==
  W!EdgeKubeProxy = << W!Document("edge-system", "ConfigMap", "edge-kube-proxy"),
                       W!Document("edge-system", "ServiceAccount", "kube-proxy"),
                       W!Document("edge-system", "DaemonSet", "edge-kube-proxy") >>
BY In3 DEF W!EdgeKubeProxy, W!EdgeSystem

LEMMA AccessDocuments ==
  W!LiteApiServerAccess = << W!Document("edge-system", "Role", "lite-apiserver"),
                             W!Document("edge-system", "RoleBinding", "lite-apiserver") >>
BY In2 DEF W!LiteApiServerAccess, W!EdgeSystem

LEMMA DocumentOfIs ==
  /\ DocumentOf["edgeCM"] = W!Document("edge-system", "ConfigMap", "edge-kube-proxy")
  /\ DocumentOf["edgeSA"] = W!Document("edge-system", "ServiceAccount", "kube-proxy")
  /\ DocumentOf["edgeProxy"] = W!Document("edge-system", "DaemonSet", "edge-kube-proxy")
  /\ DocumentOf["kubeProxy"] = W!Document("kube-system", "Affinity", "kube-proxy")
  /\ DocumentOf["kubernetes"] = W!Document("default", "Annotations", "kubernetes")
  /\ DocumentOf["backup"] = W!Document("default", "Endpoints", "kubernetes-no-edge")
  /\ DocumentOf["role"] = W!Document("edge-system", "Role", "lite-apiserver")
  /\ DocumentOf["roleBinding"] = W!Document("edge-system", "RoleBinding", "lite-apiserver")
  /\ DocumentOf["edgeInfo"] = W!Document("edge-system", "ConfigMap", "edge-info")
<1>1. /\ DocumentOf["edgeCM"] = W!EdgeKubeProxy[1]
      /\ DocumentOf["edgeSA"] = W!EdgeKubeProxy[2]
      /\ DocumentOf["edgeProxy"] = W!EdgeKubeProxy[3]
      /\ DocumentOf["role"] = W!LiteApiServerAccess[1]
      /\ DocumentOf["roleBinding"] = W!LiteApiServerAccess[2]
      /\ DocumentOf["kubeProxy"] = W!Affinity
      /\ DocumentOf["kubernetes"] = W!Annotations
      /\ DocumentOf["backup"] = W!Backup
      /\ DocumentOf["edgeInfo"] = W!EdgeInfo
  BY DEF DocumentOf
<1>2. /\ W!Affinity = W!Document("kube-system", "Affinity", "kube-proxy")
      /\ W!Annotations = W!Document("default", "Annotations", "kubernetes")
      /\ W!Backup = W!Document("default", "Endpoints", "kubernetes-no-edge")
      /\ W!EdgeInfo = W!Document("edge-system", "ConfigMap", "edge-info")
  BY DEF W!Affinity, W!Annotations, W!Backup, W!EdgeInfo, W!EdgeSystem, W!KubeSystem
<1>3. /\ W!EdgeKubeProxy[1] = W!Document("edge-system", "ConfigMap", "edge-kube-proxy")
      /\ W!EdgeKubeProxy[2] = W!Document("edge-system", "ServiceAccount", "kube-proxy")
      /\ W!EdgeKubeProxy[3] = W!Document("edge-system", "DaemonSet", "edge-kube-proxy")
  BY EdgeKubeProxyDocuments
<1>4. /\ W!LiteApiServerAccess[1] = W!Document("edge-system", "Role", "lite-apiserver")
      /\ W!LiteApiServerAccess[2] = W!Document("edge-system", "RoleBinding", "lite-apiserver")
  BY AccessDocuments
<1> QED
  BY <1>1, <1>2, <1>3, <1>4

LEMMA EdgeKubeProxyIs ==
  W!EdgeKubeProxy = << DocumentOf["edgeCM"], DocumentOf["edgeSA"], DocumentOf["edgeProxy"] >>
BY EdgeKubeProxyDocuments, DocumentOfIs

LEMMA AccessIs ==
  W!LiteApiServerAccess = << DocumentOf["role"], DocumentOf["roleBinding"] >>
BY AccessDocuments, DocumentOfIs

Documented == DOMAIN DocumentOf
LEMMA DocumentedIs ==
  Documented = { "edgeCM", "edgeSA", "edgeProxy", "kubeProxy", "kubernetes", "backup", "role",
                 "roleBinding", "edgeInfo" }
BY DEF Documented, DocumentOf

LEMMA DocumentFields ==
  ASSUME NEW ns, NEW kind, NEW name
  PROVE  /\ W!Document(ns, kind, name).kind = kind
         /\ W!Document(ns, kind, name).name = name
         /\ kind \notin W!ClusterScoped => W!Document(ns, kind, name).ns = ns
BY DEF W!Document

\* The fields of the documents, which tell them apart and say what namespace they need.
LEMMA FieldsAre ==
  /\ DocumentOf["edgeCM"].kind = "ConfigMap" /\ DocumentOf["edgeCM"].name = "edge-kube-proxy"
  /\ DocumentOf["edgeSA"].kind = "ServiceAccount"
  /\ DocumentOf["edgeProxy"].kind = "DaemonSet"
  /\ DocumentOf["kubeProxy"].kind = "Affinity"
  /\ DocumentOf["kubernetes"].kind = "Annotations"
  /\ DocumentOf["backup"].kind = "Endpoints"
  /\ DocumentOf["role"].kind = "Role"
  /\ DocumentOf["roleBinding"].kind = "RoleBinding"
  /\ DocumentOf["edgeInfo"].kind = "ConfigMap" /\ DocumentOf["edgeInfo"].name = "edge-info"
  /\ W!EdgeNodes.kind = "Node"
<1>1. /\ DocumentOf["edgeCM"].kind = "ConfigMap" /\ DocumentOf["edgeCM"].name = "edge-kube-proxy"
      /\ DocumentOf["edgeSA"].kind = "ServiceAccount"
      /\ DocumentOf["edgeProxy"].kind = "DaemonSet"
  BY DocumentOfIs, DocumentFields
<1>2. /\ DocumentOf["kubeProxy"].kind = "Affinity"
      /\ DocumentOf["kubernetes"].kind = "Annotations"
      /\ DocumentOf["backup"].kind = "Endpoints"
  BY DocumentOfIs, DocumentFields
<1>3. /\ DocumentOf["role"].kind = "Role" /\ DocumentOf["roleBinding"].kind = "RoleBinding"
  BY DocumentOfIs, DocumentFields
<1>4. /\ DocumentOf["edgeInfo"].kind = "ConfigMap" /\ DocumentOf["edgeInfo"].name = "edge-info"
  BY DocumentOfIs, DocumentFields
<1>5. W!EdgeNodes.kind = "Node"
  BY DEF W!EdgeNodes, W!Document
<1> QED
  BY <1>1, <1>2, <1>3, <1>4, <1>5

LEMMA EdgeNamespaceIs == EdgeNamespace = [kind |-> "Namespace", name |-> "edge-system", ns |-> ""]
BY DEF EdgeNamespace, W!Namespace, W!Document, W!ClusterScoped, W!EdgeSystem

LEMMA NamespacesAre ==
  /\ \A o \in {"edgeCM", "edgeSA", "edgeProxy", "role", "roleBinding", "edgeInfo"} :
       DocumentOf[o].ns = "edge-system"
  /\ DocumentOf["kubeProxy"].ns = "kube-system"
  /\ DocumentOf["kubernetes"].ns = "default" /\ DocumentOf["backup"].ns = "default"
<1>1. \A kind \in {"ConfigMap", "ServiceAccount", "DaemonSet", "Affinity", "Annotations",
                   "Endpoints", "Role", "RoleBinding"} : kind \notin W!ClusterScoped
  BY DEF W!ClusterScoped
<1>2. /\ DocumentOf["edgeCM"].ns = "edge-system" /\ DocumentOf["edgeSA"].ns = "edge-system"
      /\ DocumentOf["edgeProxy"].ns = "edge-system"
      /\ DocumentOf["edgeInfo"].ns = "edge-system"
  BY <1>1, DocumentOfIs, DocumentFields
<1>3. /\ DocumentOf["role"].ns = "edge-system" /\ DocumentOf["roleBinding"].ns = "edge-system"
      /\ DocumentOf["kubeProxy"].ns = "kube-system"
  BY <1>1, DocumentOfIs, DocumentFields
<1>4. /\ DocumentOf["kubernetes"].ns = "default" /\ DocumentOf["backup"].ns = "default"
  BY <1>1, DocumentOfIs, DocumentFields
<1> QED
  BY <1>2, <1>3, <1>4

LEMMA DocumentsDiffer ==
  /\ \A o, p \in Documented : DocumentOf[o] = DocumentOf[p] => o = p
  /\ \A o \in Documented : DocumentOf[o] # EdgeNamespace /\ DocumentOf[o] # W!EdgeNodes
  /\ EdgeNamespace # W!EdgeNodes
<1>1. \A o \in Documented : DocumentOf[o].kind \notin {"Namespace", "Node"}
  BY FieldsAre, DocumentedIs
<1>2. EdgeNamespace.kind = "Namespace" /\ W!EdgeNodes.kind = "Node"
  BY EdgeNamespaceIs, FieldsAre
<1>3. \A o, p \in Documented : DocumentOf[o] = DocumentOf[p] => o = p
  BY FieldsAre, DocumentedIs
<1> QED
  BY <1>1, <1>2, <1>3

\* A call on the document of an object; a stage of one part.
C(op, o) == [op |-> op, doc |-> DocumentOf[o]]
S(calls, onError) == [parts |-> <<calls>>, onError |-> onError]
Ensure == [op |-> "put", doc |-> EdgeNamespace]
Gate == [op |-> "gate", doc |-> W!EdgeNodes]

AddonCalls ==
  << << C("create", "edgeCM"), C("create", "edgeSA"), C("create", "edgeProxy"),
        C("put", "kubeProxy"), C("create", "backup"), C("put", "kubernetes") >>,
     << Ensure >>,
     << C("create", "role"), C("create", "roleBinding"), C("put", "edgeInfo") >> >>
DetachCalls ==
  << << Gate >>,
     << C("delete", "edgeProxy"), C("delete", "edgeCM"), C("delete", "edgeSA"),
        C("delete", "kubeProxy"), C("await", "backup"), C("remove", "kubernetes"),
        C("delete", "backup") >>,
     << C("delete", "role"), C("delete", "roleBinding") >>,
     << C("remove", "edgeInfo") >> >>

\* Plans are put together from literal sequences.
LEMMA ConcatIs ==
  ASSUME NEW T, NEW s \in Seq(T), NEW t \in Seq(T), NEW u \in Seq(T),
         Len(u) = Len(s) + Len(t),
         \A i \in 1..Len(s) : s[i] = u[i],
         \A i \in 1..Len(t) : t[i] = u[Len(s) + i]
  PROVE  s \o t = u
<1>1. s \o t \in Seq(T) /\ Len(s \o t) = Len(u)
  OBVIOUS
<1>2. ASSUME NEW i \in 1..Len(s \o t) PROVE (s \o t)[i] = u[i]
  <2>1. CASE i \in 1..Len(s)
    BY <2>1
  <2>2. CASE i \notin 1..Len(s)
    <3>1. i - Len(s) \in 1..Len(t) /\ i = Len(s) + (i - Len(s))
      BY <1>1, <2>2
    <3> QED
      BY <3>1, <2>2
  <2> QED
    BY <2>1, <2>2
<1> QED
  BY <1>1, <1>2, SeqEqual

LEMMA ConcatSix ==
  ASSUME NEW a, NEW b, NEW c, NEW d, NEW e, NEW f
  PROVE  << a, b, c >> \o << d, e, f >> = << a, b, c, d, e, f >>
<1> DEFINE T == {a, b, c, d, e, f}
           s == << a, b, c >>
           t == << d, e, f >>
           u == << a, b, c, d, e, f >>
<1>1. s \in Seq(T) /\ t \in Seq(T) /\ u \in Seq(T)
  OBVIOUS
<1>2. Len(u) = Len(s) + Len(t)
  OBVIOUS
<1>3. \A i \in 1..Len(s) : s[i] = u[i]
  OBVIOUS
<1>4. \A i \in 1..Len(t) : t[i] = u[Len(s) + i]
  OBVIOUS
<1> HIDE DEF T, s, t, u
<1>5. s \o t = u
  BY <1>1, <1>2, <1>3, <1>4, ConcatIs
<1> QED
  BY <1>5 DEF s, t, u

LEMMA ConcatThree ==
  ASSUME NEW a, NEW b, NEW c
  PROVE  << a, b >> \o << c >> = << a, b, c >>
<1> DEFINE T == {a, b, c}
           s == << a, b >>
           t == << c >>
           u == << a, b, c >>
<1>1. s \in Seq(T) /\ t \in Seq(T) /\ u \in Seq(T)
  OBVIOUS
<1>2. Len(u) = Len(s) + Len(t)
  OBVIOUS
<1>3. \A i \in 1..Len(s) : s[i] = u[i]
  OBVIOUS
<1>4. \A i \in 1..Len(t) : t[i] = u[Len(s) + i]
  OBVIOUS
<1> HIDE DEF T, s, t, u
<1>5. s \o t = u
  BY <1>1, <1>2, <1>3, <1>4, ConcatIs
<1> QED
  BY <1>5 DEF s, t, u

LEMMA ConcatPair ==
  ASSUME NEW a, NEW b
  PROVE  << a >> \o << b >> = << a, b >>
<1> DEFINE T == {a, b}
           s == << a >>
           t == << b >>
           u == << a, b >>
<1>1. s \in Seq(T) /\ t \in Seq(T) /\ u \in Seq(T)
  OBVIOUS
<1>2. Len(u) = Len(s) + Len(t)
  OBVIOUS
<1>3. \A i \in 1..Len(s) : s[i] = u[i]
  OBVIOUS
<1>4. \A i \in 1..Len(t) : t[i] = u[Len(s) + i]
  OBVIOUS
<1> HIDE DEF T, s, t, u
<1>5. s \o t = u
  BY <1>1, <1>2, <1>3, <1>4, ConcatIs
<1> QED
  BY <1>5 DEF s, t, u

LEMMA ConcatTriple ==
  ASSUME NEW a, NEW b, NEW c
  PROVE  << a >> \o << b, c >> = << a, b, c >>
<1> DEFINE T == {a, b, c}
           s == << a >>
           t == << b, c >>
           u == << a, b, c >>
<1>1. s \in Seq(T) /\ t \in Seq(T) /\ u \in Seq(T)
  OBVIOUS
<1>2. Len(u) = Len(s) + Len(t)
  OBVIOUS
<1>3. \A i \in 1..Len(s) : s[i] = u[i]
  OBVIOUS
<1>4. \A i \in 1..Len(t) : t[i] = u[Len(s) + i]
  OBVIOUS
<1> HIDE DEF T, s, t, u
<1>5. s \o t = u
  BY <1>1, <1>2, <1>3, <1>4, ConcatIs
<1> QED
  BY <1>5 DEF s, t, u

LEMMA ConcatFour ==
  ASSUME NEW a, NEW b, NEW c, NEW d
  PROVE  << a, b >> \o << c, d >> = << a, b, c, d >>
<1> DEFINE T == {a, b, c, d}
           s == << a, b >>
           t == << c, d >>
           u == << a, b, c, d >>
<1>1. s \in Seq(T) /\ t \in Seq(T) /\ u \in Seq(T)
  OBVIOUS
<1>2. Len(u) = Len(s) + Len(t)
  OBVIOUS
<1>3. \A i \in 1..Len(s) : s[i] = u[i]
  OBVIOUS
<1>4. \A i \in 1..Len(t) : t[i] = u[Len(s) + i]
  OBVIOUS
<1> HIDE DEF T, s, t, u
<1>5. s \o t = u
  BY <1>1, <1>2, <1>3, <1>4, ConcatIs
<1> QED
  BY <1>5 DEF s, t, u

LEMMA StageIs ==
  ASSUME NEW calls
  PROVE  /\ W!Do(calls) = << S(calls, "return") >>
         /\ W!Anyway(calls) = << S(calls, "drop") >>
BY DEF W!Do, W!Anyway, W!Stage, S

LEMMA CallIs ==
  ASSUME NEW op
  PROVE  /\ \A o \in Documented : W!Call(op, DocumentOf[o]) = C(op, o)
         /\ W!Affinity = DocumentOf["kubeProxy"] /\ W!Annotations = DocumentOf["kubernetes"]
         /\ W!Backup = DocumentOf["backup"] /\ W!EdgeInfo = DocumentOf["edgeInfo"]
BY DEF W!Call, C, DocumentOf

LEMMA AddonPlan ==
  PlanOf[Of("addon")] =
    << S(AddonCalls[1], "return"), S(AddonCalls[2], "return"), S(AddonCalls[3], "return") >>
<1>1. W!UpdateKubeConfig = << S(AddonCalls[1], "return") >>
  <2>1. W!Calls("create", W!EdgeKubeProxy)
          = << C("create", "edgeCM"), C("create", "edgeSA"), C("create", "edgeProxy") >>
    BY EdgeKubeProxyIs, Calls3, CallIs, DocumentedIs
  <2>2. << W!Call("put", W!Affinity), W!Call("create", W!Backup), W!Call("put", W!Annotations) >>
          = << C("put", "kubeProxy"), C("create", "backup"), C("put", "kubernetes") >>
    BY CallIs, DocumentedIs
  <2>3. W!UpdateKubeConfig =
          << S(W!Calls("create", W!EdgeKubeProxy)
                \o << W!Call("put", W!Affinity), W!Call("create", W!Backup),
                      W!Call("put", W!Annotations) >>, "return") >>
    BY StageIs DEF W!UpdateKubeConfig
  <2>4. W!Calls("create", W!EdgeKubeProxy)
          \o << W!Call("put", W!Affinity), W!Call("create", W!Backup),
                W!Call("put", W!Annotations) >> = AddonCalls[1]
    <3>1. AddonCalls[1] =
            << C("create", "edgeCM"), C("create", "edgeSA"), C("create", "edgeProxy"),
               C("put", "kubeProxy"), C("create", "backup"), C("put", "kubernetes") >>
      BY DEF AddonCalls
    <3>2. << C("create", "edgeCM"), C("create", "edgeSA"), C("create", "edgeProxy") >>
            \o << C("put", "kubeProxy"), C("create", "backup"), C("put", "kubernetes") >>
            = AddonCalls[1]
      BY <3>1, ConcatSix
    <3> QED
      BY <2>1, <2>2, <3>2
  <2> QED
    BY <2>3, <2>4
<1>2. W!JoinNodePrepare = << S(AddonCalls[2], "return"), S(AddonCalls[3], "return") >>
  <2>1. W!Calls("create", W!LiteApiServerAccess)
          = << C("create", "role"), C("create", "roleBinding") >>
    BY AccessIs, Calls2, CallIs, DocumentedIs
  <2>2. W!Calls("create", W!LiteApiServerAccess) \o << W!Call("put", W!EdgeInfo) >>
          = AddonCalls[3]
    <3>1. AddonCalls[3] = << C("create", "role"), C("create", "roleBinding"), C("put", "edgeInfo") >>
      BY DEF AddonCalls
    <3>2. W!Call("put", W!EdgeInfo) = C("put", "edgeInfo")
      BY CallIs, DocumentedIs
    <3>3. << C("create", "role"), C("create", "roleBinding") >> \o << C("put", "edgeInfo") >>
            = AddonCalls[3]
      BY <3>1, ConcatThree
    <3> QED
      BY <2>1, <3>2, <3>3
  <2>3. << W!Call("put", W!Namespace(W!EdgeSystem)) >> = AddonCalls[2]
    BY DEF W!Call, Ensure, AddonCalls, EdgeNamespace
  <2>4. W!CreateNamespace(W!EdgeSystem) = << S(AddonCalls[2], "return") >>
    BY <2>3, StageIs DEF W!CreateNamespace
  <2> QED
    BY <2>2, <2>4, StageIs, ConcatPair DEF W!JoinNodePrepare
<1>3. PlanOf[Of("addon")] = W!UpdateKubeConfig \o W!JoinNodePrepare
  BY DEF PlanOf
<1> QED
  BY <1>1, <1>2, <1>3, ConcatTriple

LEMMA DetachPlan ==
  PlanOf[Of("detach")] =
    << S(DetachCalls[1], "return"), S(DetachCalls[2], "return"), S(DetachCalls[3], "return"),
       S(DetachCalls[4], "drop") >>
<1>1. W!CheckIfEdgeAppDeletable = << S(DetachCalls[1], "return") >>
  <2>1. << W!Call("gate", W!EdgeNodes) >> = DetachCalls[1]
    BY DEF W!Call, Gate, DetachCalls
  <2> QED
    BY <2>1, StageIs DEF W!CheckIfEdgeAppDeletable
<1>2. W!RecoverKubeConfig = << S(DetachCalls[2], "return") >>
  <2>1. << W!Call("delete", W!EdgeKubeProxy[3]), W!Call("delete", W!EdgeKubeProxy[1]),
           W!Call("delete", W!EdgeKubeProxy[2]), W!Call("delete", W!Affinity),
           W!Call("await", W!Backup), W!Call("remove", W!Annotations),
           W!Call("delete", W!Backup) >> = DetachCalls[2]
    BY EdgeKubeProxyIs, CallIs, DocumentedIs DEF DetachCalls
  <2> QED
    BY <2>1, StageIs DEF W!RecoverKubeConfig
<1>3. W!DeleteLiteApiServerCert = << S(DetachCalls[3], "return"), S(DetachCalls[4], "drop") >>
  <2>1. W!Calls("delete", W!LiteApiServerAccess) = DetachCalls[3]
    BY AccessIs, Calls2, CallIs, DocumentedIs DEF DetachCalls
  <2>2. << W!Call("remove", W!EdgeInfo) >> = DetachCalls[4]
    BY CallIs, DocumentedIs DEF DetachCalls
  <2> QED
    BY <2>1, <2>2, StageIs, ConcatPair DEF W!DeleteLiteApiServerCert
<1>4. Of("addon") # Of("detach")
  BY DEF Of
<1>5. PlanOf[Of("detach")]
        = W!CheckIfEdgeAppDeletable \o W!RecoverKubeConfig \o W!DeleteLiteApiServerCert
  BY <1>4 DEF PlanOf
<1>6. W!CheckIfEdgeAppDeletable \o W!RecoverKubeConfig
        = << S(DetachCalls[1], "return"), S(DetachCalls[2], "return") >>
  BY <1>1, <1>2, ConcatPair
<1> QED
  BY <1>3, <1>5, <1>6, ConcatFour

----------------------------------------------------------------------------
(***************************************************************************)
(* Where a command is in its plan.                                         *)
(***************************************************************************)
\* The steps by what the call of the plan does with its document.
CreatingSteps ==
  {"createCM", "createSA", "createDS", "backupEndpoint", "createRole", "createRoleBinding"}
PuttingSteps == {"patchProxy", "updateEndpoint", "putEdgeInfo"}
DeletingSteps ==
  {"deleteDS", "deleteCM", "deleteSA", "recoverProxy", "deleteBackup", "deleteRole",
   "deleteRoleBinding"}
RemovingSteps == {"deleteEndpoint", "deleteEdgeInfo"}
\* the steps that are no call of the plan
SilentSteps == {"getDS", "patchEdge", "getEndpoint", "getSlice", "getEdgeInfo", "createEndpoint"}

ObjectAt ==
  [ createCM |-> "edgeCM", createSA |-> "edgeSA", getDS |-> "edgeProxy",
    createDS |-> "edgeProxy", patchProxy |-> "kubeProxy", patchEdge |-> "backup",
    getEndpoint |-> "backup", backupEndpoint |-> "backup", updateEndpoint |-> "kubernetes",
    createRole |-> "role", createRoleBinding |-> "roleBinding", getEdgeInfo |-> "edgeInfo",
    putEdgeInfo |-> "edgeInfo",
    deleteDS |-> "edgeProxy", deleteCM |-> "edgeCM", deleteSA |-> "edgeSA",
    recoverProxy |-> "kubeProxy", getBackup |-> "backup", deleteEndpoint |-> "kubernetes",
    createEndpoint |-> "backup", deleteBackup |-> "backup", deleteRole |-> "role",
    deleteRoleBinding |-> "roleBinding", deleteEdgeInfo |-> "edgeInfo" ]
CallOf(s) ==
  CASE s = "checkNodes" -> Gate
    [] s \in {"getSlice", "updateSlice"} -> Ensure
    [] s \in CreatingSteps \cup {"getDS", "patchEdge", "getEndpoint"} -> C("create", ObjectAt[s])
    [] s \in PuttingSteps \cup {"getEdgeInfo"} -> C("put", ObjectAt[s])
    [] s \in DeletingSteps \cup {"createEndpoint"} -> C("delete", ObjectAt[s])
    [] s \in RemovingSteps -> C("remove", ObjectAt[s])
    [] OTHER -> C("await", ObjectAt[s])

CommandOf(s) == IF s \in AddonSteps THEN "addon" ELSE "detach"
Planned(s) == IF s \in AddonSteps THEN AddonCalls ELSE DetachCalls
OnError(s) == IF s = "deleteEdgeInfo" THEN "drop" ELSE "return"

LEMMA PlaceIs ==
  /\ Place["createCM"][1] = 1 /\ Place["createCM"][2] = 1
  /\ Place["createSA"][1] = 1 /\ Place["createSA"][2] = 2
  /\ Place["getDS"][1] = 1 /\ Place["getDS"][2] = 3
  /\ Place["createDS"][1] = 1 /\ Place["createDS"][2] = 3
  /\ Place["patchProxy"][1] = 1 /\ Place["patchProxy"][2] = 4
  /\ Place["patchEdge"][1] = 1 /\ Place["patchEdge"][2] = 5
  /\ Place["getEndpoint"][1] = 1 /\ Place["getEndpoint"][2] = 5
  /\ Place["backupEndpoint"][1] = 1 /\ Place["backupEndpoint"][2] = 5
  /\ Place["updateEndpoint"][1] = 1 /\ Place["updateEndpoint"][2] = 6
  /\ Place["getSlice"][1] = 2 /\ Place["getSlice"][2] = 1
  /\ Place["updateSlice"][1] = 2 /\ Place["updateSlice"][2] = 1
  /\ Place["createRole"][1] = 3 /\ Place["createRole"][2] = 1
  /\ Place["createRoleBinding"][1] = 3 /\ Place["createRoleBinding"][2] = 2
  /\ Place["getEdgeInfo"][1] = 3 /\ Place["getEdgeInfo"][2] = 3
  /\ Place["putEdgeInfo"][1] = 3 /\ Place["putEdgeInfo"][2] = 3
  /\ Place["checkNodes"][1] = 1 /\ Place["checkNodes"][2] = 1
  /\ Place["deleteDS"][1] = 2 /\ Place["deleteDS"][2] = 1
  /\ Place["deleteCM"][1] = 2 /\ Place["deleteCM"][2] = 2
  /\ Place["deleteSA"][1] = 2 /\ Place["deleteSA"][2] = 3
  /\ Place["recoverProxy"][1] = 2 /\ Place["recoverProxy"][2] = 4
  /\ Place["getBackup"][1] = 2 /\ Place["getBackup"][2] = 5
  /\ Place["deleteEndpoint"][1] = 2 /\ Place["deleteEndpoint"][2] = 6
  /\ Place["createEndpoint"][1] = 2 /\ Place["createEndpoint"][2] = 7
  /\ Place["deleteBackup"][1] = 2 /\ Place["deleteBackup"][2] = 7
  /\ Place["deleteRole"][1] = 3 /\ Place["deleteRole"][2] = 1
  /\ Place["deleteRoleBinding"][1] = 3 /\ Place["deleteRoleBinding"][2] = 2
  /\ Place["deleteEdgeInfo"][1] = 4 /\ Place["deleteEdgeInfo"][2] = 1
BY DEF Place

LEMMA CallOfIs ==
  /\ CallOf("createCM") = C("create", "edgeCM") /\ CallOf("createSA") = C("create", "edgeSA")
  /\ CallOf("getDS") = C("create", "edgeProxy") /\ CallOf("createDS") = C("create", "edgeProxy")
  /\ CallOf("patchProxy") = C("put", "kubeProxy") /\ CallOf("patchEdge") = C("create", "backup")
  /\ CallOf("getEndpoint") = C("create", "backup")
  /\ CallOf("backupEndpoint") = C("create", "backup")
  /\ CallOf("updateEndpoint") = C("put", "kubernetes") /\ CallOf("getSlice") = Ensure
  /\ CallOf("updateSlice") = Ensure
  /\ CallOf("createRole") = C("create", "role")
  /\ CallOf("createRoleBinding") = C("create", "roleBinding")
  /\ CallOf("getEdgeInfo") = C("put", "edgeInfo") /\ CallOf("putEdgeInfo") = C("put", "edgeInfo")
  /\ CallOf("checkNodes") = Gate /\ CallOf("deleteDS") = C("delete", "edgeProxy")
  /\ CallOf("deleteCM") = C("delete", "edgeCM") /\ CallOf("deleteSA") = C("delete", "edgeSA")
  /\ CallOf("recoverProxy") = C("delete", "kubeProxy")
  /\ CallOf("getBackup") = C("await", "backup")
  /\ CallOf("deleteEndpoint") = C("remove", "kubernetes")
  /\ CallOf("createEndpoint") = C("delete", "backup")
  /\ CallOf("deleteBackup") = C("delete", "backup")
  /\ CallOf("deleteRole") = C("delete", "role")
  /\ CallOf("deleteRoleBinding") = C("delete", "roleBinding")
  /\ CallOf("deleteEdgeInfo") = C("remove", "edgeInfo")
<1> USE DEF CallOf, CreatingSteps, PuttingSteps, DeletingSteps, RemovingSteps
<1>1. /\ CallOf("createCM") = C("create", "edgeCM") /\ CallOf("createSA") = C("create", "edgeSA")
      /\ CallOf("getDS") = C("create", "edgeProxy")
      /\ CallOf("createDS") = C("create", "edgeProxy")
  BY DEF ObjectAt
<1>2. /\ CallOf("patchProxy") = C("put", "kubeProxy")
      /\ CallOf("patchEdge") = C("create", "backup")
      /\ CallOf("getEndpoint") = C("create", "backup")
      /\ CallOf("backupEndpoint") = C("create", "backup")
  BY DEF ObjectAt
<1>3. /\ CallOf("updateEndpoint") = C("put", "kubernetes") /\ CallOf("getSlice") = Ensure
      /\ CallOf("updateSlice") = Ensure
  BY DEF ObjectAt
<1>4. /\ CallOf("createRole") = C("create", "role")
      /\ CallOf("createRoleBinding") = C("create", "roleBinding")
      /\ CallOf("getEdgeInfo") = C("put", "edgeInfo")
      /\ CallOf("putEdgeInfo") = C("put", "edgeInfo")
  BY DEF ObjectAt
<1>5. /\ CallOf("checkNodes") = Gate /\ CallOf("deleteDS") = C("delete", "edgeProxy")
      /\ CallOf("deleteCM") = C("delete", "edgeCM") /\ CallOf("deleteSA") = C("delete", "edgeSA")
  BY DEF ObjectAt
<1>6. /\ CallOf("recoverProxy") = C("delete", "kubeProxy")
      /\ CallOf("getBackup") = C("await", "backup")
      /\ CallOf("deleteEndpoint") = C("remove", "kubernetes")
  BY DEF ObjectAt
<1>7. /\ CallOf("createEndpoint") = C("delete", "backup")
      /\ CallOf("deleteBackup") = C("delete", "backup")
  BY DEF ObjectAt
<1>8. /\ CallOf("deleteRole") = C("delete", "role")
      /\ CallOf("deleteRoleBinding") = C("delete", "roleBinding")
      /\ CallOf("deleteEdgeInfo") = C("remove", "edgeInfo")
  BY DEF ObjectAt
<1> QED
  BY <1>1, <1>2, <1>3, <1>4, <1>5, <1>6, <1>7, <1>8

LEMMA AddonCallsAre ==
  /\ Len(AddonCalls) = 3
  /\ Len(AddonCalls[1]) = 6
  /\ AddonCalls[1][1] = C("create", "edgeCM") /\ AddonCalls[1][2] = C("create", "edgeSA")
  /\ AddonCalls[1][3] = C("create", "edgeProxy") /\ AddonCalls[1][4] = C("put", "kubeProxy")
  /\ AddonCalls[1][5] = C("create", "backup") /\ AddonCalls[1][6] = C("put", "kubernetes")
  /\ Len(AddonCalls[2]) = 1
  /\ AddonCalls[2][1] = Ensure
  /\ Len(AddonCalls[3]) = 3
  /\ AddonCalls[3][1] = C("create", "role") /\ AddonCalls[3][2] = C("create", "roleBinding")
  /\ AddonCalls[3][3] = C("put", "edgeInfo")
BY DEF AddonCalls

LEMMA DetachCallsAre ==
  /\ Len(DetachCalls) = 4
  /\ Len(DetachCalls[1]) = 1
  /\ DetachCalls[1][1] = Gate
  /\ Len(DetachCalls[2]) = 7
  /\ DetachCalls[2][1] = C("delete", "edgeProxy") /\ DetachCalls[2][2] = C("delete", "edgeCM")
  /\ DetachCalls[2][3] = C("delete", "edgeSA") /\ DetachCalls[2][4] = C("delete", "kubeProxy")
  /\ DetachCalls[2][5] = C("await", "backup") /\ DetachCalls[2][6] = C("remove", "kubernetes")
  /\ DetachCalls[2][7] = C("delete", "backup")
  /\ Len(DetachCalls[3]) = 2
  /\ DetachCalls[3][1] = C("delete", "role") /\ DetachCalls[3][2] = C("delete", "roleBinding")
  /\ Len(DetachCalls[4]) = 1
  /\ DetachCalls[4][1] = C("remove", "edgeInfo")
BY DEF DetachCalls

LEMMA PlannedCall ==
  ASSUME NEW s \in Steps \ {Idle}
  PROVE  /\ Place[s][1] \in 1..Len(Planned(s))
         /\ Place[s][2] \in 1..Len(Planned(s)[Place[s][1]])
         /\ Planned(s)[Place[s][1]][Place[s][2]] = CallOf(s)
<1>1. /\ Len(DetachCalls) = 4 /\ Len(DetachCalls[1]) = 1 /\ Len(DetachCalls[2]) = 7
      /\ Len(DetachCalls[3]) = 2 /\ Len(DetachCalls[4]) = 1
  BY DetachCallsAre
<1>3. ASSUME s \in AddonSteps
      PROVE  Planned(s) = AddonCalls
  BY <1>3 DEF Planned
<1>4. ASSUME s \in DetachSteps
      PROVE  Planned(s) = DetachCalls
  BY <1>4 DEF Planned, AddonSteps, UpdateSteps, PrepareSteps, DetachSteps, RecoverSteps, CertSteps
<1>5. CASE s \in {"createCM", "createSA", "getDS", "createDS"}
  <2>1. Planned(s) = AddonCalls
    BY <1>5, <1>3 DEF AddonSteps, UpdateSteps, PrepareSteps
  <2> QED
    BY AddonCallsAre, <1>5, <2>1, PlaceIs, CallOfIs
<1>6. CASE s \in {"patchProxy", "patchEdge", "getEndpoint", "backupEndpoint"}
  <2>1. Planned(s) = AddonCalls
    BY <1>6, <1>3 DEF AddonSteps, UpdateSteps, PrepareSteps
  <2> QED
    BY AddonCallsAre, <1>6, <2>1, PlaceIs, CallOfIs
<1>7. CASE s \in {"updateEndpoint", "getSlice", "updateSlice"}
  <2>1. Planned(s) = AddonCalls
    BY <1>7, <1>3 DEF AddonSteps, UpdateSteps, PrepareSteps
  <2> QED
    BY AddonCallsAre, <1>7, <2>1, PlaceIs, CallOfIs
<1>8. CASE s \in {"createRole", "createRoleBinding", "getEdgeInfo", "putEdgeInfo"}
  <2>1. Planned(s) = AddonCalls
    BY <1>8, <1>3 DEF AddonSteps, UpdateSteps, PrepareSteps
  <2> QED
    BY AddonCallsAre, <1>8, <2>1, PlaceIs, CallOfIs
<1>9. CASE s \in {"checkNodes"}
  <2>1. Planned(s) = DetachCalls
    BY <1>9, <1>4 DEF DetachSteps, RecoverSteps, CertSteps
  <2>2. Place[s][1] = 1 /\ Place[s][2] \in 1..1
    BY <1>9, PlaceIs
  <2>3. DetachCalls[1][Place[s][2]] = CallOf(s)
    BY DetachCallsAre, <1>9, PlaceIs, CallOfIs
  <2>4. Place[s][1] \in 1..Len(Planned(s))
    <3>1. Len(Planned(s)) = 4
      BY <1>1, <2>1
    <3> QED
      BY <2>2, <3>1
  <2>5. Place[s][2] \in 1..Len(Planned(s)[Place[s][1]])
    BY <1>1, <2>1, <2>2
  <2>6. Planned(s)[Place[s][1]][Place[s][2]] = CallOf(s)
    BY <2>1, <2>2, <2>3
  <2> QED
    BY <2>4, <2>5, <2>6
<1>10. CASE s \in {"deleteDS", "deleteCM", "deleteSA"}
  <2>1. Planned(s) = DetachCalls
    BY <1>10, <1>4 DEF DetachSteps, RecoverSteps, CertSteps
  <2>2. Place[s][1] = 2 /\ Place[s][2] \in 1..7
    BY <1>10, PlaceIs
  <2>3. DetachCalls[2][Place[s][2]] = CallOf(s)
    BY DetachCallsAre, <1>10, PlaceIs, CallOfIs
  <2>4. Place[s][1] \in 1..Len(Planned(s))
    <3>1. Len(Planned(s)) = 4
      BY <1>1, <2>1
    <3> QED
      BY <2>2, <3>1
  <2>5. Place[s][2] \in 1..Len(Planned(s)[Place[s][1]])
    BY <1>1, <2>1, <2>2
  <2>6. Planned(s)[Place[s][1]][Place[s][2]] = CallOf(s)
    BY <2>1, <2>2, <2>3
  <2> QED
    BY <2>4, <2>5, <2>6
<1>11. CASE s \in {"recoverProxy", "getBackup", "deleteEndpoint"}
  <2>1. Planned(s) = DetachCalls
    BY <1>11, <1>4 DEF DetachSteps, RecoverSteps, CertSteps
  <2>2. Place[s][1] = 2 /\ Place[s][2] \in 1..7
    BY <1>11, PlaceIs
  <2>3. DetachCalls[2][Place[s][2]] = CallOf(s)
    BY DetachCallsAre, <1>11, PlaceIs, CallOfIs
  <2>4. Place[s][1] \in 1..Len(Planned(s))
    <3>1. Len(Planned(s)) = 4
      BY <1>1, <2>1
    <3> QED
      BY <2>2, <3>1
  <2>5. Place[s][2] \in 1..Len(Planned(s)[Place[s][1]])
    BY <1>1, <2>1, <2>2
  <2>6. Planned(s)[Place[s][1]][Place[s][2]] = CallOf(s)
    BY <2>1, <2>2, <2>3
  <2> QED
    BY <2>4, <2>5, <2>6
<1>12. CASE s \in {"createEndpoint", "deleteBackup"}
  <2>1. Planned(s) = DetachCalls
    BY <1>12, <1>4 DEF DetachSteps, RecoverSteps, CertSteps
  <2>2. Place[s][1] = 2 /\ Place[s][2] \in 1..7
    BY <1>12, PlaceIs
  <2>3. DetachCalls[2][Place[s][2]] = CallOf(s)
    BY DetachCallsAre, <1>12, PlaceIs, CallOfIs
  <2>4. Place[s][1] \in 1..Len(Planned(s))
    <3>1. Len(Planned(s)) = 4
      BY <1>1, <2>1
    <3> QED
      BY <2>2, <3>1
  <2>5. Place[s][2] \in 1..Len(Planned(s)[Place[s][1]])
    BY <1>1, <2>1, <2>2
  <2>6. Planned(s)[Place[s][1]][Place[s][2]] = CallOf(s)
    BY <2>1, <2>2, <2>3
  <2> QED
    BY <2>4, <2>5, <2>6
<1>13. CASE s \in {"deleteRole", "deleteRoleBinding"}
  <2>1. Planned(s) = DetachCalls
    BY <1>13, <1>4 DEF DetachSteps, RecoverSteps, CertSteps
  <2>2. Place[s][1] = 3 /\ Place[s][2] \in 1..2
    BY <1>13, PlaceIs
  <2>3. DetachCalls[3][Place[s][2]] = CallOf(s)
    BY DetachCallsAre, <1>13, PlaceIs, CallOfIs
  <2>4. Place[s][1] \in 1..Len(Planned(s))
    <3>1. Len(Planned(s)) = 4
      BY <1>1, <2>1
    <3> QED
      BY <2>2, <3>1
  <2>5. Place[s][2] \in 1..Len(Planned(s)[Place[s][1]])
    BY <1>1, <2>1, <2>2
  <2>6. Planned(s)[Place[s][1]][Place[s][2]] = CallOf(s)
    BY <2>1, <2>2, <2>3
  <2> QED
    BY <2>4, <2>5, <2>6
<1>14. CASE s \in {"deleteEdgeInfo"}
  <2>1. Planned(s) = DetachCalls
    BY <1>14, <1>4 DEF DetachSteps, RecoverSteps, CertSteps
  <2>2. Place[s][1] = 4 /\ Place[s][2] \in 1..1
    BY <1>14, PlaceIs
  <2>3. DetachCalls[4][Place[s][2]] = CallOf(s)
    BY DetachCallsAre, <1>14, PlaceIs, CallOfIs
  <2>4. Place[s][1] \in 1..Len(Planned(s))
    <3>1. Len(Planned(s)) = 4
      BY <1>1, <2>1
    <3> QED
      BY <2>2, <3>1
  <2>5. Place[s][2] \in 1..Len(Planned(s)[Place[s][1]])
    BY <1>1, <2>1, <2>2
  <2>6. Planned(s)[Place[s][1]][Place[s][2]] = CallOf(s)
    BY <2>1, <2>2, <2>3
  <2> QED
    BY <2>4, <2>5, <2>6
<1> QED
  BY <1>5, <1>6, <1>7, <1>8, <1>9, <1>10, <1>11, <1>12, <1>13, <1>14
     DEF Steps, AddonSteps, UpdateSteps, PrepareSteps, DetachSteps, RecoverSteps, CertSteps

LEMMA PlanIs ==
  ASSUME NEW s \in Steps \ {Idle}
  PROVE  /\ Len(PlanOf[Of(CommandOf(s))]) = Len(Planned(s))
         /\ \A i \in 1..Len(Planned(s)) : PlanOf[Of(CommandOf(s))][i].parts = << Planned(s)[i] >>
         /\ PlanOf[Of(CommandOf(s))][Place[s][1]].onError = OnError(s)
<1>1. CASE s \in AddonSteps
  <2>1. Planned(s) = AddonCalls /\ Len(AddonCalls) = 3 /\ CommandOf(s) = "addon"
    BY <1>1 DEF Planned, AddonCalls, CommandOf
  <2>2. Place[s][1] \in 1..3 /\ OnError(s) = "return"
    BY <1>1, <2>1, PlannedCall DEF OnError, AddonSteps, UpdateSteps, PrepareSteps
  <2> QED
    BY <2>1, <2>2, AddonPlan DEF S
<1>2. CASE s \notin AddonSteps
  <2>1. Planned(s) = DetachCalls /\ Len(DetachCalls) = 4 /\ CommandOf(s) = "detach"
    BY <1>2 DEF Planned, DetachCalls, CommandOf
  <2>2. Place[s][1] \in 1..4
    BY <1>2, <2>1, PlannedCall
  <2>3. Place[s][1] = 4 <=> s = "deleteEdgeInfo"
    BY <1>2 DEF Place, Steps, DetachSteps, RecoverSteps, CertSteps
  <2> QED
    BY <2>1, <2>2, <2>3, DetachPlan DEF S, OnError
<1> QED
  BY <1>1, <1>2

----------------------------------------------------------------------------
(***************************************************************************)
(* The history goes with the command.                                      *)
(***************************************************************************)
HistoryInv ==
  /\ Step # Idle => run[Operator] = [command |-> CommandOf(Step), outcome |-> "running"]
  /\ Step = Idle => run[Operator].outcome # "running"
  /\ failed \in Nat /\ failed + Count(Step # Idle) <= runs
  /\ calm \in BOOLEAN
PlannedInv == Progress /\ HistoryInv

LEMMA StepTyped ==
  ASSUME Progress
  PROVE  Step \in Steps /\ run[Operator] \in Runs /\ Operator \in Clients
BY OperatorAssumption DEF Progress, TypeInv, TypeOK, ClientOK, Step

LEMMA ThisCallIs ==
  ASSUME PlannedInv, Step # Idle
  PROVE  /\ Runner!Running
         /\ Runner!ThisStage = PlanOf[Of(CommandOf(Step))][Place[Step][1]]
         /\ Runner!ThisStage.parts = << Planned(Step)[Place[Step][1]] >>
         /\ Runner!ThisStage.onError = OnError(Step)
         /\ Runner!ThisCall = CallOf(Step)
<1>1. Step \in Steps \ {Idle}
  BY StepTyped DEF PlannedInv
<1>2. run[Operator].command = CommandOf(Step) /\ run[Operator].outcome = "running"
  BY DEF PlannedInv, HistoryInv
<1>3. run[Operator].command # "none"
  BY <1>2 DEF CommandOf
<1>4. Runner!Running
  BY <1>2 DEF Runner!Running
<1>5. Runner!ThisStage = PlanOf[Of(CommandOf(Step))][Place[Step][1]]
  BY <1>2, <1>3 DEF Runner!ThisStage
<1>6. Runner!ThisStage.parts = << Planned(Step)[Place[Step][1]] >>
  BY <1>1, <1>5, PlanIs, PlannedCall
<1>7. Runner!ThisStage.onError = OnError(Step)
  BY <1>1, <1>5, PlanIs
<1>8. Runner!ThisCall = CallOf(Step)
  BY <1>1, <1>6, PlannedCall DEF Runner!ThisCall, Count
<1> QED
  BY <1>4, <1>5, <1>6, <1>7, <1>8

(***************************************************************************)
(* What the objects are, and become, as documents.                         *)
(***************************************************************************)
LEMMA FoundIs ==
  /\ \A o \in Documented : DocumentOf[o] \in Found <=> There(o)
  /\ \A o \in Documented : DocumentOf[o] \in Found' <=> There(o)'
  /\ EdgeNamespace \in Found /\ EdgeNamespace \in Found'
  /\ W!EdgeNodes \notin Found /\ W!EdgeNodes \notin Found'
BY DocumentsDiffer DEF Found, Documented

LEMMA DocumentsAre ==
  /\ \A o \in Documented : DocumentOf[o] \in Documents
  /\ EdgeNamespace \in Documents /\ W!EdgeNodes \in Documents
  /\ \A d \in Documents : \/ d = EdgeNamespace \/ d = W!EdgeNodes
                          \/ \E o \in Documented : d = DocumentOf[o]
BY DEF Documents, Documented

Same == \A o \in Documented : There(o)' <=> There(o)
Makes(o) == There(o)' /\ \A p \in Documented \ {o} : There(p)' <=> There(p)
Takes(o) == ~There(o)' /\ \A p \in Documented \ {o} : There(p)' <=> There(p)

LEMMA DocumentsKept ==
  ASSUME Same, written' = written
  PROVE  documents' = documents
<1>1. \A d \in Documents : d \in Found' <=> d \in Found
  BY FoundIs, DocumentsAre DEF Same
<1> QED
  BY <1>1 DEF documents

LEMMA DocumentMade ==
  ASSUME NEW o \in Documented, Makes(o), written' = written \cup {DocumentOf[o]}
  PROVE  documents' = [documents EXCEPT ![DocumentOf[o]] = "new"]
<1>1. DocumentOf[o] \in Documents /\ DocumentOf[o] \in Found'
  BY FoundIs, DocumentsAre DEF Makes
<1>2. \A d \in Documents \ {DocumentOf[o]} : d \in Found' <=> d \in Found
  BY FoundIs, DocumentsAre DEF Makes
<1> QED
  BY <1>1, <1>2 DEF documents

LEMMA DocumentTaken ==
  ASSUME NEW o \in Documented, Takes(o), written' = written
  PROVE  documents' = [documents EXCEPT ![DocumentOf[o]] = "none"]
<1>1. DocumentOf[o] \in Documents /\ DocumentOf[o] \notin Found'
  BY FoundIs, DocumentsAre DEF Takes
<1>2. \A d \in Documents \ {DocumentOf[o]} : d \in Found' <=> d \in Found
  BY FoundIs, DocumentsAre DEF Takes
<1> QED
  BY <1>1, <1>2 DEF documents

LEMMA NamespaceMade ==
  ASSUME Same, written' = written \cup {EdgeNamespace}
  PROVE  documents' = [documents EXCEPT ![EdgeNamespace] = "new"]
<1>1. EdgeNamespace \in Documents /\ EdgeNamespace \in Found'
  BY FoundIs, DocumentsAre
<1>2. \A d \in Documents : d \in Found' <=> d \in Found
  BY FoundIs, DocumentsAre DEF Same
<1> QED
  BY <1>1, <1>2 DEF documents

LEMMA MissingIs ==
  ASSUME NEW o \in Documented
  PROVE  Runner!Missing(DocumentOf[o]) <=> ~There(o)
BY FoundIs, DocumentsAre DEF Runner!Missing, documents

LEMMA PresentIs == Runner!Present = Found
<1>1. DOMAIN documents = Documents
  BY DEF documents
<1>2. Found \subseteq Documents
  BY DocumentsAre DEF Found, Documented
<1>3. \A d \in Documents : documents[d] # "none" <=> d \in Found
  BY DEF documents
<1> QED
  BY <1>1, <1>2, <1>3 DEF Runner!Present

LEMMA AllHoused ==
  /\ \A o \in Documented : Runner!Housed(DocumentOf[o])
  /\ Runner!Housed(EdgeNamespace)
<1>1. Runner!Housed(EdgeNamespace)
  BY EdgeNamespaceIs DEF Runner!Housed, Runner!AlwaysThere
<1>2. EdgeNamespace \in Runner!Present
  BY PresentIs, FoundIs
<1>3. ASSUME NEW o \in Documented PROVE Runner!Housed(DocumentOf[o])
  <2>1. DocumentOf[o].ns \in {"default", "kube-system", "edge-system"}
    BY NamespacesAre, DocumentedIs
  <2>2. DocumentOf[o].ns = "edge-system" => Runner!Home(DocumentOf[o]) = EdgeNamespace
    BY EdgeNamespaceIs DEF Runner!Home
  <2> QED
    BY <1>2, <2>1, <2>2 DEF Runner!Housed, Runner!AlwaysThere
<1> QED
  BY <1>1, <1>3

----------------------------------------------------------------------------
(***************************************************************************)
(* From one call of the plan to the next.                                  *)
(***************************************************************************)
NextOf ==
  [ createCM |-> "createSA", createSA |-> "getDS", createDS |-> "patchProxy",
    patchProxy |-> "patchEdge", backupEndpoint |-> "updateEndpoint",
    updateEndpoint |-> "getSlice", updateSlice |-> "createRole",
    createRole |-> "createRoleBinding", createRoleBinding |-> "getEdgeInfo",
    putEdgeInfo |-> Idle,
    checkNodes |-> "deleteDS", deleteDS |-> "deleteCM", deleteCM |-> "deleteSA",
    deleteSA |-> "recoverProxy", recoverProxy |-> "getBackup", getBackup |-> "deleteEndpoint",
    deleteEndpoint |-> "createEndpoint", deleteBackup |-> "deleteRole",
    deleteRole |-> "deleteRoleBinding", deleteRoleBinding |-> "deleteEdgeInfo",
    deleteEdgeInfo |-> Idle ]
PlanSteps == DOMAIN NextOf

LEMMA NextOfIs ==
  /\ NextOf["createCM"] = "createSA" /\ NextOf["createSA"] = "getDS"
  /\ NextOf["createDS"] = "patchProxy" /\ NextOf["patchProxy"] = "patchEdge"
  /\ NextOf["backupEndpoint"] = "updateEndpoint" /\ NextOf["updateEndpoint"] = "getSlice"
  /\ NextOf["updateSlice"] = "createRole" /\ NextOf["createRole"] = "createRoleBinding"
  /\ NextOf["createRoleBinding"] = "getEdgeInfo" /\ NextOf["putEdgeInfo"] = Idle
  /\ NextOf["checkNodes"] = "deleteDS" /\ NextOf["deleteDS"] = "deleteCM"
  /\ NextOf["deleteCM"] = "deleteSA" /\ NextOf["deleteSA"] = "recoverProxy"
  /\ NextOf["recoverProxy"] = "getBackup" /\ NextOf["getBackup"] = "deleteEndpoint"
  /\ NextOf["deleteEndpoint"] = "createEndpoint" /\ NextOf["deleteBackup"] = "deleteRole"
  /\ NextOf["deleteRole"] = "deleteRoleBinding" /\ NextOf["deleteRoleBinding"] = "deleteEdgeInfo"
  /\ NextOf["deleteEdgeInfo"] = Idle
BY DEF NextOf

LEMMA PlannedLengths ==
  /\ \A s \in AddonSteps :
       /\ Len(Planned(s)) = 3 /\ Len(Planned(s)[1]) = 6
       /\ Len(Planned(s)[2]) = 1 /\ Len(Planned(s)[3]) = 3
  /\ \A s \in DetachSteps :
       /\ Len(Planned(s)) = 4 /\ Len(Planned(s)[1]) = 1 /\ Len(Planned(s)[2]) = 7
       /\ Len(Planned(s)[3]) = 2 /\ Len(Planned(s)[4]) = 1
<1>1. \A s \in AddonSteps : Planned(s) = AddonCalls
  BY DEF Planned
<1>2. \A s \in DetachSteps : Planned(s) = DetachCalls
  BY DEF Planned, AddonSteps, UpdateSteps, PrepareSteps, DetachSteps, RecoverSteps, CertSteps
<1>3. /\ Len(AddonCalls) = 3 /\ Len(AddonCalls[1]) = 6
      /\ Len(AddonCalls[2]) = 1 /\ Len(AddonCalls[3]) = 3
  BY DEF AddonCalls
<1>4. /\ Len(DetachCalls) = 4 /\ Len(DetachCalls[1]) = 1 /\ Len(DetachCalls[2]) = 7
      /\ Len(DetachCalls[3]) = 2 /\ Len(DetachCalls[4]) = 1
  BY DEF DetachCalls
<1> QED
  BY <1>1, <1>2, <1>3, <1>4

\* The next call of the same stage, the first call of the next stage, the end.
NextCall(s) ==
  /\ NextOf[s] # Idle
  /\ Place[NextOf[s]][1] = Place[s][1] /\ Place[NextOf[s]][2] = Place[s][2] + 1
  /\ Place[s][2] < Len(Planned(s)[Place[s][1]])
LastCall(s) == Place[s][2] = Len(Planned(s)[Place[s][1]])
NextStage(s) ==
  /\ NextOf[s] # Idle /\ LastCall(s)
  /\ Place[NextOf[s]][1] = Place[s][1] + 1 /\ Place[NextOf[s]][2] = 1
  /\ Place[s][1] < Len(Planned(s))
NoMore(s) == NextOf[s] = Idle /\ LastCall(s) /\ Place[s][1] = Len(Planned(s))

LEMMA NextPlace ==
  ASSUME NEW s \in PlanSteps
  PROVE  NextCall(s) \/ NextStage(s) \/ NoMore(s)
<1> USE DEF Idle
<1>1. ASSUME s \in {"createCM", "createSA", "createDS", "patchProxy", "backupEndpoint"}
      PROVE  NextCall(s)
  <2>1. Len(Planned(s)) = 3 /\ Len(Planned(s)[1]) = 6
    BY <1>1, PlannedLengths DEF AddonSteps, UpdateSteps, PrepareSteps
  <2>2. Place[s][1] = 1 /\ Place[s][2] \in 1..5
    BY <1>1, PlaceIs
  <2>3. /\ NextOf[s] # Idle /\ Place[NextOf[s]][1] = 1
        /\ Place[NextOf[s]][2] = Place[s][2] + 1
    BY <1>1, PlaceIs, NextOfIs
  <2>4. Len(Planned(s)[Place[s][1]]) = 6
    BY <2>1, <2>2
  <2>5. Place[s][2] < Len(Planned(s)[Place[s][1]])
    BY <2>2, <2>4
  <2> QED
    BY <2>2, <2>3, <2>5 DEF NextCall
<1>2. ASSUME s \in {"createRole", "createRoleBinding"}
      PROVE  NextCall(s)
  <2>1. Len(Planned(s)) = 3 /\ Len(Planned(s)[3]) = 3
    BY <1>2, PlannedLengths DEF AddonSteps, UpdateSteps, PrepareSteps
  <2>2. Place[s][1] = 3 /\ Place[s][2] \in 1..2
    BY <1>2, PlaceIs
  <2>3. /\ NextOf[s] # Idle /\ Place[NextOf[s]][1] = 3
        /\ Place[NextOf[s]][2] = Place[s][2] + 1
    BY <1>2, PlaceIs, NextOfIs
  <2>4. Len(Planned(s)[Place[s][1]]) = 3
    BY <2>1, <2>2
  <2>5. Place[s][2] < Len(Planned(s)[Place[s][1]])
    BY <2>2, <2>4
  <2> QED
    BY <2>2, <2>3, <2>5 DEF NextCall
<1>3. ASSUME s = "updateEndpoint"
      PROVE  NextStage(s)
  <2>1. Len(Planned(s)) = 3 /\ Len(Planned(s)[1]) = 6
    BY <1>3, PlannedLengths DEF AddonSteps, UpdateSteps, PrepareSteps
  <2>2. Place[s][1] = 1 /\ Place[s][2] = 6
    BY <1>3, PlaceIs
  <2>3. NextOf[s] # Idle /\ Place[NextOf[s]][1] = 2 /\ Place[NextOf[s]][2] = 1
    BY <1>3, PlaceIs, NextOfIs
  <2> QED
    BY <2>1, <2>2, <2>3 DEF NextStage, LastCall
<1>4. ASSUME s = "updateSlice"
      PROVE  NextStage(s)
  <2>1. Len(Planned(s)) = 3 /\ Len(Planned(s)[2]) = 1
    BY <1>4, PlannedLengths DEF AddonSteps, UpdateSteps, PrepareSteps
  <2>2. Place[s][1] = 2 /\ Place[s][2] = 1
    BY <1>4, PlaceIs
  <2>3. NextOf[s] # Idle /\ Place[NextOf[s]][1] = 3 /\ Place[NextOf[s]][2] = 1
    BY <1>4, PlaceIs, NextOfIs
  <2> QED
    BY <2>1, <2>2, <2>3 DEF NextStage, LastCall
<1>5. ASSUME s = "putEdgeInfo"
      PROVE  NoMore(s)
  <2>1. Len(Planned(s)) = 3 /\ Len(Planned(s)[3]) = 3
    BY <1>5, PlannedLengths DEF AddonSteps, UpdateSteps, PrepareSteps
  <2>2. Place[s][1] = 3 /\ Place[s][2] = 3
    BY <1>5, PlaceIs
  <2> QED
    BY <1>5, <2>1, <2>2, NextOfIs DEF NoMore, LastCall
<1>6. ASSUME s \in {"deleteDS", "deleteCM", "deleteSA", "recoverProxy", "getBackup",
                    "deleteEndpoint"}
      PROVE  NextCall(s)
  <2>1. Len(Planned(s)) = 4 /\ Len(Planned(s)[2]) = 7
    BY <1>6, PlannedLengths DEF DetachSteps, RecoverSteps, CertSteps
  <2>2. Place[s][1] = 2 /\ Place[s][2] \in 1..6
    BY <1>6, PlaceIs
  <2>3. /\ NextOf[s] # Idle /\ Place[NextOf[s]][1] = 2
        /\ Place[NextOf[s]][2] = Place[s][2] + 1
    BY <1>6, PlaceIs, NextOfIs
  <2>4. Len(Planned(s)[Place[s][1]]) = 7
    BY <2>1, <2>2
  <2>5. Place[s][2] < Len(Planned(s)[Place[s][1]])
    BY <2>2, <2>4
  <2> QED
    BY <2>2, <2>3, <2>5 DEF NextCall
<1>7. ASSUME s = "deleteRole"
      PROVE  NextCall(s)
  <2>1. Len(Planned(s)) = 4 /\ Len(Planned(s)[3]) = 2
    BY <1>7, PlannedLengths DEF DetachSteps, RecoverSteps, CertSteps
  <2>2. Place[s][1] = 3 /\ Place[s][2] \in 1..1
    BY <1>7, PlaceIs
  <2>3. /\ NextOf[s] # Idle /\ Place[NextOf[s]][1] = 3
        /\ Place[NextOf[s]][2] = Place[s][2] + 1
    BY <1>7, PlaceIs, NextOfIs
  <2>4. Len(Planned(s)[Place[s][1]]) = 2
    BY <2>1, <2>2
  <2>5. Place[s][2] < Len(Planned(s)[Place[s][1]])
    BY <2>2, <2>4
  <2> QED
    BY <2>2, <2>3, <2>5 DEF NextCall
<1>8. ASSUME s = "checkNodes"
      PROVE  NextStage(s)
  <2>1. Len(Planned(s)) = 4 /\ Len(Planned(s)[1]) = 1
    BY <1>8, PlannedLengths DEF DetachSteps, RecoverSteps, CertSteps
  <2>2. Place[s][1] = 1 /\ Place[s][2] = 1
    BY <1>8, PlaceIs
  <2>3. NextOf[s] # Idle /\ Place[NextOf[s]][1] = 2 /\ Place[NextOf[s]][2] = 1
    BY <1>8, PlaceIs, NextOfIs
  <2> QED
    BY <2>1, <2>2, <2>3 DEF NextStage, LastCall
<1>9. ASSUME s = "deleteBackup"
      PROVE  NextStage(s)
  <2>1. Len(Planned(s)) = 4 /\ Len(Planned(s)[2]) = 7
    BY <1>9, PlannedLengths DEF DetachSteps, RecoverSteps, CertSteps
  <2>2. Place[s][1] = 2 /\ Place[s][2] = 7
    BY <1>9, PlaceIs
  <2>3. NextOf[s] # Idle /\ Place[NextOf[s]][1] = 3 /\ Place[NextOf[s]][2] = 1
    BY <1>9, PlaceIs, NextOfIs
  <2> QED
    BY <2>1, <2>2, <2>3 DEF NextStage, LastCall
<1>10. ASSUME s = "deleteRoleBinding"
       PROVE  NextStage(s)
  <2>1. Len(Planned(s)) = 4 /\ Len(Planned(s)[3]) = 2
    BY <1>10, PlannedLengths DEF DetachSteps, RecoverSteps, CertSteps
  <2>2. Place[s][1] = 3 /\ Place[s][2] = 2
    BY <1>10, PlaceIs
  <2>3. NextOf[s] # Idle /\ Place[NextOf[s]][1] = 4 /\ Place[NextOf[s]][2] = 1
    BY <1>10, PlaceIs, NextOfIs
  <2> QED
    BY <2>1, <2>2, <2>3 DEF NextStage, LastCall
<1>11. ASSUME s = "deleteEdgeInfo"
       PROVE  NoMore(s)
  <2>1. Len(Planned(s)) = 4 /\ Len(Planned(s)[4]) = 1
    BY <1>11, PlannedLengths DEF DetachSteps, RecoverSteps, CertSteps
  <2>2. Place[s][1] = 4 /\ Place[s][2] = 1
    BY <1>11, PlaceIs
  <2> QED
    BY <1>11, <2>1, <2>2, NextOfIs DEF NoMore, LastCall
<1> QED
  BY <1>1, <1>2, <1>3, <1>4, <1>5, <1>6, <1>7, <1>8, <1>9, <1>10, <1>11
     DEF PlanSteps, NextOf

\* The command goes on to a step, or is done.
Goes(n) ==
  /\ Step' = n
  /\ run'[Operator] = IF n = Idle THEN Outcome(Operator, "ok") ELSE run[Operator]

LEMMA Advances ==
  ASSUME PlannedInv, Step \in PlanSteps, Goes(NextOf[Step])
  PROVE  Runner!Advance
<1>1. Step # Idle /\ Step \in Steps \ {Idle}
  BY StepTyped DEF PlannedInv, PlanSteps, NextOf, Idle
<1>2. Step' = NextOf[Step]
  BY DEF Goes
<1>3. run[Operator].outcome = "running"
  BY <1>1 DEF PlannedInv, HistoryInv
<1> DEFINE calls == Planned(Step)[Place[Step][1]]
           now == IF run[Operator].command = "none"
                  THEN [app |-> "none", verb |-> "none", levels |-> {}]
                  ELSE Of(run[Operator].command)
<1>4. Len(Runner!ThisStage.parts[Count(Step # Idle)]) = Len(calls)
  BY <1>1, ThisCallIs DEF Count
<1>5. now = Of(CommandOf(Step))
  BY <1>1 DEF PlannedInv, HistoryInv, CommandOf
<1>6. Len(PlanOf[now]) = Len(Planned(Step))
  BY <1>1, <1>5, PlanIs
<1>7. CASE NextCall(Step)
  <2>1. Place[Step'][1] = Place[Step][1] /\ Place[Step'][2] = Place[Step][2] + 1 /\ Step' # Idle
    BY <1>2, <1>7 DEF NextCall
  <2>2. Place[Step][2] < Len(calls)
    BY <1>7 DEF NextCall
  <2>3. run'[Operator].outcome = run[Operator].outcome
    BY <1>2, <2>1 DEF Goes
  <2> QED
    BY <1>1, <1>4, <2>1, <2>2, <2>3 DEF Runner!Advance, Count
<1>8. CASE NextStage(Step)
  <2>1. Place[Step'][1] = Place[Step][1] + 1 /\ Place[Step'][2] = 1 /\ Step' # Idle
    BY <1>2, <1>8 DEF NextStage
  <2>2. Place[Step][2] = Len(calls) /\ Place[Step][1] < Len(Planned(Step))
    BY <1>8 DEF NextStage, LastCall
  <2>3. run'[Operator].outcome = "running"
    BY <1>2, <1>3, <2>1 DEF Goes
  <2>4. Place[Step][1] + 1 \in 1..Len(Planned(Step))
    BY <1>1, <2>2, PlannedCall
  <2>5. DOMAIN PlanOf[now][Place[Step][1] + 1].parts = {1}
    <3>1. PlanOf[now][Place[Step][1] + 1].parts = << Planned(Step)[Place[Step][1] + 1] >>
      BY <1>1, <1>5, <2>4, PlanIs
    <3> HIDE DEF now
    <3>2. DOMAIN << Planned(Step)[Place[Step][1] + 1] >> = {1}
      OBVIOUS
    <3> QED
      BY <3>1, <3>2
  <2>6. Runner!StartStage(now, Place[Step][1] + 1, 1)
    BY <2>1, <2>3, <2>5 DEF Runner!StartStage, Runner!TakePart, Count
  <2>7. Runner!NextStage
    BY <1>6, <2>2, <2>6 DEF Runner!NextStage
  <2> QED
    BY <1>4, <2>2, <2>7 DEF Runner!Advance
<1>9. CASE NoMore(Step)
  <2>1. Step' = Idle /\ Place[Step'][1] = 0 /\ Place[Step'][2] = 0
    BY <1>2, <1>9 DEF NoMore, Place, Idle
  <2>2. Place[Step][2] = Len(calls) /\ Place[Step][1] = Len(Planned(Step))
    BY <1>9 DEF NoMore, LastCall
  <2>3. run'[Operator].outcome = "ok"
    BY <2>1 DEF Goes, Outcome
  <2>4. Runner!Finish("ok")
    BY <2>1, <2>3 DEF Runner!Finish, Count
  <2>5. ~(Place[Step][1] < Len(PlanOf[now]))
    BY <1>1, <1>6, <2>2, PlannedCall
  <2>6. Runner!NextStage
    BY <2>4, <2>5 DEF Runner!NextStage
  <2> QED
    BY <1>4, <2>2, <2>6 DEF Runner!Advance
<1> QED
  BY <1>7, <1>8, <1>9, NextPlace

----------------------------------------------------------------------------
(***************************************************************************)
(* The steps of a command as actions of the runner.                        *)
(***************************************************************************)
LEMMA CallsBySteps ==
  /\ \A s \in CreatingSteps : CallOf(s) = C("create", ObjectAt[s])
  /\ \A s \in PuttingSteps : CallOf(s) = C("put", ObjectAt[s])
  /\ \A s \in DeletingSteps : CallOf(s) = C("delete", ObjectAt[s])
  /\ \A s \in RemovingSteps : CallOf(s) = C("remove", ObjectAt[s])
BY DEF CallOf, CreatingSteps, PuttingSteps, DeletingSteps, RemovingSteps

LEMMA ObjectsBySteps ==
  \A s \in CreatingSteps \cup PuttingSteps \cup DeletingSteps \cup RemovingSteps :
    ObjectAt[s] \in Documented /\ s \in PlanSteps
BY DocumentedIs
   DEF ObjectAt, CreatingSteps, PuttingSteps, DeletingSteps, RemovingSteps, PlanSteps, NextOf

LEMMA WritesBySteps ==
  /\ Step \in CreatingSteps \cup PuttingSteps => Writes = {DocumentOf[ObjectAt[Step]]}
  /\ Step = "updateSlice" => Writes = {EdgeNamespace}
  /\ Step \notin CreatingSteps \cup PuttingSteps \cup {"updateSlice"} => Writes = {}
<1>1. DOMAIN WrittenAt = CreatingSteps \cup PuttingSteps
  BY DEF WrittenAt, CreatingSteps, PuttingSteps
<1>2. \A s \in CreatingSteps \cup PuttingSteps : WrittenAt[s] = ObjectAt[s] /\ s # "updateSlice"
  BY DEF WrittenAt, ObjectAt, CreatingSteps, PuttingSteps
<1> QED
  BY <1>1, <1>2 DEF Writes

LEMMA AcceptsIs ==
  ASSUME NEW call
  PROVE  /\ call.op = "put" => (Runner!Accepts(call) <=> Runner!Housed(call.doc))
         /\ call.op = "create" =>
              (Runner!Accepts(call) <=> Runner!Housed(call.doc) /\ Runner!Missing(call.doc))
         /\ call.op \in {"delete", "await"} => (Runner!Accepts(call) <=> ~Runner!Missing(call.doc))
         /\ call.op \in {"remove", "gate"} => Runner!Accepts(call)
BY DEF Runner!Accepts

LEMMA AfterIs ==
  ASSUME NEW call
  PROVE  /\ call.op \in {"put", "create"} =>
              Runner!After(call) = [documents EXCEPT ![call.doc] = "new"]
         /\ call.op \in {"delete", "remove"} /\ call.doc.kind # "Namespace" =>
              Runner!After(call) = [documents EXCEPT ![call.doc] = "none"]
         /\ call.op \in {"await", "gate"} => Runner!After(call) = documents
BY DEF Runner!After, Runner!Writes, Runner!Deletes, Runner!Without

LEMMA CallFields ==
  /\ \A op : \A o \in Documented : C(op, o).op = op /\ C(op, o).doc = DocumentOf[o]
  /\ Ensure.op = "put" /\ Ensure.doc = EdgeNamespace /\ Gate.op = "gate"
BY DEF C, Ensure, Gate

LEMMA HistoryGoes ==
  ASSUME PlannedInv, Record, Step # Idle, NEW n, n # Step, Goes(n), faults' = faults
  PROVE  /\ before' = before /\ calm' = calm /\ failed' = failed
         /\ written' = written \cup Writes
<1>1. run'[Operator].outcome \in {"running", "ok"}
  BY DEF PlannedInv, HistoryInv, Goes, Outcome
<1>2. GoesOn /\ ~Starts /\ ~Fails
  BY <1>1 DEF GoesOn, Starts, Fails, Goes
<1> QED
  BY <1>2 DEF Record, Count, PlannedInv, HistoryInv

LEMMA CommandKept ==
  ASSUME NEW n, Goes(n)
  PROVE  run'[Operator].command = run[Operator].command
BY DEF Goes, Outcome

LEMMA Performs ==
  ASSUME PlannedInv, Record, Step \in PlanSteps, Goes(NextOf[Step]), faults' = faults,
         Runner!Accepts(CallOf(Step)), documents' = Runner!After(CallOf(Step))
  PROVE  Runner!Perform
<1>1. Step # Idle /\ NextOf[Step] # Step
  BY DEF PlanSteps, NextOf, Idle
<1>2. before' = before /\ calm' = calm /\ failed' = failed
  BY <1>1, HistoryGoes
<1>3. run'[Operator].command = run[Operator].command
  BY CommandKept
<1>4. Runner!Running /\ Runner!ThisCall = CallOf(Step)
  BY <1>1, ThisCallIs
<1>5. Runner!Advance
  BY Advances
<1> QED
  BY <1>2, <1>3, <1>4, <1>5 DEF Runner!Perform

LEMMA CreatePerforms ==
  ASSUME PlannedInv, Record, Step \in CreatingSteps, Goes(NextOf[Step]), faults' = faults,
         ~There(ObjectAt[Step]), Makes(ObjectAt[Step])
  PROVE  Runner!Perform
<1> DEFINE o == ObjectAt[Step]
<1>1. o \in Documented /\ Step \in PlanSteps /\ Step # Idle /\ NextOf[Step] # Step
  BY ObjectsBySteps DEF PlanSteps, NextOf, Idle
<1>2. CallOf(Step) = C("create", o) /\ Writes = {DocumentOf[o]}
  BY CallsBySteps, WritesBySteps
<1>3. Runner!Accepts(C("create", o))
  BY <1>1, AllHoused, MissingIs, AcceptsIs, CallFields
<1>4. documents' = [documents EXCEPT ![DocumentOf[o]] = "new"]
  BY <1>1, <1>2, HistoryGoes, DocumentMade
<1>5. Runner!After(C("create", o)) = [documents EXCEPT ![DocumentOf[o]] = "new"]
  BY <1>1, AfterIs, CallFields
<1> QED
  BY <1>1, <1>2, <1>3, <1>4, <1>5, Performs

LEMMA PutPerforms ==
  ASSUME PlannedInv, Record, Step \in PuttingSteps, Goes(NextOf[Step]), faults' = faults,
         Makes(ObjectAt[Step])
  PROVE  Runner!Perform
<1> DEFINE o == ObjectAt[Step]
<1>1. o \in Documented /\ Step \in PlanSteps /\ Step # Idle /\ NextOf[Step] # Step
  BY ObjectsBySteps DEF PlanSteps, NextOf, Idle
<1>2. CallOf(Step) = C("put", o) /\ Writes = {DocumentOf[o]}
  BY CallsBySteps, WritesBySteps
<1>3. Runner!Accepts(C("put", o))
  BY <1>1, AllHoused, AcceptsIs, CallFields
<1>4. documents' = [documents EXCEPT ![DocumentOf[o]] = "new"]
  BY <1>1, <1>2, HistoryGoes, DocumentMade
<1>5. Runner!After(C("put", o)) = [documents EXCEPT ![DocumentOf[o]] = "new"]
  BY <1>1, AfterIs, CallFields
<1> QED
  BY <1>1, <1>2, <1>3, <1>4, <1>5, Performs

LEMMA EnsurePerforms ==
  ASSUME PlannedInv, Record, Step = "updateSlice", Goes(NextOf[Step]), faults' = faults, Same
  PROVE  Runner!Perform
<1>1. Step \in PlanSteps /\ Step # Idle /\ NextOf[Step] # Step
  BY DEF PlanSteps, NextOf, Idle
<1>2. CallOf(Step) = Ensure /\ Writes = {EdgeNamespace}
  BY CallOfIs, WritesBySteps
<1>3. Runner!Accepts(Ensure)
  BY AllHoused, AcceptsIs, CallFields
<1>4. documents' = [documents EXCEPT ![EdgeNamespace] = "new"]
  BY <1>1, <1>2, HistoryGoes, NamespaceMade
<1>5. Runner!After(Ensure) = [documents EXCEPT ![EdgeNamespace] = "new"]
  BY AfterIs, CallFields
<1> QED
  BY <1>1, <1>2, <1>3, <1>4, <1>5, Performs

LEMMA DeletePerforms ==
  ASSUME PlannedInv, Record, Step \in DeletingSteps \cup RemovingSteps,
         Goes(NextOf[Step]), faults' = faults,
         Step \in DeletingSteps => There(ObjectAt[Step]), Takes(ObjectAt[Step])
  PROVE  Runner!Perform
<1> DEFINE o == ObjectAt[Step]
<1>1. o \in Documented /\ Step \in PlanSteps /\ Step # Idle /\ NextOf[Step] # Step
  BY ObjectsBySteps DEF PlanSteps, NextOf, Idle
<1>2. Writes = {}
  BY WritesBySteps
     DEF CreatingSteps, PuttingSteps, DeletingSteps, RemovingSteps
<1>3. documents' = [documents EXCEPT ![DocumentOf[o]] = "none"]
  BY <1>1, <1>2, HistoryGoes, DocumentTaken
<1>4. DocumentOf[o].kind # "Namespace"
  BY <1>1, FieldsAre, DocumentedIs
<1>5. CallOf(Step) = C("delete", o) \/ CallOf(Step) = C("remove", o)
  BY CallsBySteps
<1>6. Runner!After(CallOf(Step)) = [documents EXCEPT ![DocumentOf[o]] = "none"]
  BY <1>1, <1>4, <1>5, AfterIs, CallFields
<1>7. Runner!Accepts(CallOf(Step))
  <2>1. CASE Step \in DeletingSteps
    BY <1>1, <2>1, CallsBySteps, MissingIs, AcceptsIs, CallFields
  <2>2. CASE Step \in RemovingSteps
    BY <1>1, <2>2, CallsBySteps, AcceptsIs, CallFields
  <2> QED
    BY <2>1, <2>2
<1> QED
  BY <1>1, <1>3, <1>6, <1>7, Performs

\* The gate, and the Get of the backup.
LEMMA LookPerforms ==
  ASSUME PlannedInv, Record, Step \in {"checkNodes", "getBackup"}, Goes(NextOf[Step]),
         faults' = faults, Step = "getBackup" => There("backup"), Same
  PROVE  Runner!Perform
<1>1. Step \in PlanSteps /\ Step # Idle /\ NextOf[Step] # Step
  BY DEF PlanSteps, NextOf, Idle
<1>2. Writes = {}
  BY WritesBySteps DEF CreatingSteps, PuttingSteps
<1>3. documents' = documents
  BY <1>1, <1>2, HistoryGoes, DocumentsKept
<1>4. CallOf(Step) = IF Step = "checkNodes" THEN Gate ELSE C("await", "backup")
  BY CallOfIs
<1>5. Runner!After(CallOf(Step)) = documents
  BY <1>4, AfterIs, CallFields, DocumentedIs
<1>6. Runner!Accepts(CallOf(Step))
  BY <1>4, MissingIs, DocumentedIs, AcceptsIs, CallFields
<1> QED
  BY <1>1, <1>3, <1>5, <1>6, Performs

LEMMA IdlePlace == Place[Idle][1] = 0 /\ Place[Idle][2] = 0
BY DEF Place, Idle

LEMMA FinishIs ==
  ASSUME NEW how, Step' = Idle, run'[Operator].outcome = how
  PROVE  Runner!Finish(how)
BY IdlePlace DEF Runner!Finish, Count

\* A call that fails: refused because of what the cluster holds, or by itself.
LEMMA ErrorEnds ==
  ASSUME PlannedInv, Record, Step \notin {Idle, "checkNodes", "deleteEdgeInfo"},
         Step' = Idle, run'[Operator] = Outcome(Operator, "error"), Same
  PROVE  Runner!Refused \/ Runner!Fault
<1>1. run'[Operator].outcome = "error" /\ run'[Operator].command = run[Operator].command
  BY DEF Outcome
<1>2. ~GoesOn /\ ~Starts
  BY <1>1 DEF GoesOn, Starts
<1>3. before' = before /\ documents' = documents
  BY <1>2, DocumentsKept DEF Record
<1>4. Runner!Running /\ Runner!ThisCall = CallOf(Step) /\ Runner!ThisStage.onError = "return"
  BY ThisCallIs DEF OnError
<1>5. Runner!GiveUp
  BY <1>1, <1>4, FinishIs DEF Runner!GiveUp
<1>6. Fails <=> Runner!Accepts(Runner!ThisCall)
  BY <1>1 DEF Fails
<1>7. CASE ~Runner!Accepts(Runner!ThisCall)
  <2>1. calm' = calm /\ failed' = failed
    BY <1>2, <1>6, <1>7 DEF Record, Count, PlannedInv, HistoryInv
  <2> QED
    BY <1>1, <1>3, <1>4, <1>5, <1>7, <2>1 DEF Runner!Refused
<1>8. CASE Runner!Accepts(Runner!ThisCall)
  <2>1. calm' = FALSE /\ failed' = failed + 1
    BY <1>2, <1>6, <1>8 DEF Record, Count, PlannedInv, HistoryInv
  <2>2. failed < MaxRuns
    BY BoundsAssumption
       DEF PlannedInv, HistoryInv, Count, Progress, TypeInv, TypeOK, BoundsOK
  <2>3. Runner!CountFault
    BY <2>1, <2>2 DEF Runner!CountFault
  <2>4. CallOf(Step).op \in {"create", "put", "delete", "remove", "await"}
    BY CallFields, StepTyped, CallOfIs, DocumentedIs
       DEF PlannedInv, Steps, AddonSteps, UpdateSteps, PrepareSteps, DetachSteps, RecoverSteps,
       CertSteps
  <2> QED
    BY <1>1, <1>3, <1>4, <1>5, <2>3, <2>4 DEF Runner!Fault, Runner!Fails, Runner!TriedAgain
<1> QED
  BY <1>7, <1>8

\* Edge nodes are left, or could not be listed.
LEMMA GateDeclines ==
  ASSUME PlannedInv, Record, Step = "checkNodes",
         Step' = Idle, run'[Operator] = Outcome(Operator, "refused"), Same
  PROVE  Runner!Decline
<1>1. run'[Operator].outcome = "refused" /\ run'[Operator].command = run[Operator].command
  BY DEF Outcome
<1>2. ~GoesOn /\ ~Starts /\ ~Fails /\ Step # Idle
  BY <1>1 DEF GoesOn, Starts, Fails, Idle
<1>3. before' = before /\ documents' = documents /\ calm' = calm /\ failed' = failed
  BY <1>2, DocumentsKept DEF Record, Count, PlannedInv, HistoryInv
<1>4. Runner!Running /\ Runner!ThisCall.op = "gate"
  BY <1>2, ThisCallIs, CallOfIs, CallFields
<1> QED
  BY <1>1, <1>3, <1>4, FinishIs DEF Runner!Decline

\* The error of the last Delete is thrown away.
LEMMA EdgeInfoFails ==
  ASSUME PlannedInv, Record, Step = "deleteEdgeInfo", faults' # faults,
         Step' = Idle, run'[Operator] = Outcome(Operator, "ok"), Same
  PROVE  Runner!Fault
<1>1. run'[Operator].outcome = "ok" /\ run'[Operator].command = run[Operator].command
  BY DEF Outcome
<1>2. GoesOn /\ ~Starts /\ Fails /\ Step # Idle /\ Step \in Steps \ {Idle}
  BY <1>1, StepTyped DEF GoesOn, Starts, Fails, Idle, PlannedInv
<1>3. written' = written
  BY <1>2, WritesBySteps DEF Record, CreatingSteps, PuttingSteps
<1>4. before' = before /\ documents' = documents /\ calm' = FALSE /\ failed' = failed + 1
  BY <1>2, <1>3, DocumentsKept DEF Record, Count, PlannedInv, HistoryInv
<1>5. failed < MaxRuns
  BY <1>2, BoundsAssumption
     DEF PlannedInv, HistoryInv, Count, Progress, TypeInv, TypeOK, BoundsOK
<1>6. Runner!Running /\ Runner!ThisCall.op = "remove" /\ Runner!ThisStage.onError = "drop"
  BY <1>2, ThisCallIs, CallOfIs, CallFields, DocumentedIs DEF OnError
<1> DEFINE now == IF run[Operator].command = "none"
                  THEN [app |-> "none", verb |-> "none", levels |-> {}]
                  ELSE Of(run[Operator].command)
<1>7. now = Of(CommandOf(Step))
  BY <1>2 DEF PlannedInv, HistoryInv, CommandOf
<1>8. Place[Step][1] = 4 /\ Len(Planned(Step)) = 4
  BY PlaceIs, PlannedLengths DEF DetachSteps, CertSteps
<1>9. ~(Place[Step][1] < Len(PlanOf[now]))
  <2>1. Len(PlanOf[now]) = Len(Planned(Step))
    BY <1>2, <1>7, PlanIs
  <2> QED
    BY <1>8, <2>1
<1>10. Runner!NextStage
  BY <1>1, <1>9, FinishIs DEF Runner!NextStage
<1>11. Runner!GiveUp
  BY <1>6, <1>10 DEF Runner!GiveUp
<1>12. Runner!CountFault
  BY <1>4, <1>5 DEF Runner!CountFault
<1> QED
  BY <1>1, <1>4, <1>6, <1>11, <1>12 DEF Runner!Fault, Runner!Fails, Runner!TriedAgain

\* A Get, and what only the plan's other model sees.
LEMMA SilentStutters ==
  ASSUME PlannedInv, Record, Step \in SilentSteps, NEW n \in Steps \ {Idle}, Goes(n), n # Step,
         Place[n][1] = Place[Step][1], Place[n][2] = Place[Step][2], faults' = faults, Same
  PROVE  UNCHANGED Runner!vars
<1>1. Step # Idle
  BY DEF SilentSteps, Idle
<1>2. Writes = {}
  BY WritesBySteps DEF SilentSteps, CreatingSteps, PuttingSteps
<1>3. before' = before /\ documents' = documents /\ calm' = calm /\ failed' = failed
  BY <1>1, <1>2, HistoryGoes, DocumentsKept
<1>4. Step' = n /\ run'[Operator] = run[Operator]
  BY DEF Goes
<1> QED
  BY <1>1, <1>3, <1>4 DEF Runner!vars, Runner!position, Count

LEMMA OthersStutter ==
  ASSUME PlannedInv, Record, Step' = Step, run'[Operator] = run[Operator], faults' = faults, Same
  PROVE  UNCHANGED Runner!vars
<1>1. ~GoesOn /\ ~Starts /\ ~Fails
  BY DEF GoesOn, Starts, Fails, PlannedInv, HistoryInv
<1>2. before' = before /\ documents' = documents /\ calm' = calm /\ failed' = failed
  BY <1>1, DocumentsKept DEF Record, Count, PlannedInv, HistoryInv
<1> QED
  BY <1>2 DEF Runner!vars, Runner!position

LEMMA StartStarts ==
  ASSUME PlannedInv, Record, NEW command \in {"addon", "detach"}, Step = Idle,
         Step' = IF command = "addon" THEN "createCM" ELSE "checkNodes",
         run'[Operator] = [command |-> command, outcome |-> "running"], faults' = faults, Same
  PROVE  Runner!Next
<1>1. Starts /\ ~Fails
  BY DEF Starts, Fails, Idle
<1>2. before' = Found /\ written' = {} /\ calm' = TRUE /\ failed' = failed
  BY <1>1 DEF Record, Count, PlannedInv, HistoryInv
<1>3. documents' = [d \in Documents |-> IF documents[d] = "new" THEN "old" ELSE documents[d]]
  <2>1. \A d \in Documents : d \in Found' <=> d \in Found
    BY FoundIs, DocumentsAre DEF Same
  <2> QED
    BY <1>2, <2>1 DEF documents
<1>4. DOMAIN documents = Documents
  BY DEF documents
<1>5. ~Runner!Running /\ Of(command).app = "edge-apps"
  BY DEF Runner!Running, PlannedInv, HistoryInv, Of
<1>6. Step' # Idle /\ Step' \in Steps \ {Idle} /\ CommandOf(Step') = command
  BY DEF Idle, Steps, AddonSteps, UpdateSteps, PrepareSteps, DetachSteps, CommandOf,
     RecoverSteps, CertSteps
<1>7. Place[Step'][1] = 1 /\ Place[Step'][2] = 1
  BY PlaceIs
<1>8. DOMAIN PlanOf[Of(command)][1].parts = {1}
  <2>1. PlanOf[Of(command)][1].parts = << Planned(Step')[1] >>
    BY <1>6, <1>7, PlanIs, PlannedCall
  <2>2. DOMAIN << Planned(Step')[1] >> = {1}
    OBVIOUS
  <2> QED
    BY <2>1, <2>2
<1>9. Runner!StartStage(Of(command), 1, 1)
  BY <1>6, <1>7, <1>8 DEF Runner!StartStage, Runner!TakePart, Count
<1>10. run'[Operator].command = command /\ command # "none"
  OBVIOUS
<1>11. Runner!Start(Of(command))
  BY <1>2, <1>3, <1>4, <1>5, <1>9, <1>10, PresentIs DEF Runner!Start
<1>12. Of(command) \in Runner!Command
  BY DEF Runner!Command, PlanOf
<1> QED
  BY <1>11, <1>12 DEF Runner!Next

----------------------------------------------------------------------------
(***************************************************************************)
(* Every step of KubeConfigSwitch is one of these.                         *)
(***************************************************************************)
Errs == Step' = Idle /\ run'[Operator] = Outcome(Operator, "error") /\ api' = api
Puts(o, v, n) == Goes(n) /\ api' = [api EXCEPT ![o] = v]
Looks(n) == Goes(n) /\ api' = api

LEMMA VerbsAre ==
  ASSUME Progress, NEW o, NEW v, NEW n
  PROVE  /\ Create(Operator, o, v, n) => (api[o] = Absent /\ Puts(o, v, n)) \/ Errs
         /\ Patch(Operator, o, TRUE, v, n) => Puts(o, v, n)
         /\ \A b : Patch(Operator, o, b, v, n) => (b /\ Puts(o, v, n)) \/ Errs
         /\ Delete(Operator, o, n) => (api[o] # Absent /\ Puts(o, Absent, n)) \/ Errs
         /\ DeleteIfAny(Operator, o, n) => Puts(o, Absent, n)
         /\ Update(Operator, v, n) => Puts(copy[Operator].object, v, n) \/ Errs
         /\ Read(Operator, o, n) => Looks(n)
         /\ Get(Operator, o, n) => (api[o] # Absent /\ Looks(n)) \/ Errs
<1>1. \A m : Continue(Operator, m) => Goes(m)
  BY StepTyped DEF Continue, Goes, Progress, TypeInv, TypeOK, ClientOK, Step
<1>2. Fail(Operator) => Errs
  BY StepTyped DEF Fail, Return, Errs, Progress, TypeInv, TypeOK, ClientOK, Step
<1> QED
  BY <1>1, <1>2 DEF Create, Patch, Delete, DeleteIfAny, Update, Read, Get, Write, Puts, Looks

LEMMA LooksSame == api' = api => Same
BY DEF Same, There

\* There, object by object.
LEMMA ThereIs ==
  ASSUME NEW o \in Documented
  PROVE  /\ o \notin {"kubeProxy", "kubernetes"} => (There(o) <=> api[o] # Absent)
         /\ There("kubeProxy") <=> api["kubeProxy"] # "none"
         /\ There("kubernetes") <=> api["kubernetes"] = "edge"
BY DEF There

LEMMA PutsMakes ==
  ASSUME Progress, NEW o \in Documented, NEW v, NEW n, Puts(o, v, n)
  PROVE  /\ (IF o = "kubeProxy" THEN v # "none" ELSE IF o = "kubernetes" THEN v = "edge"
             ELSE v # Absent) => Makes(o)
         /\ (IF o = "kubeProxy" THEN v = "none" ELSE IF o = "kubernetes" THEN v # "edge"
             ELSE v = Absent) => Takes(o)
<1>1. o \in Objects
  BY DocumentedIs DEF Objects, Flags
<1>2. api'[o] = v /\ \A p \in Documented \ {o} : api'[p] = api[p]
  BY <1>1, DocumentedIs DEF Puts, Progress, TypeInv, TypeOK, ApiOK, Objects, Flags
<1>3. \A p \in Documented \ {o} : There(p)' <=> There(p)
  BY <1>2 DEF There
<1> QED
  BY <1>2, <1>3 DEF Makes, Takes, There

(***************************************************************************)
(* A step of the switch follows the plan, and the history goes with it.    *)
(***************************************************************************)
Follows == [Runner!Next]_(Runner!vars) /\ HistoryInv'

LEMMA HistoryGoesOn ==
  ASSUME PlannedInv, Record, Step # Idle, NEW n, n # Step, n # Idle, Goes(n),
         CommandOf(n) = CommandOf(Step), faults' = faults, runs' = runs
  PROVE  HistoryInv'
<1>1. Step' = n /\ run'[Operator] = run[Operator]
  BY DEF Goes
<1>2. ~Starts /\ ~Fails
  BY <1>1 DEF Starts, Fails, PlannedInv, HistoryInv
<1>3. failed' = failed /\ calm' = calm
  BY <1>2 DEF Record, Count, PlannedInv, HistoryInv
<1> QED
  BY <1>1, <1>3 DEF PlannedInv, HistoryInv, Count

LEMMA HistoryEnds ==
  ASSUME PlannedInv, Record, Step # Idle, Step' = Idle, run'[Operator].outcome # "running",
         runs' = runs
  PROVE  HistoryInv'
<1>1. ~Starts /\ runs \in Nat
  BY BoundsAssumption DEF Starts, PlannedInv, Progress, TypeInv, TypeOK, BoundsOK
<1>2. failed' \in Nat /\ failed' <= runs'
  BY <1>1 DEF PlannedInv, HistoryInv, Record, Count
<1>3. calm' \in BOOLEAN
  BY <1>1 DEF Record
<1> QED
  BY <1>2, <1>3 DEF HistoryInv, Count

LEMMA HistoryStays ==
  ASSUME PlannedInv, Record, Step' = Step, run'[Operator] = run[Operator], runs' = runs,
         faults' = faults
  PROVE  HistoryInv'
<1>1. ~Starts /\ ~Fails
  BY DEF Starts, Fails, PlannedInv, HistoryInv
<1>2. failed' = failed /\ calm' = calm
  BY <1>1 DEF Record, Count, PlannedInv, HistoryInv
<1> QED
  BY <1>2 DEF PlannedInv, HistoryInv

LEMMA HistoryStarts ==
  ASSUME PlannedInv, Record, Step = Idle, Step' # Idle, runs' = runs + 1,
         run'[Operator] = [command |-> CommandOf(Step'), outcome |-> "running"]
  PROVE  HistoryInv'
<1>1. (Starts /\ ~Fails) \/ Step = "deleteEdgeInfo"
  BY DEF Starts, Fails
<1>2. Starts /\ ~Fails /\ runs \in Nat
  BY <1>1, BoundsAssumption DEF Idle, PlannedInv, Progress, TypeInv, TypeOK, BoundsOK
<1>3. failed' = failed /\ calm' = TRUE
  BY <1>2 DEF Record, Count, PlannedInv, HistoryInv
<1> QED
  BY <1>2, <1>3 DEF PlannedInv, HistoryInv, Count

\* The steps that are calls of the plan, by verb.
LEMMA NextOfKind ==
  \A s \in PlanSteps :
    /\ s # Idle /\ NextOf[s] # s
    /\ NextOf[s] # Idle => CommandOf(NextOf[s]) = CommandOf(s)
BY DEF PlanSteps, NextOf, Idle, CommandOf, AddonSteps, UpdateSteps, PrepareSteps

LEMMA HistoryNext ==
  ASSUME PlannedInv, Record, Step \in PlanSteps, Goes(NextOf[Step]), runs' = runs,
         faults' = faults
  PROVE  HistoryInv'
<1>1. CASE NextOf[Step] = Idle
  <2>1. Step' = Idle /\ run'[Operator].outcome = "ok"
    BY <1>1 DEF Goes, Outcome
  <2> QED
    BY <2>1, NextOfKind, HistoryEnds
<1>2. CASE NextOf[Step] # Idle
  BY <1>2, NextOfKind, HistoryGoesOn
<1> QED
  BY <1>1, <1>2

LEMMA ErrsFollow ==
  ASSUME PlannedInv, Record, Step \notin {Idle, "checkNodes", "deleteEdgeInfo"}, Errs,
         runs' = runs
  PROVE  Follows
<1>1. run'[Operator].outcome # "running"
  BY DEF Errs, Outcome
<1>2. HistoryInv'
  BY <1>1, HistoryEnds DEF Errs
<1> QED
  BY <1>2, ErrorEnds, LooksSame DEF Errs, Follows, Runner!Next, Runner!Step

LEMMA PerformFollows ==
  ASSUME PlannedInv, Record, Step \in PlanSteps, Goes(NextOf[Step]), runs' = runs,
         faults' = faults, Runner!Perform
  PROVE  Follows
BY HistoryNext DEF Follows, Runner!Next, Runner!Step

LEMMA CreateFollows ==
  ASSUME PlannedInv, Record, Step \in CreatingSteps, runs' = runs, faults' = faults,
         NEW v, v # Absent, Create(Operator, ObjectAt[Step], v, NextOf[Step])
  PROVE  Follows
<1> DEFINE o == ObjectAt[Step]
<1>1. /\ o \in Documented \ {"kubeProxy", "kubernetes"} /\ Step \in PlanSteps
      /\ Step \notin {Idle, "checkNodes", "deleteEdgeInfo"}
  BY ObjectsBySteps DEF CreatingSteps, ObjectAt, Idle
<1>2. CASE Errs
  BY <1>1, <1>2, ErrsFollow
<1>3. CASE api[o] = Absent /\ Puts(o, v, NextOf[Step])
  <2>1. Goes(NextOf[Step]) /\ ~There(o) /\ Makes(o)
    BY <1>1, <1>3, ThereIs, PutsMakes DEF Puts, PlannedInv
  <2>2. Runner!Perform
    BY <2>1, CreatePerforms
  <2> QED
    BY <1>1, <2>1, <2>2, PerformFollows
<1> QED
  BY <1>2, <1>3, VerbsAre DEF PlannedInv

LEMMA PutFollows ==
  ASSUME PlannedInv, Record, Step \in PuttingSteps, runs' = runs, faults' = faults,
         NEW v, Puts(ObjectAt[Step], v, NextOf[Step]),
         v = IF Step = "patchProxy" THEN "noedge"
             ELSE IF Step = "updateEndpoint" THEN "edge" ELSE "present"
  PROVE  Follows
<1> DEFINE o == ObjectAt[Step]
<1>1. o \in Documented /\ Step \in PlanSteps
  BY ObjectsBySteps
<1>2. \/ Step = "patchProxy" /\ o = "kubeProxy" /\ v = "noedge"
      \/ Step = "updateEndpoint" /\ o = "kubernetes" /\ v = "edge"
      \/ Step = "putEdgeInfo" /\ o = "edgeInfo" /\ v = "present"
  BY DEF PuttingSteps, ObjectAt
<1>3. Goes(NextOf[Step]) /\ Makes(o)
  BY <1>1, <1>2, PutsMakes DEF Puts, PlannedInv, Absent
<1>4. Runner!Perform
  BY <1>3, PutPerforms
<1> QED
  BY <1>1, <1>3, <1>4, PerformFollows

LEMMA DeleteFollows ==
  ASSUME PlannedInv, Record, Step \in DeletingSteps \cup RemovingSteps, runs' = runs,
         faults' = faults, NEW v,
         v = IF Step = "recoverProxy" THEN "none" ELSE Absent,
         Puts(ObjectAt[Step], v, NextOf[Step]),
         Step \in DeletingSteps => There(ObjectAt[Step])
  PROVE  Follows
<1> DEFINE o == ObjectAt[Step]
<1>1. o \in Documented /\ Step \in PlanSteps
  BY ObjectsBySteps
<1>2. IF o = "kubeProxy" THEN v = "none" ELSE v = Absent
  BY DEF DeletingSteps, RemovingSteps, ObjectAt
<1>3. Goes(NextOf[Step]) /\ Takes(o)
  BY <1>1, <1>2, PutsMakes DEF Puts, PlannedInv, Absent
<1>4. Runner!Perform
  BY <1>3, DeletePerforms
<1> QED
  BY <1>1, <1>3, <1>4, PerformFollows

LEMMA SilentFollows ==
  ASSUME PlannedInv, Record, Step \in SilentSteps, NEW n \in Steps \ {Idle}, Goes(n), n # Step,
         Place[n][1] = Place[Step][1], Place[n][2] = Place[Step][2],
         CommandOf(n) = CommandOf(Step), faults' = faults, runs' = runs, Same
  PROVE  Follows
<1>1. Step # Idle
  BY DEF SilentSteps, Idle
<1>2. HistoryInv'
  BY <1>1, HistoryGoesOn
<1> QED
  BY <1>2, SilentStutters DEF Follows

----------------------------------------------------------------------------
(***************************************************************************)
(* The actions.                                                            *)
(***************************************************************************)
LEMMA AtIs ==
  ASSUME NEW s, At(Operator, s)
  PROVE  Step = s /\ runs' = runs /\ faults' = faults
BY DEF At, Step, boundVars

LEMMA SliceIsNoDocument ==
  ASSUME NEW v, api' = [api EXCEPT !["slice"] = v]
  PROVE  Same
<1>1. \A o \in Documented : o # "slice"
  BY DocumentedIs
<1> QED
  BY <1>1 DEF Same, There

LEMMA AffinityPresent ==
  ASSUME Progress
  PROVE  api["kubeProxy"] \in Affinity /\ api["kubeProxy"] # Absent
BY DEF Progress, TypeInv, TypeOK, ApiOK, Affinity, Absent

LEMMA UpdateKubeConfigFollows ==
  ASSUME PlannedInv, Record, UpdateKubeConfig(Operator)
  PROVE  Follows
<1>1. CASE CreateEdgeCM(Operator)
  BY <1>1, AtIs, CreateFollows, NextOfIs DEF CreateEdgeCM, CreatingSteps, ObjectAt, Absent
<1>2. CASE CreateEdgeSA(Operator)
  BY <1>2, AtIs, CreateFollows, NextOfIs DEF CreateEdgeSA, CreatingSteps, ObjectAt, Absent
<1>3. CASE GetKubeProxy(Operator)
  <2>1. Step = "getDS" /\ runs' = runs /\ faults' = faults
    BY <1>3, AtIs DEF GetKubeProxy
  <2>2. Looks("createDS") \/ Errs
    BY <1>3, VerbsAre DEF GetKubeProxy, PlannedInv
  <2>3. CASE Errs
    BY <2>1, <2>3, ErrsFollow DEF Idle
  <2>4. CASE Looks("createDS")
    BY <2>1, <2>4, PlaceIs, LooksSame, SilentFollows
       DEF Looks, SilentSteps, Steps, AddonSteps, UpdateSteps, CommandOf, Idle
  <2> QED
    BY <2>2, <2>3, <2>4
<1>4. CASE CreateEdgeProxy(Operator)
  <2>1. Step = "createDS" /\ runs' = runs /\ faults' = faults
    BY <1>4, AtIs DEF CreateEdgeProxy
  <2>2. copy[Operator].content = api["kubeProxy"]
    BY <2>1, StepTyped DEF PlannedInv, Progress, Safe, UpdateProgress, UpdateAt, Step
  <2>3. Create(Operator, ObjectAt[Step], copy[Operator].content, NextOf[Step])
    BY <1>4, <2>1, NextOfIs DEF CreateEdgeProxy, ObjectAt
  <2> QED
    BY <2>1, <2>2, <2>3, AffinityPresent, CreateFollows DEF CreatingSteps, PlannedInv
<1>5. CASE PatchProxy(Operator)
  <2>1. Step = "patchProxy" /\ runs' = runs /\ faults' = faults
    BY <1>5, AtIs DEF PatchProxy
  <2>2. Puts("kubeProxy", "noedge", "patchEdge")
    BY <1>5, VerbsAre DEF PatchProxy, PlannedInv
  <2> QED
    BY <2>1, <2>2, PutFollows, NextOfIs DEF PuttingSteps, ObjectAt
<1>6. CASE PatchEdgeProxy(Operator)
  <2>1. Step = "patchEdge" /\ runs' = runs /\ faults' = faults
    BY <1>6, AtIs DEF PatchEdgeProxy
  <2>2. (api["edgeProxy"] # Absent /\ Puts("edgeProxy", "edge", "getEndpoint")) \/ Errs
    BY <1>6, VerbsAre DEF PatchEdgeProxy, PlannedInv
  <2>3. CASE Errs
    BY <2>1, <2>3, ErrsFollow DEF Idle
  <2>4. CASE api["edgeProxy"] # Absent /\ Puts("edgeProxy", "edge", "getEndpoint")
    <3>1. Makes("edgeProxy") /\ There("edgeProxy")
      BY <2>4, PutsMakes, ThereIs, DocumentedIs DEF PlannedInv, Absent
    <3>2. Same
      BY <3>1 DEF Same, Makes
    <3> QED
      BY <2>1, <2>4, <3>2, PlaceIs, SilentFollows
         DEF Puts, SilentSteps, Steps, AddonSteps, UpdateSteps, CommandOf, Idle
  <2> QED
    BY <2>2, <2>3, <2>4
<1>7. CASE GetEndpoint(Operator)
  <2>1. Step = "getEndpoint" /\ runs' = runs /\ faults' = faults
    BY <1>7, AtIs DEF GetEndpoint
  <2>2. Looks("backupEndpoint") \/ Errs
    BY <1>7, VerbsAre DEF GetEndpoint, PlannedInv
  <2>3. CASE Errs
    BY <2>1, <2>3, ErrsFollow DEF Idle
  <2>4. CASE Looks("backupEndpoint")
    BY <2>1, <2>4, PlaceIs, LooksSame, SilentFollows
       DEF Looks, SilentSteps, Steps, AddonSteps, UpdateSteps, CommandOf, Idle
  <2> QED
    BY <2>2, <2>3, <2>4
<1>8. CASE BackupEndpoint(Operator)
  <2>1. Step = "backupEndpoint" /\ runs' = runs /\ faults' = faults
    BY <1>8, AtIs DEF BackupEndpoint
  <2>2. copy[Operator].content = api["kubernetes"] /\ api["kubernetes"] # Absent
    BY <2>1, StepTyped DEF PlannedInv, Progress, Safe, UpdateProgress, UpdateAt, Step
  <2>3. Create(Operator, ObjectAt[Step], copy[Operator].content, NextOf[Step])
    BY <1>8, <2>1, NextOfIs DEF BackupEndpoint, ObjectAt
  <2> QED
    BY <2>1, <2>2, <2>3, CreateFollows DEF CreatingSteps
<1>9. CASE UpdateEndpoint(Operator)
  <2>1. Step = "updateEndpoint" /\ runs' = runs /\ faults' = faults
    BY <1>9, AtIs DEF UpdateEndpoint
  <2>2. copy[Operator].object = "kubernetes"
    BY <2>1, StepTyped DEF PlannedInv, Progress, TypeInv, ReadOK, Step
  <2>3. Puts("kubernetes", "edge", "getSlice") \/ Errs
    BY <1>9, <2>2, VerbsAre DEF UpdateEndpoint, PlannedInv
  <2>4. CASE Errs
    BY <2>1, <2>4, ErrsFollow DEF Idle
  <2>5. CASE Puts("kubernetes", "edge", "getSlice")
    BY <2>1, <2>5, PutFollows, NextOfIs DEF PuttingSteps, ObjectAt
  <2> QED
    BY <2>3, <2>4, <2>5
<1>10. CASE GetSlice(Operator)
  <2>1. Step = "getSlice" /\ runs' = runs /\ faults' = faults
    BY <1>10, AtIs DEF GetSlice
  <2>2. Looks("updateSlice") \/ Errs
    BY <1>10, VerbsAre DEF GetSlice, PlannedInv
  <2>3. CASE Errs
    BY <2>1, <2>3, ErrsFollow DEF Idle
  <2>4. CASE Looks("updateSlice")
    BY <2>1, <2>4, PlaceIs, LooksSame, SilentFollows
       DEF Looks, SilentSteps, Steps, AddonSteps, UpdateSteps, CommandOf, Idle
  <2> QED
    BY <2>2, <2>3, <2>4
<1>11. CASE UpdateSlice(Operator)
  <2>1. Step = "updateSlice" /\ runs' = runs /\ faults' = faults
    BY <1>11, AtIs DEF UpdateSlice
  <2>2. copy[Operator].object = "slice"
    BY <2>1, StepTyped DEF PlannedInv, Progress, TypeInv, ReadOK, Step
  <2>3. Puts("slice", "edge", "createRole") \/ Errs
    BY <1>11, <2>2, VerbsAre DEF UpdateSlice, PlannedInv
  <2>4. CASE Errs
    BY <2>1, <2>4, ErrsFollow DEF Idle
  <2>5. CASE Puts("slice", "edge", "createRole")
    <3>1. Same
      BY <2>5, SliceIsNoDocument DEF Puts
    <3>2. Goes(NextOf[Step]) /\ Step \in PlanSteps
      BY <2>1, <2>5, NextOfIs DEF Puts, PlanSteps, NextOf
    <3>3. Runner!Perform
      BY <2>1, <3>1, <3>2, EnsurePerforms
    <3> QED
      BY <2>1, <3>2, <3>3, PerformFollows
  <2> QED
    BY <2>3, <2>4, <2>5
<1> QED
  BY <1>1, <1>2, <1>3, <1>4, <1>5, <1>6, <1>7, <1>8, <1>9, <1>10, <1>11
     DEF UpdateKubeConfig

LEMMA ReturnIs ==
  ASSUME Progress, NEW how, Return(Operator, how)
  PROVE  Step' = Idle /\ run'[Operator] = Outcome(Operator, how) /\ api' = api
BY StepTyped DEF Return, Progress, TypeInv, TypeOK, ClientOK, Step

LEMMA RefusedFollows ==
  ASSUME PlannedInv, Record, Step = "checkNodes", Return(Operator, "refused"), runs' = runs
  PROVE  Follows
<1>1. Step' = Idle /\ run'[Operator] = Outcome(Operator, "refused") /\ Same /\ Step # Idle
  BY ReturnIs, LooksSame DEF PlannedInv, Idle
<1>2. run'[Operator].outcome # "running"
  BY <1>1 DEF Outcome
<1> QED
  BY <1>1, <1>2, GateDeclines, HistoryEnds DEF Follows, Runner!Next, Runner!Step

LEMMA JoinNodePrepareFollows ==
  ASSUME PlannedInv, Record, JoinNodePrepare(Operator)
  PROVE  Follows
<1>1. CASE CreateRole(Operator)
  BY <1>1, AtIs, CreateFollows, NextOfIs DEF CreateRole, CreatingSteps, ObjectAt, Absent
<1>2. CASE CreateRoleBinding(Operator)
  BY <1>2, AtIs, CreateFollows, NextOfIs DEF CreateRoleBinding, CreatingSteps, ObjectAt, Absent
<1>3. CASE GetEdgeInfo(Operator)
  <2>1. Step = "getEdgeInfo" /\ runs' = runs /\ faults' = faults
    BY <1>3, AtIs DEF GetEdgeInfo
  <2>2. Looks("putEdgeInfo")
    BY <1>3, VerbsAre DEF GetEdgeInfo, PlannedInv
  <2> QED
    BY <2>1, <2>2, PlaceIs, LooksSame, SilentFollows
       DEF Looks, SilentSteps, Steps, AddonSteps, PrepareSteps, CommandOf, Idle
<1>4. CASE PutEdgeInfo(Operator)
  <2>1. Step = "putEdgeInfo" /\ runs' = runs /\ faults' = faults
    BY <1>4, AtIs DEF PutEdgeInfo
  <2>2. copy[Operator].object = "edgeInfo"
    BY <2>1, StepTyped DEF PlannedInv, Progress, TypeInv, ReadOK, Step
  <2>3. Puts("edgeInfo", "present", Idle) \/ Errs
    BY <1>4, <2>2, VerbsAre DEF PutEdgeInfo, PlannedInv
  <2>4. CASE Errs
    BY <2>1, <2>4, ErrsFollow DEF Idle
  <2>5. CASE Puts("edgeInfo", "present", Idle)
    BY <2>1, <2>5, PutFollows, NextOfIs DEF PuttingSteps, ObjectAt
  <2> QED
    BY <2>3, <2>4, <2>5
<1> QED
  BY <1>1, <1>2, <1>3, <1>4 DEF JoinNodePrepare

LEMMA GateFollows ==
  ASSUME PlannedInv, Record, CheckIfEdgeAppDeletable(Operator)
  PROVE  Follows
<1>1. Step = "checkNodes" /\ runs' = runs /\ faults' = faults /\ Step # Idle
  BY AtIs DEF CheckIfEdgeAppDeletable, Idle
<1>2. CASE Continue(Operator, "deleteDS") /\ UNCHANGED <<api, copy>>
  <2>1. Goes("deleteDS") /\ Same
    BY <1>2, StepTyped, LooksSame
       DEF Continue, Goes, PlannedInv, Progress, TypeInv, TypeOK, ClientOK, Step
  <2>2. Goes(NextOf[Step]) /\ Step \in PlanSteps
    BY <1>1, <2>1, NextOfIs DEF PlanSteps, NextOf
  <2>3. Runner!Perform
    BY <1>1, <2>1, <2>2, LookPerforms
  <2> QED
    BY <1>1, <2>2, <2>3, PerformFollows
<1>3. CASE Return(Operator, "refused")
  BY <1>1, <1>3, RefusedFollows
<1> QED
  BY <1>2, <1>3 DEF CheckIfEdgeAppDeletable

\* A call of detach that deletes, or finds nothing to delete.
LEMMA DeleteCallFollows ==
  ASSUME PlannedInv, Record, Step \in DeletingSteps \cup {"deleteEndpoint"},
         Step # "recoverProxy", runs' = runs, faults' = faults,
         Delete(Operator, ObjectAt[Step], NextOf[Step])
  PROVE  Follows
<1> DEFINE o == ObjectAt[Step]
<1>1. /\ o \in Documented /\ Step \notin {Idle, "checkNodes", "deleteEdgeInfo"}
      /\ Step \in DeletingSteps \cup RemovingSteps
      /\ Step \in DeletingSteps => o \notin {"kubeProxy", "kubernetes"}
  BY ObjectsBySteps DEF DeletingSteps, RemovingSteps, ObjectAt, Idle
<1>2. CASE Errs
  BY <1>1, <1>2, ErrsFollow
<1>3. CASE api[o] # Absent /\ Puts(o, Absent, NextOf[Step])
  BY <1>1, <1>3, ThereIs, DeleteFollows
<1> QED
  BY <1>2, <1>3, VerbsAre DEF PlannedInv

LEMMA RecoverKubeConfigFollows ==
  ASSUME PlannedInv, Record, RecoverKubeConfig(Operator)
  PROVE  Follows
<1>1. CASE DeleteEdgeProxy(Operator)
  BY <1>1, AtIs, DeleteCallFollows, NextOfIs DEF DeleteEdgeProxy, DeletingSteps, ObjectAt
<1>2. CASE DeleteEdgeCM(Operator)
  BY <1>2, AtIs, DeleteCallFollows, NextOfIs DEF DeleteEdgeCM, DeletingSteps, ObjectAt
<1>3. CASE DeleteEdgeSA(Operator)
  BY <1>3, AtIs, DeleteCallFollows, NextOfIs DEF DeleteEdgeSA, DeletingSteps, ObjectAt
<1>4. CASE RecoverProxy(Operator)
  <2>1. Step = "recoverProxy" /\ runs' = runs /\ faults' = faults
    BY <1>4, AtIs DEF RecoverProxy
  <2>2. (api["kubeProxy"] # "none" /\ Puts("kubeProxy", "none", "getBackup")) \/ Errs
    BY <1>4, VerbsAre DEF RecoverProxy, PlannedInv
  <2>3. CASE Errs
    BY <2>1, <2>3, ErrsFollow DEF Idle
  <2>4. CASE api["kubeProxy"] # "none" /\ Puts("kubeProxy", "none", "getBackup")
    <3>1. There("kubeProxy")
      BY <2>4, ThereIs, DocumentedIs
    <3> QED
      BY <2>1, <2>4, <3>1, DeleteFollows, NextOfIs DEF DeletingSteps, ObjectAt
  <2> QED
    BY <2>2, <2>3, <2>4
<1>5. CASE GetBackup(Operator)
  <2>1. Step = "getBackup" /\ runs' = runs /\ faults' = faults
    BY <1>5, AtIs DEF GetBackup
  <2>2. (api["backup"] # Absent /\ Looks("deleteEndpoint")) \/ Errs
    BY <1>5, VerbsAre DEF GetBackup, PlannedInv
  <2>3. CASE Errs
    BY <2>1, <2>3, ErrsFollow DEF Idle
  <2>4. CASE api["backup"] # Absent /\ Looks("deleteEndpoint")
    <3>1. There("backup") /\ Same
      BY <2>4, ThereIs, DocumentedIs, LooksSame DEF Looks
    <3>2. Goes(NextOf[Step]) /\ Step \in PlanSteps
      BY <2>1, <2>4, NextOfIs DEF Looks, PlanSteps, NextOf
    <3>3. Runner!Perform
      BY <2>1, <3>1, <3>2, LookPerforms
    <3> QED
      BY <2>1, <3>2, <3>3, PerformFollows
  <2> QED
    BY <2>2, <2>3, <2>4
<1>6. CASE DeleteEndpoint(Operator)
  BY <1>6, AtIs, DeleteCallFollows, NextOfIs DEF DeleteEndpoint, ObjectAt
<1>7. CASE CreateEndpoint(Operator)
  <2>1. Step = "createEndpoint" /\ runs' = runs /\ faults' = faults
    BY <1>7, AtIs DEF CreateEndpoint
  <2>2. copy[Operator].content = "original"
    BY <2>1, StepTyped DEF PlannedInv, Progress, Safe, RecoverProgress, RecoverAt, Step
  <2>3. (api["kubernetes"] = Absent /\ Puts("kubernetes", "original", "deleteBackup")) \/ Errs
    BY <1>7, <2>2, VerbsAre DEF CreateEndpoint, PlannedInv
  <2>4. CASE Errs
    BY <2>1, <2>4, ErrsFollow DEF Idle
  <2>5. CASE api["kubernetes"] = Absent /\ Puts("kubernetes", "original", "deleteBackup")
    <3>1. Takes("kubernetes") /\ ~There("kubernetes")
      BY <2>5, PutsMakes, ThereIs, DocumentedIs DEF PlannedInv, Absent
    <3>2. Same
      BY <3>1 DEF Same, Takes
    <3>3. Goes("deleteBackup")
      BY <2>5 DEF Puts
    <3>4. CommandOf("deleteBackup") = CommandOf("createEndpoint")
      BY DEF CommandOf, AddonSteps, UpdateSteps, PrepareSteps
    <3> QED
      BY <2>1, <3>2, <3>3, <3>4, PlaceIs, SilentFollows
         DEF SilentSteps, Steps, DetachSteps, RecoverSteps, Idle
  <2> QED
    BY <2>3, <2>4, <2>5
<1>8. CASE DeleteBackup(Operator)
  BY <1>8, AtIs, DeleteCallFollows, NextOfIs DEF DeleteBackup, DeletingSteps, ObjectAt
<1> QED
  BY <1>1, <1>2, <1>3, <1>4, <1>5, <1>6, <1>7, <1>8 DEF RecoverKubeConfig

LEMMA DeleteLiteApiServerCertFollows ==
  ASSUME PlannedInv, Record, DeleteLiteApiServerCert(Operator)
  PROVE  Follows
<1>1. CASE DeleteRole(Operator)
  BY <1>1, AtIs, DeleteCallFollows, NextOfIs DEF DeleteRole, DeletingSteps, ObjectAt
<1>2. CASE DeleteRoleBinding(Operator)
  BY <1>2, AtIs, DeleteCallFollows, NextOfIs DEF DeleteRoleBinding, DeletingSteps, ObjectAt
<1>3. CASE DeleteEdgeInfo(Operator)
  <2>1. Step = "deleteEdgeInfo" /\ runs' = runs /\ faults' = faults
    BY <1>3, AtIs DEF DeleteEdgeInfo
  <2>2. Puts("edgeInfo", Absent, Idle)
    BY <1>3, VerbsAre DEF DeleteEdgeInfo, PlannedInv
  <2> QED
    BY <2>1, <2>2, DeleteFollows, NextOfIs DEF DeletingSteps, RemovingSteps, ObjectAt
<1> QED
  BY <1>1, <1>2, <1>3 DEF DeleteLiteApiServerCert

LEMMA FaultFollows ==
  ASSUME PlannedInv, Record, Fault(Operator)
  PROVE  Follows
<1>1. faults' = faults + 1 /\ faults' # faults /\ runs' = runs
  BY BoundsAssumption DEF Fault, Abort, ListFails, DeleteEdgeInfoFails, UseFault, PlannedInv,
     Progress, TypeInv, TypeOK, BoundsOK
<1>2. CASE Abort(Operator)
  <2>1. Step \notin {Idle, "checkNodes", "deleteEdgeInfo"}
    BY <1>2 DEF Abort, Step
  <2>2. Errs
    BY <1>2, ReturnIs DEF Abort, Fail, Errs, PlannedInv
  <2> QED
    BY <1>1, <2>1, <2>2, ErrsFollow
<1>3. CASE ListFails(Operator)
  BY <1>1, <1>3, RefusedFollows DEF ListFails, Step, Idle
<1>4. CASE DeleteEdgeInfoFails(Operator)
  <2>1. Step = "deleteEdgeInfo" /\ Return(Operator, "ok") /\ Step # Idle
    BY <1>4 DEF DeleteEdgeInfoFails, Step, Idle
  <2>2. Step' = Idle /\ run'[Operator] = Outcome(Operator, "ok") /\ Same
    BY <2>1, ReturnIs, LooksSame DEF PlannedInv
  <2>3. Runner!Fault
    BY <1>1, <2>1, <2>2, EdgeInfoFails
  <2>4. run'[Operator].outcome # "running"
    BY <2>2 DEF Outcome
  <2> QED
    BY <1>1, <2>1, <2>2, <2>3, <2>4, HistoryEnds DEF Follows, Runner!Next, Runner!Step
<1> QED
  BY <1>2, <1>3, <1>4 DEF Fault

LEMMA StartFollows ==
  ASSUME PlannedInv, Record, NEW command \in Commands, Start(Operator, command)
  PROVE  Follows
<1>1. command \in {"addon", "detach"}
  BY CommandsAssumption
<1>2. /\ Step = Idle /\ Step' = (IF command = "addon" THEN "createCM" ELSE "checkNodes")
      /\ run'[Operator] = [command |-> command, outcome |-> "running"]
      /\ faults' = faults /\ runs' = runs + 1 /\ api' = api
  BY StepTyped DEF Start, Begin, PlannedInv, Progress, TypeInv, TypeOK, ClientOK, Step
<1>3. Step' # Idle /\ CommandOf(Step') = command
  BY <1>1, <1>2 DEF Idle, CommandOf, AddonSteps, UpdateSteps, PrepareSteps
<1>4. Runner!Next
  BY <1>1, <1>2, LooksSame, StartStarts
<1>5. HistoryInv'
  BY <1>2, <1>3, HistoryStarts
<1> QED
  BY <1>4, <1>5 DEF Follows

LEMMA OthersFollow ==
  ASSUME PlannedInv, Record,
         \/ \E o \in {"kubernetes", "slice"} : ControllerWrites(o)
         \/ \E n \in Node : JoinReadsEdgeInfo(n) \/ JoinLabelsNode(n) \/ NodeLeaves(n)
  PROVE  Follows
<1>1. pc' = pc /\ run' = run /\ runs' = runs /\ faults' = faults
  BY DEF ControllerWrites, JoinReadsEdgeInfo, JoinLabelsNode, NodeLeaves, apiVars, boundVars
<1>2. Step' = Step /\ run'[Operator] = run[Operator]
  BY <1>1 DEF Step
<1>3. Same
  <2>1. ASSUME ControllerWrites("kubernetes") PROVE Same
    <3>1. /\ api'["kubernetes"] = "edge" <=> api["kubernetes"] = "edge"
          /\ \A o \in Documented \ {"kubernetes"} : api'[o] = api[o]
      BY <2>1, DocumentedIs
         DEF ControllerWrites, Write, PlannedInv, Progress, TypeInv, TypeOK, ApiOK, Objects,
         Flags, Absent
    <3> QED
      BY <3>1 DEF Same, There
  <2>2. ASSUME ControllerWrites("slice") PROVE Same
    BY <2>2, SliceIsNoDocument DEF ControllerWrites, Write
  <2>3. ASSUME NEW n \in Node, JoinReadsEdgeInfo(n) \/ JoinLabelsNode(n) \/ NodeLeaves(n)
        PROVE  Same
    BY <2>3, LooksSame DEF JoinReadsEdgeInfo, JoinLabelsNode, NodeLeaves, apiVars
  <2> QED
    BY <2>1, <2>2, <2>3
<1> QED
  BY <1>1, <1>2, <1>3, OthersStutter, HistoryStays DEF Follows

LEMMA NextFollows ==
  ASSUME PlannedInv, Next, Record
  PROVE  Follows
<1>1. ASSUME NEW c \in Clients, Command(c) PROVE Follows
  <2>1. c = Operator
    BY OperatorAssumption
  <2> QED
    BY <1>1, <2>1, UpdateKubeConfigFollows, JoinNodePrepareFollows, GateFollows,
       RecoverKubeConfigFollows, DeleteLiteApiServerCertFollows DEF Command
<1>2. ASSUME NEW c \in Clients, Fault(c) PROVE Follows
  BY <1>2, OperatorAssumption, FaultFollows
<1>3. ASSUME NEW c \in Clients, NEW command \in Commands, Start(c, command) PROVE Follows
  BY <1>3, OperatorAssumption, StartFollows
<1> QED
  BY <1>1, <1>2, <1>3, OthersFollow DEF Next

----------------------------------------------------------------------------
(***************************************************************************)
(* A native cluster holds of the documents of the plans the namespace only,*)
(* which the stages before have made.                                      *)
(***************************************************************************)
LEMMA CallsInStage ==
  ASSUME NEW calls, NEW e
  PROVE  Runner!CallsIn(S(calls, e)) = {calls[i] : i \in DOMAIN calls}
<1>1. {S(calls, e).parts[p] : p \in DOMAIN S(calls, e).parts} = {calls}
  BY DEF S
<1> QED
  BY <1>1 DEF Runner!CallsIn

LEMMA CallsOfAddon ==
  Runner!CallsOf(Of("addon")) =
    { C("create", "edgeCM"), C("create", "edgeSA"), C("create", "edgeProxy"),
      C("put", "kubeProxy"), C("create", "backup"), C("put", "kubernetes"), Ensure,
      C("create", "role"), C("create", "roleBinding"), C("put", "edgeInfo") }
<1>1. {AddonCalls[1][i] : i \in DOMAIN AddonCalls[1]} =
        { C("create", "edgeCM"), C("create", "edgeSA"), C("create", "edgeProxy"),
          C("put", "kubeProxy"), C("create", "backup"), C("put", "kubernetes") }
  <2>1. DOMAIN AddonCalls[1] = 1..6
    BY DEF AddonCalls
  <2> QED
    BY <2>1, AddonCallsAre
<1>2. {AddonCalls[2][i] : i \in DOMAIN AddonCalls[2]} = {Ensure}
  <2>1. DOMAIN AddonCalls[2] = {1}
    BY DEF AddonCalls
  <2> QED
    BY <2>1, AddonCallsAre
<1>3. {AddonCalls[3][i] : i \in DOMAIN AddonCalls[3]} =
        {C("create", "role"), C("create", "roleBinding"), C("put", "edgeInfo")}
  <2>1. DOMAIN AddonCalls[3] = 1..3
    BY DEF AddonCalls
  <2> QED
    BY <2>1, AddonCallsAre
<1>4. /\ DOMAIN PlanOf[Of("addon")] = {1, 2, 3}
      /\ PlanOf[Of("addon")][1] = S(AddonCalls[1], "return")
      /\ PlanOf[Of("addon")][2] = S(AddonCalls[2], "return")
      /\ PlanOf[Of("addon")][3] = S(AddonCalls[3], "return")
  BY AddonPlan
<1>5. Runner!CallsOf(Of("addon")) =
        Runner!CallsIn(S(AddonCalls[1], "return")) \cup Runner!CallsIn(S(AddonCalls[2], "return"))
          \cup Runner!CallsIn(S(AddonCalls[3], "return"))
  BY <1>4 DEF Runner!CallsOf
<1>6. /\ Runner!CallsIn(S(AddonCalls[1], "return")) =
           { C("create", "edgeCM"), C("create", "edgeSA"), C("create", "edgeProxy"),
             C("put", "kubeProxy"), C("create", "backup"), C("put", "kubernetes") }
      /\ Runner!CallsIn(S(AddonCalls[2], "return")) = {Ensure}
      /\ Runner!CallsIn(S(AddonCalls[3], "return")) =
           {C("create", "role"), C("create", "roleBinding"), C("put", "edgeInfo")}
  <2>1. \A i \in {1, 2, 3} : Runner!CallsIn(S(AddonCalls[i], "return"))
                               = {AddonCalls[i][j] : j \in DOMAIN AddonCalls[i]}
    BY CallsInStage
  <2> QED
    BY <1>1, <1>2, <1>3, <2>1
<1> QED
  BY <1>5, <1>6

LEMMA CallsOfDetach ==
  Runner!CallsOf(Of("detach")) =
    { Gate, C("delete", "edgeProxy"), C("delete", "edgeCM"), C("delete", "edgeSA"),
      C("delete", "kubeProxy"), C("await", "backup"), C("remove", "kubernetes"),
      C("delete", "backup"), C("delete", "role"), C("delete", "roleBinding"),
      C("remove", "edgeInfo") }
<1>1. {DetachCalls[1][i] : i \in DOMAIN DetachCalls[1]} = {Gate}
  <2>1. DOMAIN DetachCalls[1] = {1}
    BY DEF DetachCalls
  <2> QED
    BY <2>1, DetachCallsAre
<1>2. {DetachCalls[2][i] : i \in DOMAIN DetachCalls[2]} =
        { C("delete", "edgeProxy"), C("delete", "edgeCM"), C("delete", "edgeSA"),
          C("delete", "kubeProxy"), C("await", "backup"), C("remove", "kubernetes"),
          C("delete", "backup") }
  <2>1. DOMAIN DetachCalls[2] = 1..7
    BY DEF DetachCalls
  <2> QED
    BY <2>1, DetachCallsAre
<1>3. {DetachCalls[3][i] : i \in DOMAIN DetachCalls[3]} =
        {C("delete", "role"), C("delete", "roleBinding")}
  <2>1. DOMAIN DetachCalls[3] = 1..2
    BY DEF DetachCalls
  <2> QED
    BY <2>1, DetachCallsAre
<1>4. {DetachCalls[4][i] : i \in DOMAIN DetachCalls[4]} = {C("remove", "edgeInfo")}
  <2>1. DOMAIN DetachCalls[4] = {1}
    BY DEF DetachCalls
  <2> QED
    BY <2>1, DetachCallsAre
<1>5. /\ DOMAIN PlanOf[Of("detach")] = {1, 2, 3, 4}
      /\ PlanOf[Of("detach")][1] = S(DetachCalls[1], "return")
      /\ PlanOf[Of("detach")][2] = S(DetachCalls[2], "return")
      /\ PlanOf[Of("detach")][3] = S(DetachCalls[3], "return")
      /\ PlanOf[Of("detach")][4] = S(DetachCalls[4], "drop")
  BY DetachPlan
<1>6. Runner!CallsOf(Of("detach")) =
        Runner!CallsIn(S(DetachCalls[1], "return")) \cup Runner!CallsIn(S(DetachCalls[2], "return"))
          \cup Runner!CallsIn(S(DetachCalls[3], "return"))
          \cup Runner!CallsIn(S(DetachCalls[4], "drop"))
  BY <1>5 DEF Runner!CallsOf
<1>7. /\ Runner!CallsIn(S(DetachCalls[1], "return")) = {Gate}
      /\ Runner!CallsIn(S(DetachCalls[2], "return")) =
           { C("delete", "edgeProxy"), C("delete", "edgeCM"), C("delete", "edgeSA"),
             C("delete", "kubeProxy"), C("await", "backup"), C("remove", "kubernetes"),
             C("delete", "backup") }
      /\ Runner!CallsIn(S(DetachCalls[3], "return")) =
           {C("delete", "role"), C("delete", "roleBinding")}
      /\ Runner!CallsIn(S(DetachCalls[4], "drop")) = {C("remove", "edgeInfo")}
  <2>1. \A i \in {1, 2, 3, 4}, e \in {"return", "drop"} :
          Runner!CallsIn(S(DetachCalls[i], e)) = {DetachCalls[i][j] : j \in DOMAIN DetachCalls[i]}
    BY CallsInStage
  <2> QED
    BY <1>1, <1>2, <1>3, <1>4, <2>1
<1> QED
  BY <1>6, <1>7

LEMMA PlannedDocuments ==
  "edge-apps" \in Runner!Application /\ Runner!Documents["edge-apps"] = Documents
<1>1. /\ Runner!Command = {Of("addon"), Of("detach")}
      /\ Of("addon").app = "edge-apps" /\ Of("detach").app = "edge-apps"
  BY DEF Runner!Command, PlanOf, Of
<1>2. "edge-apps" \in Runner!Application
  BY <1>1 DEF Runner!Application
<1> DEFINE calls == Runner!CallsOf(Of("addon")) \cup Runner!CallsOf(Of("detach"))
<1>3. Runner!Documents["edge-apps"] = {call.doc : call \in calls}
  <2>1. {k \in Runner!Command : k.app = "edge-apps"} = {Of("addon"), Of("detach")}
    BY <1>1
  <2>2. UNION {Runner!CallsOf(c) : c \in {Of("addon"), Of("detach")}} = calls
    OBVIOUS
  <2> QED
    BY <1>2, <2>1, <2>2 DEF Runner!Documents
<1>4. /\ \A op, o : C(op, o).doc = DocumentOf[o]
      /\ Ensure.doc = EdgeNamespace /\ Gate.doc = W!EdgeNodes
  BY DEF C, Ensure, Gate
<1>5. ASSUME NEW call \in calls PROVE call.doc \in Documents
  BY <1>4, <1>5, CallsOfAddon, CallsOfDetach, DocumentsAre, DocumentedIs
<1>6. ASSUME NEW d \in Documents PROVE \E call \in calls : call.doc = d
  <2>1. CASE d = EdgeNamespace
    <3>1. Ensure \in calls
      BY CallsOfAddon
    <3> QED
      BY <1>4, <2>1, <3>1
  <2>2. CASE d = W!EdgeNodes
    <3>1. Gate \in calls
      BY CallsOfDetach
    <3> QED
      BY <1>4, <2>2, <3>1
  <2>3. ASSUME NEW o \in Documented, d = DocumentOf[o]
        PROVE  \E call \in calls : call.doc = d
    <3>1. \E op : C(op, o) \in calls
      BY CallsOfAddon, DocumentedIs
    <3> QED
      BY <1>4, <2>3, <3>1
  <2> QED
    BY <2>1, <2>2, <2>3, DocumentsAre
<1> HIDE DEF calls
<1> QED
  BY <1>2, <1>3, <1>5, <1>6

LEMMA FoundAtFirst == PlannedInit => Found = {EdgeNamespace}
<1> SUFFICES ASSUME PlannedInit PROVE Found = {EdgeNamespace}
  OBVIOUS
<1>1. api = NativeCluster
  BY DEF PlannedInit, Init
<1>2. /\ api["kubeProxy"] = "none" /\ api["kubernetes"] = "original"
      /\ \A o \in Documented \ {"kubeProxy", "kubernetes"} : api[o] = Absent
  BY <1>1, DocumentedIs DEF NativeCluster, Objects, Flags
<1>3. \A o \in Documented : ~There(o)
  BY <1>2, ThereIs, DocumentedIs
<1> QED
  BY <1>3 DEF Found, Documented

LEMMA InitFollows == PlannedInit => Runner!Init /\ PlannedInv
<1> SUFFICES ASSUME PlannedInit PROVE Runner!Init /\ PlannedInv
  OBVIOUS
<1>1. Init /\ before = {} /\ written = {} /\ calm = TRUE /\ failed = 0
  BY DEF PlannedInit
<1>2. Step = Idle /\ run[Operator] = NoRun /\ runs = 0
  BY <1>1, OperatorAssumption DEF Init, Step
<1>3. documents = [d \in Documents |-> IF d \in {EdgeNamespace} THEN "old" ELSE "none"]
  BY <1>1, FoundAtFirst DEF documents
<1>4. Runner!Init
  BY <1>1, <1>2, <1>3, PlannedDocuments, IdlePlace
     DEF Runner!Init, Runner!NoCommand, NoRun, Count
<1>5. HistoryInv
  BY <1>1, <1>2 DEF HistoryInv, NoRun, Count
<1> QED
  BY <1>1, <1>4, <1>5, InitProgress DEF PlannedInv

LEMMA StutterFollows ==
  ASSUME PlannedInv, UNCHANGED <<vars, historyVars>>
  PROVE  UNCHANGED Runner!vars /\ HistoryInv'
<1>1. /\ api' = api /\ pc' = pc /\ run' = run /\ runs' = runs
      /\ before' = before /\ written' = written /\ calm' = calm /\ failed' = failed
  BY DEF vars, historyVars
<1>2. Step' = Step
  BY <1>1 DEF Step
<1>3. documents' = documents
  BY <1>1, LooksSame, DocumentsKept
<1>4. UNCHANGED Runner!vars
  BY <1>1, <1>2, <1>3 DEF Runner!vars, Runner!position
<1>5. HistoryInv'
  BY <1>1, <1>2 DEF PlannedInv, HistoryInv
<1> QED
  BY <1>4, <1>5

\* edgeadm's switch of a running cluster does what its plan says: whatever nodes join and leave,
\* whatever the API server writes and whatever call fails, every call is the next one of the plan
\* of UpdateKubeConfig and JoinNodePrepare, or of CheckIfEdgeAppDeletable, RecoverKubeConfig and
\* DeleteLiteApiServerCert, with the plan's effect on the cluster's documents, and an error ends
\* the command where the plan ends it.
THEOREM SwitchFollowsPlan == PlannedSpec => FollowsPlan
<1>1. PlannedInit => Runner!Init /\ PlannedInv
  BY InitFollows
<1>2. ASSUME PlannedInv, [Next /\ Record]_<<vars, historyVars>>
      PROVE  PlannedInv' /\ [Runner!Next]_(Runner!vars)
  <2>1. [Next]_vars
    BY <1>2
  <2>2. Progress'
    <3>1. OnlyAddonsOverlap
      BY OperatorAssumption DEF OnlyAddonsOverlap
    <3> QED
      BY <1>2, <2>1, <3>1, NextProgress DEF PlannedInv
  <2>3. CASE Next /\ Record
    BY <1>2, <2>2, <2>3, NextFollows DEF Follows, PlannedInv
  <2>4. CASE UNCHANGED <<vars, historyVars>>
    BY <1>2, <2>2, <2>4, StutterFollows DEF PlannedInv
  <2> QED
    BY <1>2, <2>3, <2>4
<1> QED
  BY <1>1, <1>2, PTL DEF PlannedSpec, FollowsPlan
=============================================================================
