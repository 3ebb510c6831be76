--------------------------- MODULE CommandRunner ---------------------------
(***************************************************************************)
(* The execution of edgeadm's commands against the API server.  An operator*)
(* runs one command after the other; each goes through its plan call by    *)
(* call and starts again from its first call every time: nothing records   *)
(* how far an earlier command came.  A call can be refused because of what *)
(* the cluster holds, it can fail for another reason, with or without its  *)
(* effect, and the command can be interrupted at any point.                *)
(*                                                                         *)
(* The plans are a parameter: Workflows has those of edgeadm.              *)
(***************************************************************************)
EXTENDS Integers, Sequences, FiniteSets

CONSTANTS
  Plan,         \* per command, the sequence of its stages
  Inherited,    \* documents a cluster made by kubeadm holds before the first command
  UserConfig,   \* ConfigMaps that an administrator edits
  MaxTries,     \* how often a polled stage is tried before its time is up
  MaxFaults     \* bound: failures and interruptions in a behaviour

Command == DOMAIN Plan
Application == {c.app : c \in Command}

CallsIn(stage) == UNION {{part[i] : i \in DOMAIN part} :
                          part \in {stage.parts[p] : p \in DOMAIN stage.parts}}
CallsOf(c) == UNION {CallsIn(Plan[c][s]) : s \in DOMAIN Plan[c]}

\* the documents that the commands about an application touch
Documents ==
  [a \in Application |-> {call.doc : call \in UNION {CallsOf(c) : c \in {k \in Command : k.app = a}}}]

\* Plans are made of stages, stages of parts, parts of calls; none is empty.
Writes == {"put", "create", "post"}
Deletes == {"delete", "remove", "clear", "discard"}
Operations == Writes \cup Deletes \cup {"keep", "retain", "await", "read", "gate", "panic", "unsupported"}
CallRecords == [op : Operations, doc : [kind : STRING, name : STRING, ns : STRING]]
Stages ==
  [ parts : Seq(Seq(CallRecords) \ {<<>>}) \ {<<>>},
    onError : {"return", "drop", "poll", "retry"} ]
ASSUME PlanAssumption == \A c \in Command : Plan[c] \in Seq(Stages) \ {<<>>}
ASSUME BoundsAssumption == MaxTries \in Nat \ {0} /\ MaxFaults \in Nat

Strikes(call, d) ==
  /\ call.op \in Deletes
  /\ call.doc = d \/ (call.doc.kind = "Namespace" /\ d.ns = call.doc.name)
Builds(c) == c.verb \in {"addon", "init"}
\* No addon deletes what it has written, and no detach writes what it has deleted.
Undoes(c, later, call) ==
  \/ /\ Builds(c)
     /\ call.op \in Writes \cup {"keep"}
     /\ Strikes(later, call.doc)
  \/ /\ c.verb = "detach"
     /\ call.op = "delete"
     /\ later.op \in Writes \cup {"keep", "retain"} /\ later.doc = call.doc
Lasting(c) ==
  \A s, t \in DOMAIN Plan[c] :
    Plan[c][s].onError = "return" =>
      \A p \in DOMAIN Plan[c][s].parts, q \in DOMAIN Plan[c][t].parts :
        \A i \in DOMAIN Plan[c][s].parts[p], j \in DOMAIN Plan[c][t].parts[q] :
          Undoes(c, Plan[c][t].parts[q][j], Plan[c][s].parts[p][i]) =>
            t < s \/ (t = s /\ q = p /\ j < i)
ASSUME LastingAssumption == \A c \in Command : Lasting(c)

\* What an administrator edits is only ever written where it is missing, and deleted by name.
ASSUME UserConfigAssumption ==
  \A c \in Command : \A s \in DOMAIN Plan[c] : \A call \in CallsIn(Plan[c][s]) :
    \A d \in UserConfig :
      /\ call.doc = d => call.op \notin Writes
      /\ Strikes(call, d) => call.op = "delete" /\ call.doc = d /\ Plan[c][s].onError = "return"

Ages == {"none", "old", "new"}
Outcomes == {"none", "running", "ok", "error", "refused"}
NoCommand == [app |-> "none", verb |-> "none", levels |-> {}]

VARIABLES
  app,       \* the application whose commands the operator runs
  api,       \* per document: absent, of an earlier command, or written by this one
  command,   \* the command that runs or ran last
  outcome,   \* how it stands or ended
  before,    \* the documents it found
  stage, part, next,   \* the call it makes next
  todo,      \* the parts of the stage left after this one
  tries,     \* how often the stage was started
  calm,      \* no call of this command failed by itself
  faults     \* failures so far

position == <<stage, part, next, todo, tries>>
vars == <<app, api, command, outcome, before, position, calm, faults>>

Present == {d \in DOMAIN api : api[d] # "none"}
Missing(d) == api[d] = "none"
\* A document needs its namespace; these are always there, or none is needed.
AlwaysThere == {"", "default", "kube-system"}
Home(d) == [kind |-> "Namespace", name |-> d.ns, ns |-> ""]
Housed(d) == d.ns \in AlwaysThere \/ Home(d) \in Present

Running == outcome = "running"
ThisStage == Plan[command][stage]
ThisCall == ThisStage.parts[part][next]

Init ==
  /\ app \in Application
  /\ \E found \in {{}, Inherited} :
       api = [d \in Documents[app] |-> IF d \in found THEN "old" ELSE "none"]
  /\ command = NoCommand
  /\ outcome = "none"
  /\ before = {}
  /\ stage = 0 /\ part = 0 /\ next = 0 /\ todo = {} /\ tries = 0
  /\ calm = TRUE
  /\ faults = 0

----------------------------------------------------------------------------
(***************************************************************************)
(* The calls                                                               *)
(***************************************************************************)
\* with a bug: what exists, but for a namespace, is not updated
AcceptsNewOnly(call) ==
  CASE call.op \in {"put", "create", "post"} ->
         Housed(call.doc) /\ (Missing(call.doc) \/ call.doc.kind = "Namespace")
    [] call.op \in {"keep", "retain"} -> Housed(call.doc)
    [] call.op \in {"delete", "await"} -> ~Missing(call.doc)
    [] OTHER -> call.op \notin {"panic", "unsupported"}
\* What the API server and kubeclient accept: "put" is a Create and, when the object exists,
\* an Update; "keep" and "retain" leave an object that exists alone; "create" fails on it,
\* because there is no Update or the API server refuses it; "post" (the client without a
\* dynamic client) cannot update a namespaced one; "delete" and "await" need it; "remove",
\* "clear" and "discard" take NotFound for an answer; "read" asks for nothing.
Accepts(call) ==
  CASE call.op \in {"put", "keep", "retain"} -> Housed(call.doc)
    [] call.op = "create" -> Housed(call.doc) /\ Missing(call.doc)
    [] call.op = "post" -> Housed(call.doc) /\ (Missing(call.doc) \/ call.doc.ns = "")
    [] call.op \in {"delete", "await"} -> ~Missing(call.doc)
    [] call.op \in {"remove", "clear", "discard", "read", "gate"} -> TRUE
    [] OTHER -> FALSE   \* a kind without a handler, or a panic

\* with a bug: what has the name of a ServiceAccount goes with it
WithoutAccount(d) ==
  [x \in DOMAIN api |-> IF x = d \/ (d.kind = "ServiceAccount" /\ x.name = d.name)
                        THEN "none" ELSE api[x]]
\* with a bug: the delete takes every kind of that name
WithoutNamesakes(d) ==
  [x \in DOMAIN api |-> IF x.name = d.name /\ x.ns = d.ns THEN "none" ELSE api[x]]
\* With a namespace goes everything in it.
Without(d) ==
  IF d.kind = "Namespace"
  THEN [x \in DOMAIN api |-> IF x = d \/ x.ns = d.name THEN "none" ELSE api[x]]
  ELSE [api EXCEPT ![d] = "none"]

\* with a bug: what exists is not left alone
AfterRetaining(call) ==
  CASE call.op \in Writes \cup {"keep", "retain"} -> [api EXCEPT ![call.doc] = "new"]
    [] call.op \in Deletes -> Without(call.doc)
    [] OTHER -> api
\* with a bug: a namespace is updated where it is, and nowhere created
AfterNoNamespace(call) ==
  CASE call.op \in Writes ->
         IF call.doc.kind = "Namespace" /\ Missing(call.doc) THEN api
         ELSE [api EXCEPT ![call.doc] = "new"]
    [] call.op \in {"keep", "retain"} ->
         IF Missing(call.doc) THEN [api EXCEPT ![call.doc] = "new"] ELSE api
    [] call.op \in Deletes -> Without(call.doc)
    [] OTHER -> api
\* with a bug: what is deleted through discovery is looked for where it is not
AfterRemovingNothing(call) ==
  CASE call.op \in Writes -> [api EXCEPT ![call.doc] = "new"]
    [] call.op \in {"keep", "retain"} ->
         IF Missing(call.doc) THEN [api EXCEPT ![call.doc] = "new"] ELSE api
    [] call.op \in Deletes \ {"remove"} -> Without(call.doc)
    [] OTHER -> api
\* What a call leaves in the cluster.
After(call) ==
  CASE call.op \in Writes -> [api EXCEPT ![call.doc] = "new"]
    [] call.op \in {"keep", "retain"} ->
         IF Missing(call.doc) THEN [api EXCEPT ![call.doc] = "new"] ELSE api
    [] call.op \in Deletes -> Without(call.doc)
    [] OTHER -> api

(***************************************************************************)
(* The way through the plan                                                *)
(***************************************************************************)
Finish(how) ==
  /\ outcome' = how
  /\ stage' = 0 /\ part' = 0 /\ next' = 0 /\ todo' = {} /\ tries' = 0

\* with a bug: a part stays on the list
TakePartAgain(parts) ==
  \E p \in parts : part' = p /\ todo' = parts /\ next' = 1
\* Go map iteration gives the parts in any order.
TakePart(parts) ==
  \E p \in parts : part' = p /\ todo' = parts \ {p} /\ next' = 1

StartStage(c, s, n) ==
  /\ TakePart(DOMAIN Plan[c][s].parts)
  /\ stage' = s
  /\ tries' = n
  /\ outcome' = "running"

NextStage ==
  IF stage < Len(Plan[command]) THEN StartStage(command, stage + 1, 1) ELSE Finish("ok")

\* with a bug: a polled stage counts as done after its first call
AdvancePolledOnce ==
  \/ /\ ThisStage.onError # "poll" /\ next < Len(ThisStage.parts[part])
     /\ next' = next + 1
     /\ UNCHANGED <<outcome, stage, part, todo, tries>>
  \/ /\ next = Len(ThisStage.parts[part])
     /\ todo # {}
     /\ TakePart(todo)
     /\ UNCHANGED <<outcome, stage, tries>>
  \/ /\ todo = {}
     /\ ThisStage.onError = "poll" \/ next = Len(ThisStage.parts[part])
     /\ NextStage
\* with a bug: only one part of a stage is run
AdvanceOnePart ==
  \/ /\ next < Len(ThisStage.parts[part])
     /\ next' = next + 1
     /\ UNCHANGED <<outcome, stage, part, todo, tries>>
  \/ /\ next = Len(ThisStage.parts[part])
     /\ NextStage
Advance ==
  \/ /\ next < Len(ThisStage.parts[part])
     /\ next' = next + 1
     /\ UNCHANGED <<outcome, stage, part, todo, tries>>
  \/ /\ next = Len(ThisStage.parts[part])
     /\ todo # {}
     /\ TakePart(todo)
     /\ UNCHANGED <<outcome, stage, tries>>
  \/ /\ next = Len(ThisStage.parts[part])
     /\ todo = {}
     /\ NextStage

\* with a bug: no time-out
GiveUpNever ==
  \/ ThisStage.onError = "return" /\ Finish("error")
  \/ ThisStage.onError = "drop" /\ NextStage
  \/ ThisStage.onError \in {"poll", "retry"} /\ StartStage(command, stage, tries)
\* with a bug: no error ends the command
GiveUpAndGoOn == NextStage
\* A stage that is tried for ever counts its tries round and round.
NextTry == IF tries < MaxTries THEN tries + 1 ELSE 1
\* An error ends the command, or the stage only, or starts the stage again: until a time
\* is up, and then the result of the poll is dropped, or for ever.
GiveUp ==
  \/ ThisStage.onError = "return" /\ Finish("error")
  \/ ThisStage.onError = "drop" /\ NextStage
  \/ ThisStage.onError = "poll" /\ tries < MaxTries /\ StartStage(command, stage, NextTry)
  \/ ThisStage.onError = "poll" /\ tries = MaxTries /\ NextStage
  \/ ThisStage.onError = "retry" /\ StartStage(command, stage, NextTry)

----------------------------------------------------------------------------
(***************************************************************************)
(* Actions                                                                 *)
(***************************************************************************)
\* The operator runs a command: what is there is now of an earlier one.
Start(c) ==
  /\ ~Running
  /\ c.app = app
  /\ command' = c
  /\ api' = [d \in DOMAIN api |-> IF api[d] = "new" THEN "old" ELSE api[d]]
  /\ before' = Present
  /\ calm' = TRUE
  /\ StartStage(c, 1, 1)
  /\ UNCHANGED <<app, faults>>

Perform ==
  /\ Running
  /\ Accepts(ThisCall)
  /\ api' = After(ThisCall)
  /\ Advance
  /\ UNCHANGED <<app, command, before, calm, faults>>

\* What the cluster holds makes the call fail.
Refused ==
  /\ Running
  /\ ~Accepts(ThisCall)
  /\ GiveUp
  /\ UNCHANGED <<app, api, command, before, calm, faults>>

\* Edge nodes are left, or could not be listed: detach ends without an error.
Decline ==
  /\ Running
  /\ ThisCall.op = "gate"
  /\ Finish("refused")
  /\ UNCHANGED <<app, api, command, before, calm, faults>>

CountFault == faults < MaxFaults /\ faults' = faults + 1 /\ calm' = FALSE

TriedAgain == ThisStage.onError \in {"poll", "retry"}
\* A call fails by itself; its effect may have taken place.
Fails ==
  /\ Running
  /\ ThisCall.op \notin {"gate", "discard", "panic", "unsupported"}
  /\ \/ UNCHANGED api
     \/ Accepts(ThisCall) /\ api' = After(ThisCall)
  /\ GiveUp
  /\ UNCHANGED <<app, command, before>>

\* It ends the command or the stage.
Fault == Running /\ ~TriedAgain /\ Fails /\ CountFault

\* The stage is tried again, and the call may fail again, as often as it is made: only the
\* first failure of a command counts.
FailsAgain ==
  /\ Running /\ TriedAgain
  /\ Fails
  /\ IF calm THEN CountFault ELSE UNCHANGED <<calm, faults>>

\* The Get before "retain" fails, and any error but NotFound counts as "it is there"; or that
\* before "clear", and any error counts as "it is not there"; or the Delete of "discard".
Overlook ==
  /\ Running
  /\ ThisCall.op \in {"retain", "clear", "discard"}
  /\ CountFault
  /\ \/ UNCHANGED api
     \/ ThisCall.op = "discard" /\ api' = After(ThisCall)
  /\ Advance
  /\ UNCHANGED <<app, command, before>>

\* The operator stops edgeadm.
Interrupt ==
  /\ Running
  /\ CountFault
  /\ Finish("error")
  /\ UNCHANGED <<app, api, command, before>>

Step == Perform \/ Refused \/ Decline \/ Fault \/ FailsAgain \/ Overlook
Next ==
  \/ \E c \in Command : Start(c)
  \/ Step
  \/ Interrupt

\* A command that runs makes its next call, whatever becomes of it: no call has to succeed.
\* Nobody has to run a command.
Spec == Init /\ [][Next]_vars /\ WF_vars(Step)

----------------------------------------------------------------------------
(***************************************************************************)
(* Properties                                                              *)
(***************************************************************************)
InStages(c, onError, ops) ==
  {call.doc : call \in {k \in UNION {CallsIn(Plan[c][s]) : s \in {t \in DOMAIN Plan[c] :
                                                              Plan[c][t].onError \in onError}} :
                          k.op \in ops}}
\* what a command must have written, must have deleted, and cannot do without
Written == [c \in Command |-> InStages(c, {"return"}, Writes)]
Kept == [c \in Command |-> InStages(c, {"return"}, {"keep"})]
Deleted == [c \in Command |-> InStages(c, {"return"}, {"delete"})]
Needed == [c \in Command |-> InStages(c, {"return"}, {"delete", "await"})]

Ended(verb, how) == command.verb = verb /\ outcome = how

\* Every variable keeps its type, and a command that runs is at a call of its plan.
TypeOK ==
  /\ app \in Application
  /\ api \in [DOMAIN api -> Ages]
  /\ outcome \in Outcomes
  /\ before \subseteq DOMAIN api
  /\ calm \in BOOLEAN
  /\ faults \in 0..MaxFaults
  /\ Running =>
       /\ command \in Command /\ command.app = app
       /\ stage \in DOMAIN Plan[command]
       /\ part \in DOMAIN ThisStage.parts
       /\ todo \subseteq DOMAIN ThisStage.parts \ {part}
       /\ next \in DOMAIN ThisStage.parts[part]
       /\ ThisCall.doc \in DOMAIN api
       /\ tries \in 1..MaxTries

\* An addon, or the phases of init, that report success have written every document of the
\* stages whose errors end the command (Service, webhook and policy documents after the old
\* ones were deleted), also where an earlier command was interrupted or failed half way; a
\* ServiceAccount is at least there (DeployEdgeAPPS, DeployEdgex, DeployTopolvmAppS,
\* NewEdgeAppsPhase).  That is all they write but for tunnel-edge: the failure of the poll
\* that deploys it is dropped (deploy_tunnel.go:115), and where an earlier command stopped
\* between its documents the next one succeeds without the rest (TunnelEdgeDeployed).
AddonComplete ==
  outcome = "ok" /\ Builds(command) =>
    /\ \A d \in Written[command] : api[d] = "new"
    /\ Kept[command] \subseteq Present

\* A detach that reports success has deleted what the stages whose errors end it delete, and
\* none of its own steps has brought anything of it back (DeleteEdgex creates
\* common-variables where it is missing).  What a poll deletes (site-manager, edge-coredns:
\* deploy_edge_coredns.go:89) and what is deleted without a look at the error (edge-info, the
\* grid) may still be there if one of these calls failed: DetachClears.
DetachComplete == Ended("detach", "ok") => Deleted[command] \cap Present = {}

\* A detach that reports success, no call of which failed by itself, has deleted everything
\* it ever asks to delete, also in the stages whose errors are dropped: a poll is done only
\* when all of it went through, no dropped error hides a refusal that the stages themselves
\* bring about, and nothing deleted comes back (DeleteSiteManager, DeleteEdgeCoredns,
\* DeleteServiceGroup, DeleteLiteApiServerCert).
Cleared == [c \in Command |-> InStages(c, {"return", "drop", "poll", "retry"}, {"delete", "remove"})]
DetachClears == Ended("detach", "ok") /\ calm => Cleared[command] \cap Present = {}

\* A detach that finds everything it deletes, and no call of which fails by itself, ends
\* without an error: no step takes away what a later one asks for (DeleteTunnelAddon reads
\* the Service whose manifest it deletes).
DetachSucceeds ==
  Ended("detach", "error") /\ calm => ~(Needed[command] \subseteq before)

\* While an addon runs again over an earlier one, and after it failed anywhere, at most one
\* document that was there is missing, the one being replaced (CreateOrUpdateService,
\* ...PodSecurityPolicy, ...MutatingWebhookConfiguration delete before they create), or
\* documents of a stage of the addon that deletes.
Taken == [c \in Command |-> InStages(c, {"drop", "poll", "return"}, {"delete", "remove"})]
AddonLosesLittle ==
  command.verb = "addon" =>
    LET lost == before \ Present IN Cardinality(lost) <= 1 \/ lost \subseteq Taken[command]

\* No command writes over a ConfigMap an administrator may have edited, and only a command
\* that names it deletes it (CreateOrRetainConfigMap, DeployEdgex, DeleteEdgex).
KeepsUserConfig(d) ==
  d \in Present =>
    \/ api'[d] = "none" /\ d \in Deleted[command]
    \/ api'[d] # "none" /\ (api'[d] = "new" => api[d] = "new")
UserConfigKept ==
  [][\A d \in UserConfig \cap DOMAIN api : KeepsUserConfig(d)]_vars

\* Every command ends, however its calls fail and as often as they do, except where the code
\* has no end: the polls give up in time (DeployTunnelAddon re-run over a tunnel-edge whose
\* documents cannot be updated), and what may run for ever is change, in the loop that waits
\* for the tunnel-cloud Service (waitTunnelCloudReady, kubeadm.go:239), which by then is
\* there, while every Get of it fails.
Waits == Running /\ ThisStage.onError = "retry" /\ Accepts(ThisCall)
EveryCommandEnds == []<>~Running \/ <>[]Waits
=============================================================================
