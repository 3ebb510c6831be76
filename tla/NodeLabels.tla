----------------------------- MODULE NodeLabels -----------------------------
(***************************************************************************)
(* Labels of nodes.  init and join add theirs (AddNodeLabel), a helper     *)
(* takes labels away (DeleteNodeLabel), "change label" puts the change     *)
(* label on many nodes and revert takes it away again.  All but the third  *)
(* read the node and write the whole of it back, while the kubelet and     *)
(* others write the same nodes: an Update of a node that was written since *)
(* it was read is refused.                                                 *)
(***************************************************************************)
EXTENDS Naturals

CONSTANTS
  Node,
  Callers,     \* edgeadm processes
  Operations,  \* what they run: subset of {"add", "delete", "label", "revert"}
  Key,         \* the keys labels have
  Wanted,      \* the keys AddNodeLabel and DeleteNodeLabel are called with
  ChangeKey,   \* the key "change label" and revert are about
  MaxTries     \* how often a poll tries before its time is up (3 minutes, each second)

ASSUME OperationsAssumption == Operations \subseteq {"add", "delete", "label", "revert"}
ASSUME KeysAssumption == Wanted \subseteq Key /\ ChangeKey \in Key
ASSUME TriesAssumption == MaxTries \in Nat

VARIABLES
  labels,   \* per node and key: "on" (the value the callers mean), "off" (another), "unset"
  copy,     \* per caller and node: the labels it read, and whether the node is unwritten since
  pc,       \* per caller: "get", "update", "wait", "list" or "each", "idle" between calls
  call,     \* per caller: its operation and the node it is about
  queue,    \* per caller: the nodes a loop has still to do
  tries,    \* per caller: how often its poll has tried
  answer    \* per caller: what its last call returned

vars == <<labels, copy, pc, call, queue, tries, answer>>

Values == {"on", "off", "unset"}
LabelSets == [Key -> Values]
Unset == [k \in Key |-> "unset"]
Copies == [Node -> [labels : LabelSets, current : BOOLEAN]]
NoCopies == [n \in Node |-> [labels |-> Unset, current |-> FALSE]]

\* The state is well typed; a poll never tries more often than its time allows
\* (wait.PollImmediate).
TypeOK ==
  /\ labels \in [Node -> LabelSets]
  /\ copy \in [Callers -> Copies]
  /\ pc \in [Callers -> {"idle", "get", "update", "wait", "list", "each"}]
  /\ call \in [Callers -> [op : {"none"} \cup Operations, nodes : SUBSET Node]]
  /\ queue \in [Callers -> SUBSET Node]
  /\ tries \in [Callers -> 0..MaxTries]
  /\ answer \in [Callers -> {"none", "ok", "error"}]

NoCall == [op |-> "none", nodes |-> {}]

Init ==
  /\ labels \in [Node -> LabelSets]
  /\ copy = [c \in Callers |-> NoCopies]
  /\ pc = [c \in Callers |-> "idle"] /\ call = [c \in Callers |-> NoCall]
  /\ queue = [c \in Callers |-> {}] /\ tries = [c \in Callers |-> 0]
  /\ answer = [c \in Callers |-> "none"]

Goto(c, step) == pc' = [pc EXCEPT ![c] = step]

Put(have, keys) == [k \in Key |-> IF k \in keys THEN "on" ELSE have[k]]
\* delete(node.Labels, key), for those of keys that have the given value
TakeOff(have, keys) ==
  [k \in Key |-> IF k \in keys /\ have[k] = "on" THEN "unset" ELSE have[k]]

Stale(copies, n) ==
  [m \in Node |-> [labels |-> copies[m].labels, current |-> copies[m].current /\ m # n]]

\* Node n gets new labels, whoever writes it: every copy of it is out of date.  The
\* callers in done have no use for their copies any more.
Write(n, new, done) ==
  /\ labels' = [labels EXCEPT ![n] = new]
  /\ copy' = [c \in Callers |-> IF c \in done THEN NoCopies ELSE Stale(copy[c], n)]

Fresh(nodes) ==
  [n \in Node |-> IF n \in nodes THEN [labels |-> labels[n], current |-> TRUE]
                  ELSE [labels |-> Unset, current |-> FALSE]]
Read(c, nodes) == copy' = [copy EXCEPT ![c] = Fresh(nodes)]

Forget(c) == copy' = [copy EXCEPT ![c] = NoCopies] /\ UNCHANGED labels

\* The call returns; what it counted is gone.
Return(c, result) ==
  /\ Goto(c, "idle")
  /\ answer' = [answer EXCEPT ![c] = result]
  /\ call' = [call EXCEPT ![c] = NoCall]
  /\ queue' = [queue EXCEPT ![c] = {}] /\ tries' = [tries EXCEPT ![c] = 0]

Running(c, op, step) == call[c].op = op /\ pc[c] = step

----------------------------------------------------------------------------
(***************************************************************************)
(* What some of the steps below would be with a bug one could well write.  *)
(***************************************************************************)
\* the labels written to a fresh node object, without the resourceVersion that was read
AddForgetsVersion(c) ==
  /\ Running(c, "add", "update")
  /\ \E n \in call[c].nodes : Write(n, Put(copy[c][n].labels, Wanted), {c})
  /\ Return(c, "ok")
\* "return true, nil" after the error of the Update was logged
AddIgnoresRefusal(c) ==
  /\ Running(c, "add", "update")
  /\ \/ \E n \in call[c].nodes :
          copy[c][n].current /\ Write(n, Put(copy[c][n].labels, Wanted), {c})
     \/ Forget(c)
  /\ Return(c, "ok")
\* one try more than the time allows
RetryOnceMore(c) ==
  /\ pc[c] = "wait" /\ tries[c] <= MaxTries
  /\ tries' = [tries EXCEPT ![c] = @ + 1] /\ Goto(c, "get")
  /\ UNCHANGED <<labels, copy, call, queue, answer>>
\* a poll that goes on until it succeeds
RetryForever(c) ==
  /\ pc[c] = "wait"
  /\ Goto(c, "get") /\ UNCHANGED <<labels, copy, call, queue, tries, answer>>

----------------------------------------------------------------------------
\* AddNodeLabel and DeleteNodeLabel poll one node; the two loops go over many.
Start(c, op, nodes) ==
  /\ pc[c] = "idle"
  /\ op \in {"add", "delete"} => \E n \in Node : nodes = {n}
  /\ Goto(c, IF op \in {"add", "delete"} THEN "get" ELSE "list")
  /\ call' = [call EXCEPT ![c] = [op |-> op, nodes |-> nodes]]
  /\ answer' = [answer EXCEPT ![c] = "none"]
  /\ UNCHANGED <<labels, copy, queue, tries>>

\* One try of either poll begins with a Get, any error of which (the node may not be
\* registered yet) only means that it tries again.
GetNode(c) ==
  /\ pc[c] = "get"
  /\ \/ Read(c, call[c].nodes) /\ Goto(c, "update")
     \/ Goto(c, "wait") /\ UNCHANGED copy
  /\ UNCHANGED <<labels, call, queue, tries, answer>>

\* The Update of a copy that is current is applied; its reply may still be lost.
Update(c, n, new, done) == copy[c][n].current /\ Write(n, new, done)

\* AddNodeLabel: any error of the Update, a refusal too, means another try.
AddNodeLabel(c) ==
  /\ Running(c, "add", "update")
  /\ \/ \E n \in call[c].nodes :
          /\ Update(c, n, Put(copy[c][n].labels, Wanted), {c})
          /\ \/ Return(c, "ok")
             \/ Goto(c, "wait") /\ UNCHANGED <<call, queue, tries, answer>>
     \/ Forget(c) /\ Goto(c, "wait") /\ UNCHANGED <<call, queue, tries, answer>>

\* DeleteNodeLabel: an error of the Update ends the poll.
DeleteNodeLabel(c) ==
  /\ Running(c, "delete", "update")
  /\ \/ \E n \in call[c].nodes :
          /\ Update(c, n, TakeOff(copy[c][n].labels, Wanted), {c})
          /\ Return(c, "ok") \/ Return(c, "error")
     \/ Forget(c) /\ Return(c, "error")

\* The poll sleeps a second and tries again, until its time is up.
Retry(c) ==
  /\ pc[c] = "wait" /\ tries[c] < MaxTries
  /\ tries' = [tries EXCEPT ![c] = @ + 1] /\ Goto(c, "get")
  /\ UNCHANGED <<labels, copy, call, queue, answer>>

\* A try may take long: the time can be up after any number of them.
TimeOut(c) == pc[c] = "wait" /\ Return(c, "error") /\ UNCHANGED <<labels, copy>>

\* "change label" lists the nodes it is asked for, revert those with the change label.
ListNodes(c) ==
  /\ pc[c] = "list"
  /\ \/ LET found == {n \in Node : IF call[c].op = "label" THEN n \in call[c].nodes
                                   ELSE labels[n][ChangeKey] = "on"}
        IN  /\ Read(c, found) /\ queue' = [queue EXCEPT ![c] = found]
            /\ Goto(c, "each") /\ UNCHANGED <<call, tries, answer>>
     \/ Return(c, "error") /\ UNCHANGED copy
  /\ UNCHANGED labels

Done(c, n) ==
  queue' = [queue EXCEPT ![c] = @ \ {n}] /\ UNCHANGED <<pc, call, tries, answer>>

\* The first error ends either loop, whether the call that failed was applied or not.
LoopFails(c) == pc[c] = "each" /\ queue[c] # {} /\ Return(c, "error")

\* labelToEdgeNode: a patch of nothing but the label.
LabelToEdgeNode(c) ==
  /\ Running(c, "label", "each")
  /\ \/ \E n \in queue[c] :
          \/ Write(n, Put(labels[n], {ChangeKey}), {}) /\ Done(c, n)
          \/ Write(n, Put(labels[n], {ChangeKey}), {c}) /\ LoopFails(c)
     \/ Forget(c) /\ LoopFails(c)

\* deleteNodeLabel of revert: Updates of what the List returned, no second try.
RevertNodeLabel(c) ==
  /\ Running(c, "revert", "each")
  /\ \/ \E n \in queue[c] : LET new == TakeOff(copy[c][n].labels, {ChangeKey}) IN
          \/ Update(c, n, new, {}) /\ Done(c, n)
          \/ Update(c, n, new, {c}) /\ LoopFails(c)
     \/ Forget(c) /\ LoopFails(c)

LoopEnds(c) ==
  pc[c] = "each" /\ queue[c] = {} /\ Return(c, "ok") /\ Forget(c)

\* The kubelet, a controller or an administrator: a heartbeat leaves the labels alone, and a
\* node that is deleted and registers again has none.
SomebodyWrites(n) ==
  /\ \E new \in LabelSets : Write(n, new, {})
  /\ UNCHANGED <<pc, call, queue, tries, answer>>

Step(c) ==
  \/ GetNode(c) \/ AddNodeLabel(c) \/ DeleteNodeLabel(c) \/ Retry(c) \/ TimeOut(c)
  \/ ListNodes(c) \/ LabelToEdgeNode(c) \/ RevertNodeLabel(c) \/ LoopEnds(c)

Next ==
  \/ \E c \in Callers : Step(c)
  \/ \E c \in Callers, op \in Operations, nodes \in SUBSET Node : Start(c, op, nodes)
  \/ \E n \in Node : SomebodyWrites(n)

\* An API call returns or times out, and time passes.
Spec == Init /\ [][Next]_vars /\ \A c \in Callers : WF_vars(Step(c))

----------------------------------------------------------------------------
OwnKeys(c) == IF call[c].op \in {"add", "delete"} THEN Wanted ELSE {ChangeKey}
NewValue(c) == IF call[c].op \in {"add", "label"} THEN "on" ELSE "unset"

\* No change that somebody else made to a node is lost: although they write back whole
\* nodes they read earlier, the steps of a call set or take off its own labels and leave
\* every other label as it is at that moment (AddNodeLabel, DeleteNodeLabel, the loops of
\* "change label" and revert).
NoChangeLost ==
  [][\A c \in Callers : pc'[c] # pc[c] \/ queue'[c] # queue[c] =>
       \A n \in Node, k \in Key : labels'[n][k] # labels[n][k] =>
         k \in OwnKeys(c) /\ labels'[n][k] = NewValue(c)]_vars

\* AddNodeLabel returns nil only when the node has the labels, DeleteNodeLabel only when it
\* has them no more, however many tries were refused or lost before.
SuccessIsReal ==
  [][\A c \in Callers : answer[c] # "ok" /\ answer'[c] = "ok" =>
       \A n \in call[c].nodes, k \in Wanted :
         /\ call[c].op = "add" => labels'[n][k] = "on"
         /\ call[c].op = "delete" => labels'[n][k] # "on"]_vars

\* Every call ends, with an error at the latest when its time is up, even if the node never
\* registers or is written again before each Update.
CallsEnd == \A c \in Callers : pc[c] # "idle" ~> pc[c] = "idle"
=============================================================================
