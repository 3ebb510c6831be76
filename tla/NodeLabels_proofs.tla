-------------------------- MODULE NodeLabels_proofs --------------------------
(***************************************************************************)
(* Labels of nodes: what the run of NodeLabels checks on two nodes holds   *)
(* for any nodes, callers, keys and number of tries.                       *)
(***************************************************************************)
EXTENDS NodeLabels, TLAPS

\* A copy that nobody has made stale is the node as it is.
CopyInv == \A c \in Callers, n \in Node : copy[c][n].current => copy[c][n].labels = labels[n]

\* The polls are about one node, the loops run only in the other two operations.
CallInv ==
  \A c \in Callers :
    /\ pc[c] \in {"get", "update", "wait"} =>
         call[c].op \in {"add", "delete"} /\ \E n \in Node : call[c].nodes = {n}
    /\ pc[c] \in {"list", "each"} => call[c].op \in {"label", "revert"}

Inv == TypeOK /\ CopyInv /\ CallInv

LEMMA LabelsTyped ==
  ASSUME NEW have \in LabelSets, NEW keys
  PROVE  Put(have, keys) \in LabelSets /\ TakeOff(have, keys) \in LabelSets
BY DEF LabelSets, Values, Put, TakeOff

LEMMA CopiesTyped ==
  ASSUME TypeOK, NEW copies \in Copies, NEW n, NEW nodes
  PROVE  NoCopies \in Copies /\ Stale(copies, n) \in Copies /\ Fresh(nodes) \in Copies
<1>1. Unset \in LabelSets
  BY DEF Unset, LabelSets, Values
<1>2. NoCopies \in Copies
  BY <1>1 DEF NoCopies, Copies
<1>3. Stale(copies, n) \in Copies
  <2>1. ASSUME NEW m \in Node
        PROVE  [labels |-> copies[m].labels, current |-> copies[m].current /\ m # n]
                 \in [labels : LabelSets, current : BOOLEAN]
    BY DEF Copies
  <2> QED
    BY <2>1 DEF Copies, Stale
<1>4. Fresh(nodes) \in Copies
  BY <1>1 DEF Fresh, Copies, TypeOK
<1> QED
  BY <1>2, <1>3, <1>4

DataOK == labels \in [Node -> LabelSets] /\ copy \in [Callers -> Copies] /\ CopyInv

\* The three ways to change a copy keep the types, and the current copies true.
LEMMA WriteKeeps ==
  ASSUME TypeOK, CopyInv, NEW n \in Node, NEW new \in LabelSets, NEW done, Write(n, new, done)
  PROVE  DataOK'
<1>1. labels' \in [Node -> LabelSets]
  BY DEF TypeOK, Write
<1>2. copy' \in [Callers -> Copies]
  BY CopiesTyped DEF TypeOK, Write
<1>3. CopyInv'
  BY DEF TypeOK, CopyInv, Write, Stale, NoCopies
<1> QED
  BY <1>1, <1>2, <1>3 DEF DataOK

LEMMA ReadKeeps ==
  ASSUME TypeOK, CopyInv, NEW c \in Callers, NEW nodes, Read(c, nodes), UNCHANGED labels
  PROVE  DataOK'
<1>1. copy' \in [Callers -> Copies]
  BY CopiesTyped DEF TypeOK, Read
<1>2. CopyInv'
  BY DEF TypeOK, CopyInv, Read, Fresh
<1> QED
  BY <1>1, <1>2 DEF DataOK, TypeOK

LEMMA ForgetKeeps ==
  ASSUME TypeOK, CopyInv, NEW c \in Callers, Forget(c)
  PROVE  DataOK'
<1>1. copy' \in [Callers -> Copies]
  BY CopiesTyped DEF TypeOK, Forget
<1>2. CopyInv'
  BY DEF TypeOK, CopyInv, Forget, NoCopies
<1> QED
  BY <1>1, <1>2 DEF DataOK, TypeOK, Forget

\* Everything but the data: where each caller is and what it counts.
ControlOK ==
  /\ pc \in [Callers -> {"idle", "get", "update", "wait", "list", "each"}]
  /\ call \in [Callers -> [op : {"none"} \cup Operations, nodes : SUBSET Node]]
  /\ queue \in [Callers -> SUBSET Node]
  /\ tries \in [Callers -> 0..MaxTries]
  /\ answer \in [Callers -> {"none", "ok", "error"}]
  /\ CallInv

LEMMA Parts == Inv <=> DataOK /\ ControlOK
BY DEF Inv, TypeOK, DataOK, ControlOK

LEMMA NextParts == DataOK' /\ ControlOK' => Inv'
BY DEF Inv, TypeOK, DataOK, ControlOK

LEMMA ReturnKeeps ==
  ASSUME ControlOK, NEW c \in Callers, NEW result \in {"ok", "error"}, Return(c, result)
  PROVE  ControlOK'
<1>1. NoCall \in [op : {"none"} \cup Operations, nodes : SUBSET Node]
  BY DEF NoCall
<1>2. CallInv'
  BY DEF ControlOK, CallInv, Return, Goto
<1> QED
  BY <1>1, <1>2, TriesAssumption DEF ControlOK, Return, Goto

\* A poll moves on within its call.
LEMMA PollKeeps ==
  ASSUME ControlOK, NEW c \in Callers, pc[c] \in {"get", "update", "wait"},
         NEW step \in {"get", "update", "wait"}, Goto(c, step),
         UNCHANGED <<call, queue, answer>>, tries' \in [Callers -> 0..MaxTries]
  PROVE  ControlOK'
<1>1. CallInv'
  BY DEF ControlOK, CallInv, Goto
<1> QED
  BY <1>1 DEF ControlOK, Goto

LEMMA StartKeeps ==
  ASSUME Inv, NEW c \in Callers, NEW op \in Operations, NEW nodes \in SUBSET Node,
         Start(c, op, nodes)
  PROVE  Inv'
<1>1. DataOK'
  BY Parts DEF DataOK, CopyInv, Start
<1>2. CallInv'
  BY OperationsAssumption DEF Inv, TypeOK, CallInv, Start, Goto
<1>3. ControlOK'
  BY <1>2 DEF Inv, TypeOK, ControlOK, Start, Goto
<1> QED
  BY <1>1, <1>3, NextParts

LEMMA PollStepKeeps ==
  ASSUME Inv, NEW c \in Callers,
         GetNode(c) \/ AddNodeLabel(c) \/ DeleteNodeLabel(c) \/ Retry(c) \/ TimeOut(c)
  PROVE  Inv'
<1> USE DEF Inv
<1>1. ControlOK
  BY Parts
<1>2. CASE GetNode(c)
  <2>1. DataOK'
    BY <1>2, ReadKeeps DEF GetNode, DataOK, TypeOK, CopyInv
  <2>2. ControlOK'
    BY <1>1, <1>2, PollKeeps DEF GetNode, ControlOK
  <2> QED
    BY <2>1, <2>2, NextParts
<1>3. CASE AddNodeLabel(c)
  <2>1. ASSUME NEW n \in call[c].nodes PROVE Put(copy[c][n].labels, Wanted) \in LabelSets /\ n \in Node
    BY LabelsTyped DEF TypeOK, Copies
  <2>2. DataOK'
    BY <1>3, <2>1, WriteKeeps, ForgetKeeps DEF AddNodeLabel, Update
  <2>3. ControlOK'
    BY <1>1, <1>3, PollKeeps, ReturnKeeps DEF AddNodeLabel, Running, ControlOK
  <2> QED
    BY <2>2, <2>3, NextParts
<1>4. CASE DeleteNodeLabel(c)
  <2>1. ASSUME NEW n \in call[c].nodes
        PROVE  TakeOff(copy[c][n].labels, Wanted) \in LabelSets /\ n \in Node
    BY LabelsTyped DEF TypeOK, Copies
  <2>2. DataOK'
    BY <1>4, <2>1, WriteKeeps, ForgetKeeps DEF DeleteNodeLabel, Update
  <2>3. ControlOK'
    BY <1>1, <1>4, ReturnKeeps DEF DeleteNodeLabel
  <2> QED
    BY <2>2, <2>3, NextParts
<1>5. CASE Retry(c)
  <2>1. DataOK'
    BY <1>5 DEF Retry, DataOK, TypeOK, CopyInv
  <2>2. tries' \in [Callers -> 0..MaxTries]
    BY <1>5, TriesAssumption DEF Retry, TypeOK
  <2>3. ControlOK'
    BY <1>1, <1>5, <2>2, PollKeeps DEF Retry
  <2> QED
    BY <2>1, <2>3, NextParts
<1>6. CASE TimeOut(c)
  <2>1. DataOK'
    BY <1>6 DEF TimeOut, DataOK, TypeOK, CopyInv
  <2>2. ControlOK'
    BY <1>1, <1>6, ReturnKeeps DEF TimeOut
  <2> QED
    BY <2>1, <2>2, NextParts
<1> QED
  BY <1>2, <1>3, <1>4, <1>5, <1>6

LEMMA LoopStepKeeps ==
  ASSUME Inv, NEW c \in Callers,
         ListNodes(c) \/ LabelToEdgeNode(c) \/ RevertNodeLabel(c) \/ LoopEnds(c)
  PROVE  Inv'
<1> USE DEF Inv
<1>1. ControlOK
  BY Parts
<1>2. ASSUME NEW n \in queue[c], Done(c, n) PROVE ControlOK'
  BY <1>1, <1>2 DEF Done, ControlOK, CallInv
<1>3. CASE ListNodes(c)
  <2>1. DataOK'
    BY <1>3, ReadKeeps DEF ListNodes, DataOK, TypeOK, CopyInv
  <2>2. ASSUME NEW found \in SUBSET Node, queue' = [queue EXCEPT ![c] = found],
               Goto(c, "each"), UNCHANGED <<call, tries, answer>>
        PROVE  ControlOK'
    BY <1>1, <1>3, <2>2 DEF ListNodes, ControlOK, CallInv, Goto
  <2>3. ControlOK'
    BY <1>1, <1>3, <2>2, ReturnKeeps DEF ListNodes
  <2> QED
    BY <2>1, <2>3, NextParts
<1>4. CASE LabelToEdgeNode(c)
  <2>1. ASSUME NEW n \in queue[c] PROVE Put(labels[n], {ChangeKey}) \in LabelSets /\ n \in Node
    BY LabelsTyped DEF TypeOK
  <2>2. DataOK'
    BY <1>4, <2>1, WriteKeeps, ForgetKeeps DEF LabelToEdgeNode
  <2>3. ControlOK'
    BY <1>1, <1>2, <1>4, ReturnKeeps DEF LabelToEdgeNode, LoopFails
  <2> QED
    BY <2>2, <2>3, NextParts
<1>5. CASE RevertNodeLabel(c)
  <2>1. ASSUME NEW n \in queue[c]
        PROVE  TakeOff(copy[c][n].labels, {ChangeKey}) \in LabelSets /\ n \in Node
    BY LabelsTyped DEF TypeOK, Copies
  <2>2. DataOK'
    BY <1>5, <2>1, WriteKeeps, ForgetKeeps DEF RevertNodeLabel, Update
  <2>3. ControlOK'
    BY <1>1, <1>2, <1>5, ReturnKeeps DEF RevertNodeLabel, LoopFails
  <2> QED
    BY <2>2, <2>3, NextParts
<1>6. CASE LoopEnds(c)
  BY <1>1, <1>6, ForgetKeeps, ReturnKeeps, NextParts DEF LoopEnds
<1> QED
  BY <1>3, <1>4, <1>5, <1>6

LEMMA InitInv == Init => Inv
<1> SUFFICES ASSUME Init PROVE Inv
  OBVIOUS
<1>1. Unset \in LabelSets
  BY DEF Unset, LabelSets, Values
<1>2. copy \in [Callers -> Copies] /\ CopyInv
  BY <1>1 DEF Init, NoCopies, Copies, CopyInv
<1> QED
  BY <1>2, TriesAssumption DEF Init, Inv, TypeOK, CallInv, NoCall

LEMMA NextInv == Inv /\ [Next]_vars => Inv'
<1> SUFFICES ASSUME Inv, [Next]_vars PROVE Inv'
  OBVIOUS
<1>1. ASSUME NEW c \in Callers, Step(c) PROVE Inv'
  BY <1>1, PollStepKeeps, LoopStepKeeps DEF Step
<1>2. ASSUME NEW n \in Node, SomebodyWrites(n) PROVE Inv'
  <2>1. DataOK'
    BY <1>2, WriteKeeps DEF SomebodyWrites, Inv
  <2>2. ControlOK'
    BY <1>2 DEF SomebodyWrites, Inv, TypeOK, ControlOK, CallInv
  <2> QED
    BY <2>1, <2>2, NextParts
<1>3. CASE UNCHANGED vars
  BY <1>3 DEF vars, Inv, TypeOK, CopyInv, CallInv
<1> QED
  BY <1>1, <1>2, <1>3, StartKeeps DEF Next

\* The state stays well-typed; a poll in particular never tries more often than it may.
THEOREM TypeCorrect == Spec => []TypeOK
<1>1. Inv => TypeOK
  BY DEF Inv
<1> QED
  BY <1>1, InitInv, NextInv, PTL DEF Spec

\* Between any two steps current copies are true, and a poll is about one node (AddNodeLabel,
\* DeleteNodeLabel).
THEOREM Invariance == Spec => []Inv
BY InitInv, NextInv, PTL DEF Spec

----------------------------------------------------------------------------
LEMMA StepLosesNothing ==
  ASSUME Inv, NEW c \in Callers, Step(c), NEW n \in Node, NEW k \in Key,
         labels'[n][k] # labels[n][k]
  PROVE  k \in OwnKeys(c) /\ labels'[n][k] = NewValue(c)
<1> USE DEF Inv, TypeOK
<1>1. CASE AddNodeLabel(c)
  <2>1. PICK m \in call[c].nodes : Update(c, m, Put(copy[c][m].labels, Wanted), {c})
    BY <1>1 DEF AddNodeLabel, Forget
  <2>2. copy[c][m].labels = labels[m]
    BY <2>1 DEF Update, CopyInv
  <2> QED
    BY <1>1, <2>1, <2>2 DEF Update, Write, Put, OwnKeys, NewValue, AddNodeLabel, Running
<1>2. CASE DeleteNodeLabel(c)
  <2>1. PICK m \in call[c].nodes : Update(c, m, TakeOff(copy[c][m].labels, Wanted), {c})
    BY <1>2 DEF DeleteNodeLabel, Forget
  <2>2. copy[c][m].labels = labels[m]
    BY <2>1 DEF Update, CopyInv
  <2> QED
    BY <1>2, <2>1, <2>2 DEF Update, Write, TakeOff, OwnKeys, NewValue, DeleteNodeLabel, Running
<1>3. CASE LabelToEdgeNode(c)
  <2>1. PICK m \in queue[c] : \E done : Write(m, Put(labels[m], {ChangeKey}), done)
    BY <1>3 DEF LabelToEdgeNode, Forget
  <2> QED
    BY <1>3, <2>1 DEF Write, Put, OwnKeys, NewValue, LabelToEdgeNode, Running
<1>4. CASE RevertNodeLabel(c)
  <2>1. PICK m \in queue[c] :
           \E done : Update(c, m, TakeOff(copy[c][m].labels, {ChangeKey}), done)
    BY <1>4 DEF RevertNodeLabel, Forget
  <2>2. copy[c][m].labels = labels[m]
    BY <2>1 DEF Update, CopyInv
  <2> QED
    BY <1>4, <2>1, <2>2 DEF Update, Write, TakeOff, OwnKeys, NewValue, RevertNodeLabel, Running
<1>5. CASE GetNode(c) \/ Retry(c) \/ TimeOut(c) \/ ListNodes(c) \/ LoopEnds(c)
  BY <1>5 DEF GetNode, Retry, TimeOut, ListNodes, LoopEnds, Forget
<1> QED
  BY <1>1, <1>2, <1>3, <1>4, <1>5 DEF Step

\* Steps of other callers and of the surroundings are not steps of c.
LEMMA OwnStep ==
  ASSUME Inv, NEW c \in Callers, [Next]_vars, pc'[c] # pc[c] \/ queue'[c] # queue[c]
  PROVE  Step(c) \/ UNCHANGED labels
<1> USE DEF Inv, TypeOK
<1>1. ASSUME NEW d \in Callers, Step(d) PROVE Step(c)
  <2>1. \/ \E step : Goto(d, step) /\ UNCHANGED queue
        \/ \E result : Return(d, result)
        \/ \E nodes : queue' = [queue EXCEPT ![d] = nodes] /\ UNCHANGED pc
        \/ \E nodes : queue' = [queue EXCEPT ![d] = nodes] /\ Goto(d, "each")
    BY <1>1 DEF Step, GetNode, AddNodeLabel, DeleteNodeLabel, Retry, TimeOut, ListNodes,
         LabelToEdgeNode, RevertNodeLabel, LoopEnds, LoopFails, Done
  <2>2. c = d
    BY <2>1 DEF Goto, Return
  <2> QED
    BY <1>1, <2>2
<1> QED
  BY <1>1 DEF Next, Start, SomebodyWrites, vars

\* No update of somebody else is lost, whatever the callers read before: for any number of
\* nodes, callers, keys and tries.
THEOREM NoChangeEverLost == Spec => NoChangeLost
<1>1. ASSUME Inv, [Next]_vars, NEW c \in Callers,
             pc'[c] # pc[c] \/ queue'[c] # queue[c],
             NEW n \in Node, NEW k \in Key, labels'[n][k] # labels[n][k]
      PROVE  k \in OwnKeys(c) /\ labels'[n][k] = NewValue(c)
  BY <1>1, OwnStep, StepLosesNothing
<1>2. Inv /\ [Next]_vars =>
        [\A c \in Callers : pc'[c] # pc[c] \/ queue'[c] # queue[c] =>
           \A n \in Node, k \in Key : labels'[n][k] # labels[n][k] =>
             k \in OwnKeys(c) /\ labels'[n][k] = NewValue(c)]_vars
  BY <1>1
<1> QED
  BY <1>2, Invariance, PTL DEF Spec, NoChangeLost

\* What AddNodeLabel and DeleteNodeLabel report as done is done at that moment.
THEOREM SuccessAlwaysReal == Spec => SuccessIsReal
<1>1. ASSUME Inv, [Next]_vars, NEW c \in Callers, answer[c] # "ok", answer'[c] = "ok",
             NEW n \in call[c].nodes, NEW k \in Wanted
      PROVE  /\ call[c].op = "add" => labels'[n][k] = "on"
             /\ call[c].op = "delete" => labels'[n][k] # "on"
  <2> USE DEF Inv, TypeOK
  <2>1. PICK d \in Callers : Step(d)
    BY <1>1 DEF Next, Start, SomebodyWrites, vars
  <2>2. \/ AddNodeLabel(d) /\ Return(d, "ok")
        \/ DeleteNodeLabel(d) /\ Return(d, "ok")
        \/ LoopEnds(d)
        \/ UNCHANGED answer
        \/ Return(d, "error")
    BY <2>1 DEF Step, GetNode, AddNodeLabel, DeleteNodeLabel, Retry, TimeOut, ListNodes,
         LabelToEdgeNode, RevertNodeLabel, LoopFails, Done
  <2>3. c = d
    BY <1>1, <2>2 DEF Return, LoopEnds
  <2>4. k \in Key /\ n \in Node
    BY <1>1, KeysAssumption
  <2>5. CASE AddNodeLabel(c) /\ Return(c, "ok")
    <3>1. PICK m \in call[c].nodes : Update(c, m, Put(copy[c][m].labels, Wanted), {c})
      BY <1>1, <2>5 DEF AddNodeLabel, Return, Goto
    <3>2. m = n
      BY <1>1, <2>5 DEF AddNodeLabel, Running, CallInv
    <3> QED
      BY <1>1, <2>4, <2>5, <3>1, <3>2 DEF Update, Write, Put, AddNodeLabel, Running
  <2>6. CASE DeleteNodeLabel(c) /\ Return(c, "ok")
    <3>1. PICK m \in call[c].nodes : Update(c, m, TakeOff(copy[c][m].labels, Wanted), {c})
      BY <1>1, <2>6 DEF DeleteNodeLabel, Return, Goto
    <3>2. m = n
      BY <1>1, <2>6 DEF DeleteNodeLabel, Running, CallInv
    <3> QED
      BY <1>1, <2>4, <2>6, <3>1, <3>2 DEF Update, Write, TakeOff, DeleteNodeLabel, Running
  <2>7. CASE LoopEnds(c)
    BY <1>1, <2>7 DEF LoopEnds, CallInv
  <2>8. CASE UNCHANGED answer \/ Return(c, "error")
    BY <1>1, <2>8 DEF Return
  <2> QED
    BY <2>2, <2>3, <2>5, <2>6, <2>7, <2>8
<1>2. Inv /\ [Next]_vars =>
        [\A c \in Callers : answer[c] # "ok" /\ answer'[c] = "ok" =>
           \A n \in call[c].nodes, k \in Wanted :
             /\ call[c].op = "add" => labels'[n][k] = "on"
             /\ call[c].op = "delete" => labels'[n][k] # "on"]_vars
  BY <1>1
<1> QED
  BY <1>2, Invariance, PTL DEF Spec, SuccessIsReal
=============================================================================
