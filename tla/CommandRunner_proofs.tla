------------------------ MODULE CommandRunner_proofs ------------------------
(***************************************************************************)
(* Theorems of CommandRunner: they hold for every plan that meets the      *)
(* assumptions of the module, whatever documents it has, and for any number*)
(* of failures and interruptions.                                          *)
(***************************************************************************)
EXTENDS CommandRunner, TLAPS

(***************************************************************************)
(* Places in a plan                                                        *)
(***************************************************************************)
Place(c, s, p, t, n, k) ==
  /\ s \in DOMAIN Plan[c]
  /\ p \in DOMAIN Plan[c][s].parts
  /\ t \subseteq DOMAIN Plan[c][s].parts \ {p}
  /\ n \in DOMAIN Plan[c][s].parts[p]
  /\ k \in 1..MaxTries

\* A plan is a sequence that is not empty.
LEMMA PlanShape ==
  ASSUME NEW c \in Command
  PROVE  /\ Len(Plan[c]) \in Nat \ {0}
         /\ DOMAIN Plan[c] = 1..Len(Plan[c])
         /\ \A s \in DOMAIN Plan[c] : Plan[c][s] \in Stages
<1>1. Plan[c] \in Seq(Stages) \ {<<>>}
  BY PlanAssumption
<1> QED
  BY <1>1

\* So are the parts of a stage, and a part.
LEMMA StageShape ==
  ASSUME NEW c \in Command, NEW s \in DOMAIN Plan[c]
  PROVE  /\ Plan[c][s].onError \in {"return", "drop", "poll", "retry"}
         /\ DOMAIN Plan[c][s].parts # {}
         /\ \A p \in DOMAIN Plan[c][s].parts :
              /\ Plan[c][s].parts[p] \in Seq(CallRecords)
              /\ Len(Plan[c][s].parts[p]) \in Nat \ {0}
              /\ DOMAIN Plan[c][s].parts[p] = 1..Len(Plan[c][s].parts[p])
<1> DEFINE parts == Plan[c][s].parts
<1>1. Plan[c][s] \in Stages
  BY PlanShape
<1>2. parts \in Seq(Seq(CallRecords) \ {<<>>}) \ {<<>>}
  BY <1>1 DEF Stages
<1>3. DOMAIN parts # {}
  <2>1. Len(parts) \in Nat \ {0} /\ DOMAIN parts = 1..Len(parts)
    BY <1>2
  <2>2. 1 \in 1..Len(parts)
    BY <2>1
  <2> QED
    BY <2>1, <2>2
<1>4. \A p \in DOMAIN parts : parts[p] \in Seq(CallRecords) \ {<<>>}
  BY <1>2
<1>5. ASSUME NEW p \in DOMAIN parts
      PROVE  /\ Len(parts[p]) \in Nat \ {0}
             /\ DOMAIN parts[p] = 1..Len(parts[p])
  BY <1>4
<1> QED
  BY <1>1, <1>3, <1>4, <1>5 DEF Stages

\* A call at a place of a plan is one about the documents of its application.
LEMMA CallShape ==
  ASSUME NEW c \in Command, NEW s \in DOMAIN Plan[c], NEW p \in DOMAIN Plan[c][s].parts,
         NEW n \in DOMAIN Plan[c][s].parts[p]
  PROVE  LET call == Plan[c][s].parts[p][n] IN
         /\ call \in CallRecords
         /\ call \in CallsIn(Plan[c][s])
         /\ c.app \in Application
         /\ call.doc \in Documents[c.app]
<1> DEFINE call == Plan[c][s].parts[p][n]
<1>1. call \in CallRecords
  BY StageShape
<1>2. call \in CallsIn(Plan[c][s])
  BY DEF CallsIn
<1>3. call \in CallsOf(c)
  BY <1>2 DEF CallsOf
<1>4. c.app \in Application
  BY DEF Application
<1>5. c \in {k \in Command : k.app = c.app}
  OBVIOUS
<1>6. call \in UNION {CallsOf(k) : k \in {j \in Command : j.app = c.app}}
  BY <1>3, <1>5
<1>7. call.doc \in Documents[c.app]
  BY <1>4, <1>6 DEF Documents
<1> QED
  BY <1>1, <1>2, <1>4, <1>7

----------------------------------------------------------------------------
(***************************************************************************)
(* Types                                                                   *)
(***************************************************************************)
TypeInv ==
  /\ TypeOK
  /\ DOMAIN api = Documents[app]
  /\ outcome # "none" => command \in Command /\ command.app = app

\* Where a step of a running command leads to.
Moved ==
  \/ outcome' \in {"ok", "error", "refused"}
  \/ outcome' = "running" /\ Place(command, stage', part', todo', next', tries')

\* The call of a command that runs is one of its plan.
LEMMA CallTyped ==
  ASSUME TypeInv, Running
  PROVE  /\ command \in Command /\ command.app = app
         /\ Place(command, stage, part, todo, next, tries)
         /\ ThisCall \in CallRecords
         /\ ThisCall \in CallsIn(ThisStage)
         /\ ThisCall.doc \in DOMAIN api
<1>1. /\ command \in Command /\ command.app = app
      /\ Place(command, stage, part, todo, next, tries)
  BY DEF TypeInv, TypeOK, Place, ThisStage
<1>2. ThisCall \in CallRecords /\ ThisCall \in CallsIn(ThisStage)
  BY <1>1, CallShape DEF Place, ThisCall, ThisStage
<1>3. ThisCall.doc \in DOMAIN api
  BY DEF TypeInv, TypeOK
<1> QED
  BY <1>1, <1>2, <1>3

\* A stage starts with the first call of one of its parts.
LEMMA StagesStart ==
  ASSUME NEW c \in Command, NEW s \in DOMAIN Plan[c], NEW k \in 1..MaxTries, StartStage(c, s, k)
  PROVE  /\ outcome' = "running" /\ stage' = s /\ next' = 1
         /\ part' \in DOMAIN Plan[c][s].parts
         /\ todo' = DOMAIN Plan[c][s].parts \ {part'}
         /\ Place(c, stage', part', todo', next', tries')
<1>1. /\ outcome' = "running" /\ stage' = s /\ next' = 1 /\ tries' = k
      /\ part' \in DOMAIN Plan[c][s].parts
      /\ todo' = DOMAIN Plan[c][s].parts \ {part'}
  BY DEF StartStage, TakePart
<1>2. 1 \in DOMAIN Plan[c][s].parts[part']
  <2>1. /\ Len(Plan[c][s].parts[part']) \in Nat \ {0}
        /\ DOMAIN Plan[c][s].parts[part'] = 1..Len(Plan[c][s].parts[part'])
    BY <1>1, StageShape
  <2> QED
    BY <2>1
<1> QED
  BY <1>1, <1>2 DEF Place

LEMMA NextStageMoves ==
  ASSUME TypeInv, Running, NextStage
  PROVE  Moved
<1>1. /\ command \in Command /\ stage \in DOMAIN Plan[command]
      /\ Len(Plan[command]) \in Nat \ {0} /\ DOMAIN Plan[command] = 1..Len(Plan[command])
  BY CallTyped, PlanShape DEF Place
<1>2. CASE stage < Len(Plan[command])
  <2>1. stage + 1 \in DOMAIN Plan[command] /\ 1 \in 1..MaxTries
    BY <1>1, <1>2, BoundsAssumption
  <2>2. StartStage(command, stage + 1, 1)
    BY <1>2 DEF NextStage
  <2> QED
    BY <1>1, <2>1, <2>2, StagesStart DEF Moved
<1>3. CASE ~(stage < Len(Plan[command]))
  BY <1>3 DEF NextStage, Finish, Moved
<1> QED
  BY <1>2, <1>3

LEMMA AdvanceMoves ==
  ASSUME TypeInv, Running, Advance
  PROVE  Moved
<1> DEFINE parts == ThisStage.parts
<1>1. command \in Command /\ Place(command, stage, part, todo, next, tries)
  BY CallTyped
<1>2. \A p \in DOMAIN parts :
        Len(parts[p]) \in Nat \ {0} /\ DOMAIN parts[p] = 1..Len(parts[p])
  BY <1>1, StageShape DEF Place, ThisStage
<1>3. CASE /\ next < Len(parts[part]) /\ next' = next + 1
           /\ UNCHANGED <<outcome, stage, part, todo, tries>>
  <2>1. next' \in DOMAIN parts[part]
    BY <1>1, <1>2, <1>3 DEF Place, ThisStage
  <2> QED
    BY <1>1, <1>3, <2>1 DEF Place, Moved, ThisStage, Running
<1>4. CASE TakePart(todo) /\ UNCHANGED <<outcome, stage, tries>>
  <2>1. part' \in todo /\ todo' = todo \ {part'} /\ next' = 1
    BY <1>4 DEF TakePart
  <2>2. part' \in DOMAIN parts
    BY <1>1, <2>1 DEF Place, ThisStage
  <2>3. 1 \in DOMAIN parts[part']
    BY <1>2, <2>2
  <2> QED
    BY <1>1, <1>4, <2>1, <2>2, <2>3 DEF Place, Moved, ThisStage, Running
<1>5. CASE NextStage
  BY <1>5, NextStageMoves
<1> QED
  BY <1>3, <1>4, <1>5 DEF Advance

\* A count of tries stays within its bound.
LEMMA TriesCounted ==
  ASSUME tries \in 1..MaxTries
  PROVE  NextTry \in 1..MaxTries
BY BoundsAssumption DEF NextTry

LEMMA GiveUpMoves ==
  ASSUME TypeInv, Running, GiveUp
  PROVE  Moved
<1>1. command \in Command /\ Place(command, stage, part, todo, next, tries)
  BY CallTyped
<1>2. stage \in DOMAIN Plan[command] /\ tries \in 1..MaxTries
  BY <1>1 DEF Place
<1>3. CASE Finish("error")
  BY <1>3 DEF Finish, Moved
<1>4. CASE NextStage
  BY <1>4, NextStageMoves
<1>5. CASE StartStage(command, stage, NextTry)
  BY <1>1, <1>2, <1>5, TriesCounted, StagesStart DEF Moved
<1> QED
  BY <1>3, <1>4, <1>5 DEF GiveUp

\* A call leaves every document absent, old or new.
LEMMA AfterTyped ==
  ASSUME TypeOK, NEW call, call.doc \in DOMAIN api
  PROVE  /\ After(call) \in [DOMAIN api -> Ages]
         /\ DOMAIN After(call) = DOMAIN api
<1>1. api \in [DOMAIN api -> Ages] /\ "new" \in Ages /\ "none" \in Ages
  BY DEF TypeOK, Ages
<1>2. \A age \in Ages : [api EXCEPT ![call.doc] = age] \in [DOMAIN api -> Ages]
  BY <1>1
<1>3. Without(call.doc) \in [DOMAIN api -> Ages]
  <2>1. CASE call.doc.kind = "Namespace"
    <3>1. \A x \in DOMAIN api : api[x] \in Ages
      BY <1>1
    <3> QED
      BY <1>1, <2>1, <3>1 DEF Without
  <2>2. CASE call.doc.kind # "Namespace"
    BY <1>1, <1>2, <2>2 DEF Without
  <2> QED
    BY <2>1, <2>2
<1>4. After(call) \in [DOMAIN api -> Ages]
  BY <1>1, <1>2, <1>3 DEF After
<1> QED
  BY <1>4

\* What a step of a running command has to show to keep the types.
LEMMA StepTyped ==
  ASSUME TypeInv, Running, Moved, UNCHANGED <<app, command, before>>,
         api' \in [DOMAIN api -> Ages], calm' \in BOOLEAN, faults' \in 0..MaxFaults
  PROVE  TypeInv'
<1>1. command \in Command /\ command.app = app
  BY CallTyped
<1>2. DOMAIN api' = DOMAIN api /\ DOMAIN api = Documents[app]
  BY DEF TypeInv
<1>3. ASSUME outcome' = "running"
      PROVE  /\ stage' \in DOMAIN Plan[command]
             /\ part' \in DOMAIN Plan[command][stage'].parts
             /\ todo' \subseteq DOMAIN Plan[command][stage'].parts \ {part'}
             /\ next' \in DOMAIN Plan[command][stage'].parts[part']
             /\ Plan[command][stage'].parts[part'][next'].doc \in DOMAIN api'
             /\ tries' \in 1..MaxTries
  <2>1. Place(command, stage', part', todo', next', tries')
    BY <1>3 DEF Moved
  <2>2. Plan[command][stage'].parts[part'][next'].doc \in Documents[command.app]
    BY <1>1, <2>1, CallShape DEF Place
  <2> QED
    BY <1>1, <1>2, <2>1, <2>2 DEF Place
<1>4. TypeOK'
  BY <1>1, <1>2, <1>3 DEF TypeInv, TypeOK, Moved, Outcomes, Running, ThisStage, ThisCall
<1> QED
  BY <1>1, <1>2, <1>4 DEF TypeInv

----------------------------------------------------------------------------
LEMMA InitTyped == Init => TypeInv
<1> SUFFICES ASSUME Init PROVE TypeInv
  OBVIOUS
<1>1. api \in [DOMAIN api -> Ages] /\ DOMAIN api = Documents[app]
  BY DEF Init, Ages
<1>2. TypeOK
  BY <1>1, BoundsAssumption DEF Init, TypeOK, Running, Outcomes
<1> QED
  BY <1>1, <1>2 DEF Init, TypeInv

LEMMA FaultCounted ==
  ASSUME TypeOK, CountFault
  PROVE  calm' \in BOOLEAN /\ faults' \in 0..MaxFaults
<1>1. faults' \in 0..MaxFaults
  <2>1. faults \in 0..MaxFaults /\ faults < MaxFaults /\ faults' = faults + 1
    BY DEF TypeOK, CountFault
  <2> QED
    BY <2>1, BoundsAssumption
<1>2. calm' = FALSE
  BY DEF CountFault
<1> QED
  BY <1>1, <1>2

LEMMA StartTyped ==
  ASSUME TypeInv, NEW c \in Command, Start(c)
  PROVE  TypeInv'
<1>1. 1 \in DOMAIN Plan[c] /\ 1 \in 1..MaxTries
  <2>1. Len(Plan[c]) \in Nat \ {0} /\ DOMAIN Plan[c] = 1..Len(Plan[c])
    BY PlanShape
  <2> QED
    BY <2>1, BoundsAssumption
<1>2. /\ outcome' = "running" /\ command' = c /\ c.app = app /\ app' = app
      /\ Place(c, stage', part', todo', next', tries')
  <2>1. StartStage(c, 1, 1)
    BY DEF Start
  <2> QED
    BY <1>1, <2>1, StagesStart DEF Start
<1>3. api' \in [DOMAIN api -> Ages] /\ DOMAIN api' = DOMAIN api
  BY DEF TypeInv, TypeOK, Start, Ages
<1>4. Plan[c][stage'].parts[part'][next'].doc \in Documents[app]
  BY <1>2, CallShape DEF Place
<1>5. before' \subseteq DOMAIN api /\ calm' = TRUE /\ faults' = faults
  BY DEF Start, Present
<1>6. DOMAIN api = Documents[app] /\ app \in Application /\ faults \in 0..MaxFaults
  BY DEF TypeInv, TypeOK
<1>7. TypeOK'
  BY <1>2, <1>3, <1>4, <1>5, <1>6 DEF TypeOK, Outcomes, Running, ThisStage, ThisCall, Place
<1> QED
  BY <1>2, <1>3, <1>6, <1>7 DEF TypeInv

LEMMA NextTyped == TypeInv /\ [Next]_vars => TypeInv'
<1> SUFFICES ASSUME TypeInv, [Next]_vars PROVE TypeInv'
  OBVIOUS
<1> USE DEF TypeInv
<1>1. ASSUME NEW c \in Command, Start(c) PROVE TypeInv'
  BY <1>1, StartTyped
<1>2. CASE Perform
  <2>1. After(ThisCall) \in [DOMAIN api -> Ages]
    BY <1>2, CallTyped, AfterTyped DEF Perform
  <2> QED
    BY <1>2, <2>1, AdvanceMoves, StepTyped DEF Perform, TypeOK
<1>3. CASE Refused
  BY <1>3, GiveUpMoves, StepTyped DEF Refused, TypeOK
<1>4. CASE Decline
  BY <1>4, StepTyped DEF Decline, TypeOK, Finish, Moved
<1>5. CASE Fault \/ FailsAgain
  <2>1. Fails
    BY <1>5 DEF Fault, FailsAgain
  <2>2. api' \in [DOMAIN api -> Ages]
    BY <2>1, CallTyped, AfterTyped DEF Fails, TypeOK
  <2>3. calm' \in BOOLEAN /\ faults' \in 0..MaxFaults
    BY <1>5, FaultCounted DEF Fault, FailsAgain, TypeOK
  <2> QED
    BY <2>1, <2>2, <2>3, GiveUpMoves, StepTyped DEF Fails
<1>6. CASE Overlook
  <2>1. api' \in [DOMAIN api -> Ages]
    BY <1>6, CallTyped, AfterTyped DEF Overlook, TypeOK
  <2> QED
    BY <1>6, <2>1, AdvanceMoves, FaultCounted, StepTyped DEF Overlook
<1>7. CASE Interrupt
  BY <1>7, FaultCounted, StepTyped DEF Interrupt, TypeOK, Finish, Moved
<1>8. CASE UNCHANGED vars
  BY <1>8 DEF vars, position, TypeOK, Running, ThisStage, ThisCall
<1> QED
  BY <1>1, <1>2, <1>3, <1>4, <1>5, <1>6, <1>7, <1>8 DEF Next, Step

\* Every variable keeps its type, and a command that runs is at a call of its plan, for every
\* plan (CommandRunner!TypeOK).
THEOREM TypeCorrect == Spec => []TypeOK
<1>1. TypeInv => TypeOK
  BY DEF TypeInv
<1> QED
  BY InitTyped, NextTyped, <1>1, PTL DEF Spec

----------------------------------------------------------------------------
(***************************************************************************)
(* What administrators edit                                                *)
(***************************************************************************)
\* What a call leaves, one kind of operation at a time.
LEMMA AfterWrite ==
  ASSUME NEW call, call.op \in Writes
  PROVE  After(call) = [api EXCEPT ![call.doc] = "new"]
<1>1. call.op \notin Deletes /\ call.op \notin {"keep", "retain"}
  BY DEF Writes, Deletes
<1> QED
  BY <1>1 DEF After

LEMMA AfterKeep ==
  ASSUME NEW call, call.op \in {"keep", "retain"}
  PROVE  After(call) = IF Missing(call.doc) THEN [api EXCEPT ![call.doc] = "new"] ELSE api
<1>1. call.op \notin Writes /\ call.op \notin Deletes
  BY DEF Writes, Deletes
<1> QED
  BY <1>1 DEF After

LEMMA AfterDelete ==
  ASSUME NEW call, call.op \in Deletes
  PROVE  After(call) = Without(call.doc)
<1>1. call.op \notin Writes /\ call.op \notin {"keep", "retain"}
  BY DEF Writes, Deletes
<1> QED
  BY <1>1 DEF After

\* A call deletes such a document by name, or leaves it as it is.
LEMMA CallSpares ==
  ASSUME TypeInv, Running, NEW d \in UserConfig \cap DOMAIN api, d \in Present
  PROVE  \/ After(ThisCall)[d] = api[d]
         \/ After(ThisCall)[d] = "none" /\ d \in Deleted[command]
<1>1. /\ command \in Command /\ stage \in DOMAIN Plan[command]
      /\ ThisCall \in CallsIn(Plan[command][stage]) /\ ThisCall.doc \in DOMAIN api
      /\ ThisCall.op \in Operations
  BY CallTyped DEF Place, ThisStage, CallRecords
<1>2. /\ ThisCall.doc = d => ThisCall.op \notin Writes
      /\ Strikes(ThisCall, d) =>
           ThisCall.op = "delete" /\ ThisCall.doc = d /\ Plan[command][stage].onError = "return"
  BY <1>1, UserConfigAssumption
<1>3. CASE ThisCall.op \in Writes
  <2>1. After(ThisCall) = [api EXCEPT ![ThisCall.doc] = "new"]
    BY <1>3, AfterWrite
  <2>2. ThisCall.doc # d
    BY <1>2, <1>3
  <2> QED
    BY <2>1, <2>2
<1>4. CASE ThisCall.op \in {"keep", "retain"}
  <2>1. After(ThisCall) =
          IF Missing(ThisCall.doc) THEN [api EXCEPT ![ThisCall.doc] = "new"] ELSE api
    BY <1>4, AfterKeep
  <2>2. CASE Missing(ThisCall.doc)
    <3>1. ThisCall.doc # d
      BY <2>2 DEF Missing, Present
    <3> QED
      BY <2>1, <2>2, <3>1
  <2>3. CASE ~Missing(ThisCall.doc)
    BY <2>1, <2>3
  <2> QED
    BY <2>2, <2>3
<1>5. CASE ThisCall.op \in Deletes /\ ~Strikes(ThisCall, d)
  <2>1. After(ThisCall) = Without(ThisCall.doc)
    BY <1>5, AfterDelete
  <2>2. d # ThisCall.doc /\ ~(ThisCall.doc.kind = "Namespace" /\ d.ns = ThisCall.doc.name)
    BY <1>5 DEF Strikes
  <2>3. Without(ThisCall.doc)[d] = api[d]
    BY <1>1, <2>2 DEF Without
  <2> QED
    BY <2>1, <2>3
<1>6. CASE ThisCall.op \in Deletes /\ Strikes(ThisCall, d)
  <2>1. ThisCall.op = "delete" /\ ThisCall.doc = d /\ Plan[command][stage].onError = "return"
    BY <1>2, <1>6
  <2>2. d \in Deleted[command]
    <3>1. stage \in {t \in DOMAIN Plan[command] : Plan[command][t].onError \in {"return"}}
      BY <1>1, <2>1
    <3>2. ThisCall \in UNION {CallsIn(Plan[command][s]) : s \in
                             {t \in DOMAIN Plan[command] : Plan[command][t].onError \in {"return"}}}
      BY <1>1, <3>1
    <3>3. d \in InStages(command, {"return"}, {"delete"})
      BY <2>1, <3>2 DEF InStages
    <3> QED
      BY <1>1, <3>3 DEF Deleted
  <2>3. After(ThisCall) = Without(d)
    BY <1>6, <2>1, AfterDelete
  <2>4. Without(d)[d] = "none"
    BY <1>1 DEF Without
  <2> QED
    BY <2>2, <2>3, <2>4
<1>7. CASE ThisCall.op \notin Writes \cup Deletes \cup {"keep", "retain"}
  BY <1>7 DEF After
<1> QED
  BY <1>3, <1>4, <1>5, <1>6, <1>7

LEMMA StepSpares ==
  ASSUME TypeInv, [Next]_vars, NEW d \in UserConfig \cap DOMAIN api
  PROVE  KeepsUserConfig(d)
<1> SUFFICES ASSUME d \in Present
             PROVE  \/ api'[d] = "none" /\ d \in Deleted[command]
                    \/ api'[d] # "none" /\ (api'[d] = "new" => api[d] = "new")
  BY DEF KeepsUserConfig
<1>1. api[d] \in {"old", "new"} /\ api[d] # "none"
  BY DEF Present, TypeInv, TypeOK, Ages
<1>2. CASE UNCHANGED api
  BY <1>1, <1>2
<1>3. CASE Running /\ api' = After(ThisCall)
  BY <1>1, <1>3, CallSpares
<1>4. ASSUME NEW c \in Command, Start(c)
      PROVE  api'[d] # "none" /\ (api'[d] = "new" => api[d] = "new")
  BY <1>1, <1>4 DEF Start
<1>5. CASE Perform \/ Fault \/ FailsAgain \/ Overlook
  BY <1>2, <1>3, <1>5 DEF Perform, Fault, FailsAgain, Fails, Overlook
<1>6. CASE Refused \/ Decline \/ Interrupt \/ UNCHANGED vars
  BY <1>2, <1>6 DEF Refused, Decline, Interrupt, vars
<1> QED
  BY <1>4, <1>5, <1>6 DEF Next, Step

\* No command writes over a ConfigMap an administrator may have edited, and only a command
\* that names it deletes it, whatever the plans are and however their calls fail
\* (CommandRunner!UserConfigKept).
THEOREM UserConfigAlwaysKept == Spec => UserConfigKept
<1>1. TypeInv /\ [Next]_vars => [\A d \in UserConfig \cap DOMAIN api : KeepsUserConfig(d)]_vars
  BY StepSpares
<1> QED
  BY InitTyped, NextTyped, <1>1, PTL DEF Spec, UserConfigKept

----------------------------------------------------------------------------
(***************************************************************************)
(* What a success means.  A call is behind the command when the command has*)
(* passed it; no call that follows undoes what it left.                    *)
(***************************************************************************)
EffectIn(c, documents, call) ==
  /\ Builds(c) /\ call.op \in Writes => documents[call.doc] = "new"
  /\ Builds(c) /\ call.op = "keep" => documents[call.doc] # "none"
  /\ c.verb = "detach" /\ call.op = "delete" => documents[call.doc] = "none"

Behind(s, p, i) ==
  \/ s < stage
  \/ s = stage /\ p # part /\ p \notin todo
  \/ s = stage /\ p = part /\ i < next
Passed(s, p, i) == outcome = "ok" \/ (Running /\ Behind(s, p, i))
Current(s, p, i) == s = stage /\ p = part /\ i = next

EffectInv ==
  \A s \in DOMAIN Plan[command] : Plan[command][s].onError = "return" =>
    \A p \in DOMAIN Plan[command][s].parts : \A i \in DOMAIN Plan[command][s].parts[p] :
      Passed(s, p, i) => EffectIn(command, api, Plan[command][s].parts[p][i])

\* A call has its effect.
LEMMA CallWorks ==
  ASSUME TypeInv, Running
  PROVE  EffectIn(command, After(ThisCall), ThisCall)
<1>1. ThisCall.doc \in DOMAIN api
  BY CallTyped
<1>2. ThisCall.op \in Writes => After(ThisCall)[ThisCall.doc] = "new"
  BY <1>1, AfterWrite
<1>3. ThisCall.op = "keep" => After(ThisCall)[ThisCall.doc] # "none"
  <2> SUFFICES ASSUME ThisCall.op = "keep" PROVE After(ThisCall)[ThisCall.doc] # "none"
    OBVIOUS
  <2>1. After(ThisCall) =
          IF Missing(ThisCall.doc) THEN [api EXCEPT ![ThisCall.doc] = "new"] ELSE api
    BY AfterKeep
  <2> QED
    BY <1>1, <2>1 DEF Missing
<1>4. ThisCall.op = "delete" => After(ThisCall)[ThisCall.doc] = "none"
  <2> SUFFICES ASSUME ThisCall.op = "delete" PROVE After(ThisCall)[ThisCall.doc] = "none"
    OBVIOUS
  <2>1. After(ThisCall) = Without(ThisCall.doc)
    BY AfterDelete DEF Deletes
  <2> QED
    BY <1>1, <2>1 DEF Without
<1> QED
  BY <1>2, <1>3, <1>4 DEF EffectIn

\* A document that a call does not strike is as it was, or new.
LEMMA NotStruck ==
  ASSUME NEW call, call.doc \in DOMAIN api, NEW d \in DOMAIN api, ~Strikes(call, d)
  PROVE  After(call)[d] \in {api[d], "new"}
<1>1. CASE call.op \in Writes
  BY <1>1, AfterWrite
<1>2. CASE call.op \in {"keep", "retain"}
  <2>1. After(call) = IF Missing(call.doc) THEN [api EXCEPT ![call.doc] = "new"] ELSE api
    BY <1>2, AfterKeep
  <2> QED
    BY <2>1
<1>3. CASE call.op \in Deletes
  <2>1. d # call.doc /\ ~(call.doc.kind = "Namespace" /\ d.ns = call.doc.name)
    BY <1>3 DEF Strikes
  <2>2. Without(call.doc)[d] = api[d]
    BY <2>1 DEF Without
  <2> QED
    BY <1>3, <2>2, AfterDelete
<1>4. CASE call.op \notin Writes \cup Deletes \cup {"keep", "retain"}
  BY <1>4 DEF After
<1> QED
  BY <1>1, <1>2, <1>3, <1>4

\* One that a call does not write is as it was, or gone.
LEMMA NotWritten ==
  ASSUME NEW call, call.doc \in DOMAIN api, NEW d \in DOMAIN api,
         ~(call.op \in Writes \cup {"keep", "retain"} /\ call.doc = d)
  PROVE  After(call)[d] \in {api[d], "none"}
<1>1. CASE call.op \in Writes
  BY <1>1, AfterWrite
<1>2. CASE call.op \in {"keep", "retain"}
  <2>1. After(call) = IF Missing(call.doc) THEN [api EXCEPT ![call.doc] = "new"] ELSE api
    BY <1>2, AfterKeep
  <2> QED
    BY <1>2, <2>1
<1>3. CASE call.op \in Deletes
  <2>1. Without(call.doc)[d] \in {api[d], "none"}
    BY DEF Without
  <2> QED
    BY <1>3, <2>1, AfterDelete
<1>4. CASE call.op \notin Writes \cup Deletes \cup {"keep", "retain"}
  BY <1>4 DEF After
<1> QED
  BY <1>1, <1>2, <1>3, <1>4

\* What a command has left stays when it goes on.
LEMMA EffectStays ==
  ASSUME TypeInv, Running,
         NEW s \in DOMAIN Plan[command], Plan[command][s].onError = "return",
         NEW p \in DOMAIN Plan[command][s].parts,
         NEW i \in DOMAIN Plan[command][s].parts[p],
         Behind(s, p, i), EffectIn(command, api, Plan[command][s].parts[p][i])
  PROVE  EffectIn(command, After(ThisCall), Plan[command][s].parts[p][i])
<1> DEFINE call == Plan[command][s].parts[p][i]
<1>1. /\ command \in Command /\ command.app = app
      /\ Place(command, stage, part, todo, next, tries)
      /\ ThisCall.doc \in DOMAIN api
  BY CallTyped
<1>2. call.doc \in DOMAIN api
  BY <1>1, CallShape DEF TypeInv
<1>3. s \in Nat /\ stage \in Nat /\ i \in Nat /\ next \in Nat
  <2>1. DOMAIN Plan[command] = 1..Len(Plan[command]) /\ Len(Plan[command]) \in Nat
    BY <1>1, PlanShape
  <2>2. /\ DOMAIN Plan[command][s].parts[p] = 1..Len(Plan[command][s].parts[p])
        /\ Len(Plan[command][s].parts[p]) \in Nat
    BY <1>1, StageShape
  <2>3. /\ DOMAIN Plan[command][stage].parts[part] = 1..Len(Plan[command][stage].parts[part])
        /\ Len(Plan[command][stage].parts[part]) \in Nat
    BY <1>1, StageShape DEF Place
  <2> QED
    BY <1>1, <2>1, <2>2, <2>3 DEF Place
<1>4. ~Undoes(command, ThisCall, call)
  <2>1. Lasting(command)
    BY <1>1, LastingAssumption
  <2>2. Undoes(command, ThisCall, call) => stage < s \/ (stage = s /\ part = p /\ next < i)
    BY <1>1, <2>1 DEF Lasting, Place, ThisCall, ThisStage
  <2> QED
    BY <1>3, <2>2 DEF Behind
<1>5. Builds(command) /\ call.op \in Writes \cup {"keep"} =>
        After(ThisCall)[call.doc] \in {api[call.doc], "new"}
  BY <1>1, <1>2, <1>4, NotStruck DEF Undoes
<1>6. command.verb = "detach" /\ call.op = "delete" =>
        After(ThisCall)[call.doc] \in {api[call.doc], "none"}
  BY <1>1, <1>2, <1>4, NotWritten DEF Undoes
<1> QED
  BY <1>5, <1>6 DEF EffectIn

\* The start of a stage passes nothing of it.
LEMMA StagePassesNothing ==
  ASSUME NEW c \in Command, NEW t \in DOMAIN Plan[c], NEW k \in 1..MaxTries, StartStage(c, t, k),
         NEW s \in DOMAIN Plan[c], NEW p \in DOMAIN Plan[c][s].parts,
         NEW i \in DOMAIN Plan[c][s].parts[p], Passed(s, p, i)'
  PROVE  s < t
<1>1. /\ outcome' = "running" /\ stage' = t /\ next' = 1
      /\ part' \in DOMAIN Plan[c][t].parts
      /\ todo' = DOMAIN Plan[c][t].parts \ {part'}
  BY StagesStart
<1>2. i \in Nat /\ i >= 1
  <2>1. /\ DOMAIN Plan[c][s].parts[p] = 1..Len(Plan[c][s].parts[p])
        /\ Len(Plan[c][s].parts[p]) \in Nat
    BY StageShape
  <2> QED
    BY <2>1
<1>3. Behind(s, p, i)'
  BY <1>1 DEF Passed
<1> QED
  BY <1>1, <1>2, <1>3 DEF Behind

LEMMA NextStagePasses ==
  ASSUME TypeInv, Running, NextStage,
         NEW s \in DOMAIN Plan[command], NEW p \in DOMAIN Plan[command][s].parts,
         NEW i \in DOMAIN Plan[command][s].parts[p], Passed(s, p, i)'
  PROVE  s <= stage
<1>1. /\ command \in Command /\ DOMAIN Plan[command] = 1..Len(Plan[command])
      /\ Len(Plan[command]) \in Nat
      /\ s \in 1..Len(Plan[command]) /\ stage \in 1..Len(Plan[command])
  BY CallTyped, PlanShape DEF Place
<1>2. CASE stage < Len(Plan[command])
  <2>1. stage + 1 \in DOMAIN Plan[command] /\ 1 \in 1..MaxTries
    BY <1>1, <1>2, BoundsAssumption
  <2>2. StartStage(command, stage + 1, 1)
    BY <1>2 DEF NextStage
  <2>3. s < stage + 1
    BY <1>1, <2>1, <2>2, StagePassesNothing
  <2> QED
    BY <1>1, <2>3
<1>3. CASE ~(stage < Len(Plan[command]))
  BY <1>1, <1>3
<1> QED
  BY <1>2, <1>3

\* Going on passes one call, the current one.
LEMMA AdvancePasses ==
  ASSUME TypeInv, Running, Advance,
         NEW s \in DOMAIN Plan[command], NEW p \in DOMAIN Plan[command][s].parts,
         NEW i \in DOMAIN Plan[command][s].parts[p], Passed(s, p, i)'
  PROVE  Behind(s, p, i) \/ Current(s, p, i)
<1> DEFINE parts == ThisStage.parts
<1>1. command \in Command /\ Place(command, stage, part, todo, next, tries)
  BY CallTyped
<1>2. /\ DOMAIN Plan[command] = 1..Len(Plan[command]) /\ Len(Plan[command]) \in Nat
      /\ s \in 1..Len(Plan[command]) /\ stage \in 1..Len(Plan[command])
  BY <1>1, PlanShape DEF Place
<1>3. /\ DOMAIN Plan[command][s].parts[p] = 1..Len(Plan[command][s].parts[p])
      /\ Len(Plan[command][s].parts[p]) \in Nat /\ i \in Nat /\ i >= 1
  BY <1>1, StageShape
<1>4. next \in Nat /\ (s = stage /\ p = part => i <= Len(parts[part]))
  <2>1. /\ DOMAIN parts[part] = 1..Len(parts[part]) /\ Len(parts[part]) \in Nat
        /\ next \in DOMAIN parts[part]
    BY <1>1, StageShape DEF Place, ThisStage
  <2> QED
    BY <1>3, <2>1 DEF ThisStage
<1>5. Running' => Behind(s, p, i)'
  BY DEF Passed, Running
<1>6. CASE next' = next + 1 /\ UNCHANGED <<outcome, stage, part, todo, tries>>
  <2>1. Behind(s, p, i)'
    BY <1>5, <1>6 DEF Running
  <2> QED
    BY <1>3, <1>4, <1>6, <2>1 DEF Behind, Current
<1>7. CASE /\ next = Len(parts[part])
           /\ TakePart(todo) /\ UNCHANGED <<outcome, stage, tries>>
  <2>1. part' \in todo /\ todo' = todo \ {part'} /\ next' = 1
    BY <1>7 DEF TakePart
  <2>2. Behind(s, p, i)'
    BY <1>5, <1>7 DEF Running
  <2> QED
    BY <1>3, <1>4, <1>7, <2>1, <2>2 DEF Behind, Current
<1>8. CASE next = Len(parts[part]) /\ todo = {} /\ NextStage
  <2>1. s <= stage => Behind(s, p, i) \/ Current(s, p, i)
    BY <1>2, <1>3, <1>4, <1>8 DEF Behind, Current
  <2>2. s <= stage
    BY <1>8, NextStagePasses
  <2> QED
    BY <2>1, <2>2
<1> QED
  BY <1>6, <1>7, <1>8 DEF Advance

\* Giving up passes nothing more, or the rest of a stage whose errors do not end the command.
LEMMA GiveUpPasses ==
  ASSUME TypeInv, Running, GiveUp,
         NEW s \in DOMAIN Plan[command], Plan[command][s].onError = "return",
         NEW p \in DOMAIN Plan[command][s].parts,
         NEW i \in DOMAIN Plan[command][s].parts[p], Passed(s, p, i)'
  PROVE  Behind(s, p, i)
<1>1. command \in Command /\ Place(command, stage, part, todo, next, tries)
  BY CallTyped
<1>2. /\ DOMAIN Plan[command] = 1..Len(Plan[command]) /\ Len(Plan[command]) \in Nat
      /\ s \in 1..Len(Plan[command]) /\ stage \in 1..Len(Plan[command])
      /\ tries \in 1..MaxTries
  BY <1>1, PlanShape DEF Place
<1>3. CASE Finish("error")
  BY <1>3 DEF Finish, Passed, Running
<1>4. CASE ThisStage.onError \in {"drop", "poll"} /\ NextStage
  <2>1. s <= stage
    BY <1>4, NextStagePasses
  <2>2. s # stage
    BY <1>4 DEF ThisStage
  <2> QED
    BY <1>2, <2>1, <2>2 DEF Behind
<1>5. CASE StartStage(command, stage, NextTry)
  <2>1. s < stage
    BY <1>1, <1>2, <1>5, TriesCounted, StagePassesNothing
  <2> QED
    BY <2>1 DEF Behind
<1> QED
  BY <1>3, <1>4, <1>5 DEF GiveUp

\* What a step has to show about the calls that are behind the command after it.
LEMMA StepEffects ==
  ASSUME command' = command,
         \A s \in DOMAIN Plan[command] : Plan[command][s].onError = "return" =>
           \A p \in DOMAIN Plan[command][s].parts :
             \A i \in DOMAIN Plan[command][s].parts[p] :
               Passed(s, p, i)' => EffectIn(command, api', Plan[command][s].parts[p][i])
  PROVE  EffectInv'
BY DEF EffectInv, EffectIn, Builds

\* A step of the running command that goes on.
LEMMA AdvanceEffects ==
  ASSUME TypeInv, EffectInv, Running, Advance, command' = command,
         \/ api' = After(ThisCall)
         \/ api' = api /\ ThisCall.op \notin Writes \cup {"keep", "delete"}
  PROVE  EffectInv'
<1> SUFFICES
      ASSUME NEW s \in DOMAIN Plan[command], Plan[command][s].onError = "return",
             NEW p \in DOMAIN Plan[command][s].parts,
             NEW i \in DOMAIN Plan[command][s].parts[p], Passed(s, p, i)'
      PROVE  EffectIn(command, api', Plan[command][s].parts[p][i])
  BY StepEffects
<1>1. CASE Behind(s, p, i)
  <2>1. EffectIn(command, api, Plan[command][s].parts[p][i])
    BY <1>1 DEF EffectInv, Passed
  <2>2. EffectIn(command, After(ThisCall), Plan[command][s].parts[p][i])
    BY <1>1, <2>1, EffectStays
  <2> QED
    BY <2>1, <2>2
<1>2. CASE Current(s, p, i)
  <2>1. Plan[command][s].parts[p][i] = ThisCall
    BY <1>2 DEF Current, ThisCall, ThisStage
  <2>2. EffectIn(command, After(ThisCall), ThisCall)
    BY CallWorks
  <2>3. ThisCall.op \notin Writes \cup {"keep", "delete"} => EffectIn(command, api, ThisCall)
    BY DEF EffectIn
  <2> QED
    BY <2>1, <2>2, <2>3
<1> QED
  BY <1>1, <1>2, AdvancePasses

\* A step of the running command that gives up.
LEMMA GiveUpEffects ==
  ASSUME TypeInv, EffectInv, Running, GiveUp, command' = command,
         api' = After(ThisCall) \/ api' = api
  PROVE  EffectInv'
<1> SUFFICES
      ASSUME NEW s \in DOMAIN Plan[command], Plan[command][s].onError = "return",
             NEW p \in DOMAIN Plan[command][s].parts,
             NEW i \in DOMAIN Plan[command][s].parts[p], Passed(s, p, i)'
      PROVE  EffectIn(command, api', Plan[command][s].parts[p][i])
  BY StepEffects
<1>1. Behind(s, p, i)
  BY GiveUpPasses
<1>2. EffectIn(command, api, Plan[command][s].parts[p][i])
  BY <1>1 DEF EffectInv, Passed
<1>3. EffectIn(command, After(ThisCall), Plan[command][s].parts[p][i])
  BY <1>1, <1>2, EffectStays
<1> QED
  BY <1>2, <1>3

\* A command that starts has nothing behind it.
LEMMA StartEffects ==
  ASSUME TypeInv, NEW c \in Command, Start(c)
  PROVE  EffectInv'
<1>1. 1 \in DOMAIN Plan[c] /\ 1 \in 1..MaxTries /\ DOMAIN Plan[c] = 1..Len(Plan[c])
  <2>1. Len(Plan[c]) \in Nat \ {0} /\ DOMAIN Plan[c] = 1..Len(Plan[c])
    BY PlanShape
  <2> QED
    BY <2>1, BoundsAssumption
<1>2. command' = c /\ StartStage(c, 1, 1)
  BY DEF Start
<1>3. ASSUME NEW s \in DOMAIN Plan[c], NEW p \in DOMAIN Plan[c][s].parts,
             NEW i \in DOMAIN Plan[c][s].parts[p], Passed(s, p, i)'
      PROVE  FALSE
  <2>1. s < 1
    BY <1>1, <1>2, <1>3, StagePassesNothing
  <2> QED
    BY <1>1, <2>1, PlanShape
<1> QED
  BY <1>2, <1>3 DEF EffectInv

LEMMA NextEffects == TypeInv /\ EffectInv /\ [Next]_vars => EffectInv'
<1> SUFFICES ASSUME TypeInv, EffectInv, [Next]_vars PROVE EffectInv'
  OBVIOUS
<1>1. ASSUME NEW c \in Command, Start(c) PROVE EffectInv'
  BY <1>1, StartEffects
<1>2. CASE Perform
  BY <1>2, AdvanceEffects DEF Perform
<1>3. CASE Refused
  BY <1>3, GiveUpEffects DEF Refused
<1>4. CASE Fault \/ FailsAgain
  BY <1>4, GiveUpEffects DEF Fault, FailsAgain, Fails
<1>5. CASE Overlook
  <2>1. ThisCall.op \notin Writes \cup {"keep", "delete"}
    BY <1>5 DEF Overlook, Writes
  <2> QED
    BY <1>5, <2>1, AdvanceEffects DEF Overlook
<1>6. CASE Decline \/ Interrupt
  <2>1. command' = command /\ outcome' \in {"refused", "error"}
    BY <1>6 DEF Decline, Interrupt, Finish
  <2> QED
    BY <2>1, StepEffects DEF Passed, Running
<1>7. CASE UNCHANGED vars
  BY <1>7 DEF vars, position, EffectInv, Passed, Running, Behind
<1> QED
  BY <1>1, <1>2, <1>3, <1>4, <1>5, <1>6, <1>7 DEF Next, Step

LEMMA InitEffects == Init => EffectInv
BY DEF Init, EffectInv, Passed, Running

\* What a command must have written or found there is the document of one of its calls.
LEMMA CallFound ==
  ASSUME NEW c \in Command, NEW ops, NEW d \in InStages(c, {"return"}, ops)
  PROVE  \E s \in DOMAIN Plan[c] :
           /\ Plan[c][s].onError = "return"
           /\ \E p \in DOMAIN Plan[c][s].parts : \E i \in DOMAIN Plan[c][s].parts[p] :
                /\ Plan[c][s].parts[p][i].op \in ops
                /\ Plan[c][s].parts[p][i].doc = d
<1>1. PICK s \in DOMAIN Plan[c] : /\ Plan[c][s].onError = "return"
                                 /\ \E call \in CallsIn(Plan[c][s]) : call.op \in ops /\ call.doc = d
  BY DEF InStages
<1>2. PICK call \in CallsIn(Plan[c][s]) : call.op \in ops /\ call.doc = d
  BY <1>1
<1>3. PICK p \in DOMAIN Plan[c][s].parts :
        call \in {Plan[c][s].parts[p][i] : i \in DOMAIN Plan[c][s].parts[p]}
  BY <1>2 DEF CallsIn
<1>4. PICK i \in DOMAIN Plan[c][s].parts[p] : call = Plan[c][s].parts[p][i]
  BY <1>3
<1> QED
  BY <1>1, <1>2, <1>4

\* After a success every call that ends the command when it fails has had its effect.
LEMMA SuccessIsComplete ==
  ASSUME TypeInv, EffectInv, outcome = "ok", NEW ops, NEW d \in InStages(command, {"return"}, ops)
  PROVE  /\ d \in DOMAIN api
         /\ \E call \in CallRecords :
              call.op \in ops /\ call.doc = d /\ EffectIn(command, api, call)
<1>1. command \in Command /\ command.app = app /\ DOMAIN api = Documents[app]
  BY DEF TypeInv
<1>2. PICK s \in DOMAIN Plan[command] :
        /\ Plan[command][s].onError = "return"
        /\ \E p \in DOMAIN Plan[command][s].parts : \E i \in DOMAIN Plan[command][s].parts[p] :
             /\ Plan[command][s].parts[p][i].op \in ops
             /\ Plan[command][s].parts[p][i].doc = d
  BY <1>1, CallFound
<1>3. PICK p \in DOMAIN Plan[command][s].parts : \E i \in DOMAIN Plan[command][s].parts[p] :
             /\ Plan[command][s].parts[p][i].op \in ops
             /\ Plan[command][s].parts[p][i].doc = d
  BY <1>2
<1>4. PICK i \in DOMAIN Plan[command][s].parts[p] :
             /\ Plan[command][s].parts[p][i].op \in ops
             /\ Plan[command][s].parts[p][i].doc = d
  BY <1>3
<1>5. EffectIn(command, api, Plan[command][s].parts[p][i])
  BY <1>2 DEF EffectInv, Passed
<1>6. /\ Plan[command][s].parts[p][i] \in CallRecords
      /\ Plan[command][s].parts[p][i].doc \in DOMAIN api
  BY <1>1, CallShape
<1> QED
  BY <1>4, <1>5, <1>6

LEMMA BuildsComplete == TypeInv /\ EffectInv => AddonComplete
<1> SUFFICES ASSUME TypeInv, EffectInv, outcome = "ok", Builds(command)
             PROVE  /\ \A d \in Written[command] : api[d] = "new"
                    /\ Kept[command] \subseteq Present
  BY DEF AddonComplete
<1>1. command \in Command
  BY DEF TypeInv
<1>2. ASSUME NEW d \in Written[command] PROVE api[d] = "new"
  <2>1. d \in InStages(command, {"return"}, Writes)
    BY <1>1 DEF Written
  <2> QED
    BY <2>1, SuccessIsComplete DEF EffectIn
<1>3. ASSUME NEW d \in Kept[command] PROVE d \in Present
  <2>1. d \in InStages(command, {"return"}, {"keep"})
    BY <1>1 DEF Kept
  <2> QED
    BY <2>1, SuccessIsComplete DEF EffectIn, Present
<1> QED
  BY <1>2, <1>3

LEMMA DetachesComplete == TypeInv /\ EffectInv => DetachComplete
<1> SUFFICES ASSUME TypeInv, EffectInv, outcome = "ok", command.verb = "detach",
                    NEW d \in Deleted[command]
             PROVE  d \notin Present
  BY DEF DetachComplete, Ended
<1>1. command \in Command
  BY DEF TypeInv
<1>2. d \in InStages(command, {"return"}, {"delete"})
  BY <1>1 DEF Deleted
<1> QED
  BY <1>2, SuccessIsComplete DEF EffectIn, Present

LEMMA SpecEffects == Spec => [](TypeInv /\ EffectInv)
<1>1. Init => TypeInv /\ EffectInv
  BY InitTyped, InitEffects
<1>2. TypeInv /\ EffectInv /\ [Next]_vars => (TypeInv /\ EffectInv)'
  BY NextTyped, NextEffects
<1> QED
  BY <1>1, <1>2, PTL DEF Spec

\* An addon or an init that reports success has written every document of the stages whose
\* errors it returns, and its ServiceAccounts are there, for every plan in which no addon
\* deletes what it has written, however often it was run, failed or was interrupted before
\* (CommandRunner!AddonComplete).
THEOREM AddonAlwaysComplete == Spec => []AddonComplete
BY SpecEffects, BuildsComplete, PTL

\* A detach that reports success has deleted every document that it deletes by name, for
\* every plan in which no detach writes what it has deleted (CommandRunner!DetachComplete).
THEOREM DetachAlwaysComplete == Spec => []DetachComplete
BY SpecEffects, DetachesComplete, PTL
=============================================================================
