-------------------------- MODULE SoundPlans_proofs --------------------------
(***************************************************************************)
(* Theorems about commands whose plans are sound: they succeed unless a    *)
(* call fails by itself, and an addon that fails has lost next to nothing. *)
(* All hold for every plan that meets the assumptions of SoundPlans.       *)
(***************************************************************************)
EXTENDS SoundPlans, CommandRunner_proofs, FiniteSetTheorems

(***************************************************************************)
(* Places in a plan                                                        *)
(***************************************************************************)
\* A place has a stage, a part of it and a call there.
LEMMA PlaceFound ==
  ASSUME NEW c \in Command, NEW x \in PlacesOf(c)
  PROVE  /\ x[1] \in DOMAIN Plan[c]
         /\ x[2] \in DOMAIN Plan[c][x[1]].parts
         /\ x[3] \in DOMAIN Plan[c][x[1]].parts[x[2]]
         /\ x = <<x[1], x[2], x[3]>>
         /\ x[1] \in Nat /\ x[3] \in Nat
         /\ CallAt(c, x) \in CallRecords
         /\ c.app \in Application
         /\ CallAt(c, x).doc \in Documents[c.app]
<1>1. PICK s \in DOMAIN Plan[c] :
        x \in UNION { {<<s, p, i>> : i \in DOMAIN Plan[c][s].parts[p]} : p \in DOMAIN Plan[c][s].parts }
  BY DEF PlacesOf
<1>2. PICK p \in DOMAIN Plan[c][s].parts : x \in {<<s, p, i>> : i \in DOMAIN Plan[c][s].parts[p]}
  BY <1>1
<1>3. PICK i \in DOMAIN Plan[c][s].parts[p] : x = <<s, p, i>>
  BY <1>2
<1>4. x[1] = s /\ x[2] = p /\ x[3] = i
  BY <1>3
<1>5. s \in Nat /\ i \in Nat
  <2>1. Len(Plan[c]) \in Nat /\ DOMAIN Plan[c] = 1..Len(Plan[c])
    BY PlanShape
  <2>2. /\ Len(Plan[c][s].parts[p]) \in Nat
        /\ DOMAIN Plan[c][s].parts[p] = 1..Len(Plan[c][s].parts[p])
    BY StageShape
  <2> QED
    BY <2>1, <2>2
<1>6. CallAt(c, x) = Plan[c][s].parts[p][i]
  BY <1>4 DEF CallAt
<1> QED
  BY <1>3, <1>4, <1>5, <1>6, CallShape

LEMMA PlaceMade ==
  ASSUME NEW c \in Command, NEW s \in DOMAIN Plan[c], NEW p \in DOMAIN Plan[c][s].parts,
         NEW i \in DOMAIN Plan[c][s].parts[p]
  PROVE  <<s, p, i>> \in PlacesOf(c) /\ CallAt(c, <<s, p, i>>) = Plan[c][s].parts[p][i]
BY DEF PlacesOf, CallAt

\* Where the running command is.
Here == <<stage, part, next>>
Reached(x) == Behind(x[1], x[2], x[3])

LEMMA HereFound ==
  ASSUME TypeInv, Running
  PROVE  /\ command \in Command /\ Here \in PlacesOf(command)
         /\ CallAt(command, Here) = ThisCall
         /\ stage \in Nat /\ next \in Nat
         /\ ThisCall \in CallRecords /\ ThisCall.doc \in DOMAIN api
         /\ ~Reached(Here)
<1>1. /\ command \in Command /\ Place(command, stage, part, todo, next, tries)
      /\ ThisCall \in CallRecords /\ ThisCall.doc \in DOMAIN api
  BY CallTyped
<1>2. Here \in PlacesOf(command) /\ CallAt(command, Here) = ThisCall
  BY <1>1, PlaceMade DEF Place, Here, ThisCall, ThisStage
<1>3. stage \in Nat /\ next \in Nat
  BY <1>1, <1>2, PlaceFound DEF Here
<1>4. ~Reached(Here)
  BY <1>3 DEF Reached, Behind, Here
<1> QED
  BY <1>1, <1>2, <1>3, <1>4

\* What comes before the present call is behind the command, what comes after it is not.
LEMMA EarlierReached ==
  ASSUME NEW x, Precedes(x, Here)
  PROVE  Reached(x)
BY DEF Precedes, Here, Reached, Behind

LEMMA LaterNotReached ==
  ASSUME TypeInv, Running, NEW x \in PlacesOf(command), Precedes(Here, x)
  PROVE  ~Reached(x)
<1>1. stage \in Nat /\ next \in Nat /\ x[1] \in Nat /\ x[3] \in Nat
  BY HereFound, PlaceFound
<1> QED
  BY <1>1 DEF Precedes, Here, Reached, Behind

----------------------------------------------------------------------------
(***************************************************************************)
(* How the command moves                                                   *)
(***************************************************************************)
\* The next stage is the one after this, or there is none and the command has succeeded.
LEMMA NextStageLeads ==
  ASSUME TypeInv, Running, NextStage
  PROVE  \/ outcome' = "ok"
         \/ outcome' = "running" /\ stage' = stage + 1
BY DEF NextStage, StartStage, Finish

\* Going on leaves the call that was made behind, and all that was behind already.
LEMMA AdvanceReaches ==
  ASSUME TypeInv, Running, Advance, Running', NEW x \in PlacesOf(command),
         Reached(x) \/ x = Here
  PROVE  Reached(x)'
<1>1. /\ command \in Command /\ Place(command, stage, part, todo, next, tries)
      /\ stage \in Nat /\ next \in Nat
  BY CallTyped, HereFound
<1>2. x[1] \in Nat /\ x[3] \in Nat
  BY <1>1, PlaceFound
<1>3. x = Here => x[1] = stage /\ x[2] = part /\ x[3] = next
  BY DEF Here
<1>4. CASE next' = next + 1 /\ UNCHANGED <<outcome, stage, part, todo, tries>>
  BY <1>1, <1>2, <1>3, <1>4 DEF Reached, Behind
<1>5. CASE TakePart(todo) /\ UNCHANGED <<outcome, stage, tries>>
  <2>1. part' \in todo /\ todo' = todo \ {part'} /\ stage' = stage
    BY <1>5 DEF TakePart
  <2>2. part \notin todo
    BY <1>1 DEF Place
  <2> QED
    BY <1>1, <1>2, <1>3, <2>1, <2>2 DEF Reached, Behind
<1>6. CASE NextStage
  <2>1. stage' = stage + 1
    BY <1>6, NextStageLeads DEF Running
  <2> QED
    BY <1>1, <1>2, <1>3, <2>1 DEF Reached, Behind
<1> QED
  BY <1>4, <1>5, <1>6 DEF Advance

\* Giving up a stage leaves every other one as far behind as it was.
LEMMA GiveUpReaches ==
  ASSUME TypeInv, Running, GiveUp, Running', NEW x \in PlacesOf(command), x[1] # stage,
         Reached(x)
  PROVE  Reached(x)'
<1>1. stage \in Nat /\ x[1] \in Nat
  BY HereFound, PlaceFound
<1>2. x[1] < stage
  BY <1>1 DEF Reached, Behind
<1>3. CASE Finish("error")
  BY <1>3 DEF Finish, Running
<1>4. CASE NextStage
  <2>1. stage' = stage + 1
    BY <1>4, NextStageLeads DEF Running
  <2> QED
    BY <1>1, <1>2, <2>1 DEF Reached, Behind
<1>5. CASE StartStage(command, stage, NextTry)
  BY <1>2, <1>5 DEF StartStage, Reached, Behind
<1> QED
  BY <1>3, <1>4, <1>5 DEF GiveUp

\* and passes no call of another stage.
LEMMA GiveUpPassesElsewhere ==
  ASSUME TypeInv, Running, GiveUp, NEW x \in PlacesOf(command), x[1] # stage,
         Passed(x[1], x[2], x[3])'
  PROVE  Reached(x)
<1>1. /\ command \in Command /\ stage \in DOMAIN Plan[command] /\ stage \in Nat
      /\ tries \in 1..MaxTries
  BY CallTyped, HereFound DEF Place
<1>2. /\ x[1] \in DOMAIN Plan[command] /\ x[2] \in DOMAIN Plan[command][x[1]].parts
      /\ x[3] \in DOMAIN Plan[command][x[1]].parts[x[2]]
      /\ x[1] \in Nat
  BY <1>1, PlaceFound
<1>3. CASE Finish("error")
  BY <1>3 DEF Finish, Passed, Running
<1>4. CASE NextStage
  <2>1. x[1] <= stage
    BY <1>2, <1>4, NextStagePasses
  <2> QED
    BY <1>1, <1>2, <2>1 DEF Reached, Behind
<1>5. CASE StartStage(command, stage, NextTry)
  <2>1. x[1] < stage
    BY <1>1, <1>2, <1>5, TriesCounted, StagePassesNothing
  <2> QED
    BY <2>1 DEF Reached, Behind
<1> QED
  BY <1>3, <1>4, <1>5 DEF GiveUp

\* Only a strict stage ends a command in an error.
LEMMA GiveUpEnds ==
  ASSUME TypeInv, Running, GiveUp, outcome' = "error"
  PROVE  ThisStage.onError = "return"
<1>1. ~NextStage
  BY NextStageLeads
<1>2. \A k : ~StartStage(command, stage, k)
  BY DEF StartStage
<1> QED
  BY <1>1, <1>2 DEF GiveUp

LEMMA StrictEnds ==
  ASSUME GiveUp, ThisStage.onError = "return"
  PROVE  outcome' = "error"
BY DEF GiveUp, Finish

\* A stage whose error is dropped is left.
LEMMA DropLeads ==
  ASSUME TypeInv, Running, GiveUp, ThisStage.onError = "drop", Running'
  PROVE  stage' = stage + 1
BY NextStageLeads DEF GiveUp, Running

\* A command that starts has reached nothing.
LEMMA StartReaches ==
  ASSUME TypeInv, NEW c \in Command, Start(c), NEW x \in PlacesOf(c)
  PROVE  ~Passed(x[1], x[2], x[3])'
<1>1. /\ Len(Plan[c]) \in Nat \ {0} /\ DOMAIN Plan[c] = 1..Len(Plan[c])
      /\ 1 \in 1..MaxTries
  BY PlanShape, BoundsAssumption
<1>2. 1 \in DOMAIN Plan[c] /\ StartStage(c, 1, 1)
  BY <1>1 DEF Start
<1>3. /\ x[1] \in DOMAIN Plan[c] /\ x[2] \in DOMAIN Plan[c][x[1]].parts
      /\ x[3] \in DOMAIN Plan[c][x[1]].parts[x[2]]
  BY PlaceFound
<1>4. ~(x[1] < 1)
  BY <1>1, <1>3
<1> SUFFICES ASSUME Passed(x[1], x[2], x[3])'
             PROVE  FALSE
  OBVIOUS
<1>5. x[1] < 1
  BY <1>1, <1>2, <1>3, StagePassesNothing
<1> QED
  BY <1>4, <1>5

LEMMA AdvanceEnds ==
  ASSUME TypeInv, Running, Advance
  PROVE  outcome' \in {"running", "ok"}
<1>1. CASE NextStage
  BY <1>1, NextStageLeads
<1>2. CASE UNCHANGED outcome
  BY <1>2 DEF Running
<1> QED
  BY <1>1, <1>2 DEF Advance

----------------------------------------------------------------------------
(***************************************************************************)
(* What a command finds at its calls.  While nothing fails by itself, a    *)
(* document that was there is there for every call that nothing before it  *)
(* takes it from; one that was not there, or that a call before deletes,   *)
(* is not there for a call before which nothing writes it.                 *)
(***************************************************************************)
Again(c, x) == Plan[c][x[1]].onError \in {"poll", "retry"}
Finds(x) ==
  /\ \A d \in before : Untouched(command, x, d) => d \in Present
  /\ \A d \in DOMAIN api \ before : Unwritten(command, x, d) => d \notin Present
  /\ \A y \in PlacesOf(command) :
       Clears(command, before, y, x) /\ Reached(y) => CallAt(command, y).doc \notin Present
\* A stage that is tried again comes to its calls a second time, unless it is sound.
CalmInv ==
  calm /\ Running =>
    \A x \in PlacesOf(command) :
      (Again(command, x) => Sound(command, before, x[1])) /\ ~Reached(x) => Finds(x)

\* What a call that cannot be passed over has written is there.
LEMMA WrittenFound ==
  ASSUME TypeInv, EffectInv, Running, Builds(command), NEW d, WrittenFirst(command, Here, d)
  PROVE  d \in Present
<1>1. command \in Command
  BY HereFound
<1>2. PICK y \in PlacesOf(command) :
        /\ Strict(command, y)
        /\ CallAt(command, y).op \in Writes \cup {"keep"} /\ CallAt(command, y).doc = d
        /\ Precedes(y, Here)
  BY DEF WrittenFirst
<1>3. Passed(y[1], y[2], y[3])
  BY <1>2, EarlierReached DEF Passed, Reached
<1>4. /\ y[1] \in DOMAIN Plan[command] /\ y[2] \in DOMAIN Plan[command][y[1]].parts
      /\ y[3] \in DOMAIN Plan[command][y[1]].parts[y[2]]
      /\ CallAt(command, y).doc \in Documents[command.app]
  BY <1>1, PlaceFound
<1>5. EffectIn(command, api, CallAt(command, y))
  BY <1>2, <1>3, <1>4 DEF EffectInv, Strict, CallAt
<1>6. d \in DOMAIN api
  BY <1>2, <1>4, CallTyped DEF TypeInv
<1> QED
  BY <1>2, <1>5, <1>6 DEF EffectIn, Present

\* A call that finds what it asks for, and not what it collides with, is accepted.
LEMMA MetAccepts ==
  ASSUME TypeInv, EffectInv, CalmInv, Running, calm, Meets(command, before, Here),
         Again(command, Here) => Sound(command, before, stage)
  PROVE  Accepts(ThisCall)
<1> DEFINE call == ThisCall
<1>1. /\ command \in Command /\ Here \in PlacesOf(command) /\ CallAt(command, Here) = call
      /\ call \in CallRecords /\ call.doc \in DOMAIN api /\ ~Reached(Here)
      /\ Here[1] = stage
  BY HereFound DEF Here
<1>2. Finds(Here)
  BY <1>1 DEF CalmInv
<1>3. /\ call.op \notin {"panic", "unsupported"}
      /\ \A d \in Requires(call) :
           \/ d \in before /\ Untouched(command, Here, d)
           \/ Builds(command) /\ WrittenFirst(command, Here, d)
      /\ Collides(call) => \/ call.doc \notin before /\ Unwritten(command, Here, call.doc)
                           \/ ClearedFirst(command, before, Here)
  BY <1>1 DEF Meets, Possible, Supplied
<1>4. ASSUME NEW d \in Requires(call) PROVE d \in Present
  <2>1. CASE d \in before /\ Untouched(command, Here, d)
    BY <1>2, <2>1 DEF Finds
  <2>2. CASE Builds(command) /\ WrittenFirst(command, Here, d)
    BY <2>2, WrittenFound
  <2> QED
    BY <1>3, <2>1, <2>2
<1>5. Collides(call) => Missing(call.doc)
  <2>1. CASE call.doc \notin before /\ Unwritten(command, Here, call.doc)
    BY <1>1, <1>2, <2>1 DEF Finds, Present, Missing
  <2>2. CASE ClearedFirst(command, before, Here)
    <3>1. PICK y \in PlacesOf(command) :
            CallAt(command, y).doc = call.doc /\ Clears(command, before, y, Here)
      BY <1>1, <2>2 DEF ClearedFirst
    <3>2. Reached(y)
      BY <3>1, EarlierReached DEF Clears
    <3> QED
      BY <1>1, <1>2, <3>1, <3>2 DEF Finds, Present, Missing
  <2> QED
    BY <1>3, <2>1, <2>2
<1>6. call.op \in Operations
  BY <1>1 DEF CallRecords
<1>7. CASE call.op \in {"delete", "await"}
  <2>1. call.op \notin Writes \cup {"keep", "retain"}
    BY <1>7 DEF Writes
  <2>2. Requires(call) = {call.doc}
    BY <1>7, <2>1 DEF Requires
  <2>3. ~Missing(call.doc)
    BY <1>4, <2>2 DEF Present, Missing
  <2> QED
    BY <1>7, <2>3 DEF Accepts
<1>8. CASE call.op \in Writes \cup {"keep", "retain"}
  <2>1. call.op \notin {"delete", "await"}
    BY <1>8 DEF Writes
  <2>2. Requires(call) = IF call.doc.ns \in AlwaysThere THEN {} ELSE {Home(call.doc)}
    BY <1>8, <2>1 DEF Requires
  <2>3. Housed(call.doc)
    BY <1>4, <2>2 DEF Housed
  <2>4. CASE call.op \in {"put", "keep", "retain"}
    BY <2>3, <2>4 DEF Accepts
  <2>5. CASE call.op = "create"
    BY <1>5, <2>3, <2>5 DEF Accepts, Collides
  <2>6. CASE call.op = "post"
    BY <1>5, <2>3, <2>6 DEF Accepts, Collides
  <2> QED
    BY <1>8, <2>4, <2>5, <2>6 DEF Writes
<1>9. CASE call.op \in {"remove", "clear", "discard", "read", "gate"}
  BY <1>9 DEF Accepts
<1> QED
  BY <1>3, <1>6, <1>7, <1>8, <1>9 DEF Operations, Deletes

\* So is every call of a stage that is sound,
LEMMA SoundAccepts ==
  ASSUME TypeInv, EffectInv, CalmInv, Running, calm, Sound(command, before, stage)
  PROVE  Accepts(ThisCall)
<1>1. Here \in PlacesOf(command) /\ Here[1] = stage
  BY HereFound DEF Here
<1> QED
  BY <1>1, MetAccepts DEF Sound

\* and what comes before a delete that is surely made, so that giving up does not pass it.
LEMMA MadeReached ==
  ASSUME TypeInv, EffectInv, CalmInv, Running, calm, GiveUp, ~Accepts(ThisCall),
         NEW y \in PlacesOf(command), Made(command, before, y),
         Passed(y[1], y[2], y[3])'
  PROVE  Reached(y)
<1>1. /\ command \in Command /\ Here \in PlacesOf(command) /\ Here[1] = stage
  BY HereFound DEF Here
<1>2. CASE y[1] # stage
  BY <1>2, GiveUpPassesElsewhere
<1>3. CASE y[1] = stage /\ Strict(command, y)
  <2>1. outcome' = "error"
    BY <1>3, StrictEnds DEF Strict, ThisStage
  <2> QED
    BY <2>1 DEF Passed, Running
<1>4. CASE y[1] = stage /\ ~Strict(command, y)
  <2> SUFFICES ASSUME ~Reached(y) PROVE FALSE
    OBVIOUS
  <2>1. ~Precedes(y, Here)
    BY EarlierReached
  <2>2. ASSUME NEW z \in PlacesOf(command), z[1] = stage,
               Plan[command][stage].onError = "drop" => ~Precedes(y, z)
        PROVE  Meets(command, before, z)
    BY <1>4, <2>2 DEF Made, Meets
  <2>3. Meets(command, before, Here)
    BY <1>1, <2>1, <2>2
  <2>4. Again(command, Here) => Sound(command, before, stage)
    BY <1>1, <2>2 DEF Again, Sound
  <2> QED
    BY <2>3, <2>4, MetAccepts
<1> QED
  BY <1>2, <1>3, <1>4

\* A call disturbs only what a call after it finds.
LEMMA CallLeaves ==
  ASSUME TypeInv, Running, NEW x \in PlacesOf(command), ~Reached(x), x # Here, Finds(x),
         before' = before, command' = command, api' = After(ThisCall), Advance, Running'
  PROVE  Finds(x)'
<1>1. /\ command \in Command /\ Here \in PlacesOf(command)
      /\ CallAt(command, Here) = ThisCall /\ ThisCall.doc \in DOMAIN api
      /\ before \subseteq DOMAIN api /\ DOMAIN api' = DOMAIN api
  <2>1. DOMAIN After(ThisCall) = DOMAIN api
    BY HereFound, AfterTyped DEF TypeInv
  <2> QED
    BY <2>1, HereFound DEF TypeInv, TypeOK
<1>2. ~Precedes(x, Here)
  BY EarlierReached
<1>3. ASSUME NEW d \in before, Untouched(command, x, d) PROVE d \in Present'
  <2>1. ~Strikes(ThisCall, d)
    BY <1>1, <1>2, <1>3 DEF Untouched
  <2>2. d \in Present /\ d \in DOMAIN api
    BY <1>3 DEF Finds, Present
  <2>3. api'[d] \in {api[d], "new"}
    BY <1>1, <2>1, <2>2, NotStruck
  <2> QED
    BY <1>1, <2>2, <2>3 DEF Present
<1>4. ASSUME NEW d \in DOMAIN api \ before, Unwritten(command, x, d) PROVE d \notin Present'
  <2>1. ~(ThisCall.op \in Writes \cup {"keep", "retain"} /\ ThisCall.doc = d)
    BY <1>1, <1>2, <1>4 DEF Unwritten, WritesTo
  <2>2. d \notin Present
    BY <1>4 DEF Finds
  <2>3. api'[d] \in {api[d], "none"}
    BY <1>1, <2>1, NotWritten
  <2> QED
    BY <2>2, <2>3 DEF Present
<1>5. ASSUME NEW y \in PlacesOf(command), Clears(command, before, y, x), Reached(y)'
      PROVE  CallAt(command, y).doc \notin Present'
  <2>1. /\ y[1] \in DOMAIN Plan[command] /\ y[2] \in DOMAIN Plan[command][y[1]].parts
        /\ y[3] \in DOMAIN Plan[command][y[1]].parts[y[2]]
        /\ y = <<y[1], y[2], y[3]>>
        /\ CallAt(command, y).doc \in DOMAIN api
    BY <1>1, PlaceFound, CallTyped DEF TypeInv
  <2>2. Reached(y) \/ y = Here
    BY <1>5, <2>1, AdvancePasses DEF Passed, Reached, Current, Here
  <2>3. CASE y = Here
    <3>1. api' = Without(ThisCall.doc)
      BY <1>1, <1>5, <2>3, AfterDelete DEF Clears
    <3> QED
      BY <1>1, <2>3, <3>1 DEF Without, Present
  <2>4. CASE Reached(y)
    <3>1. CallAt(command, y).doc \notin Present
      BY <1>5, <2>4 DEF Finds
    <3>2. ~Precedes(Here, y)
      BY <2>4, LaterNotReached
    <3>3. ~WritesTo(command, Here, CallAt(command, y).doc)
      BY <1>1, <1>2, <1>5, <3>2 DEF Clears
    <3>4. api'[CallAt(command, y).doc] \in {api[CallAt(command, y).doc], "none"}
      BY <1>1, <2>1, <3>3, NotWritten DEF WritesTo
    <3> QED
      BY <2>1, <3>1, <3>4 DEF Present
  <2> QED
    BY <2>2, <2>3, <2>4
<1> QED
  BY <1>1, <1>3, <1>4, <1>5 DEF Finds

\* A command one of whose calls failed by itself is not calm.
LEMMA FaultsDisturb ==
  ASSUME Fault \/ FailsAgain \/ Overlook \/ Interrupt
  PROVE  ~calm'
BY DEF Fault, FailsAgain, Overlook, Interrupt, CountFault

LEMMA NextCalm ==
  TypeInv /\ EffectInv /\ CalmInv /\ [Next]_vars => CalmInv'
<1> SUFFICES ASSUME TypeInv, EffectInv, CalmInv, [Next]_vars, calm', Running',
                    NEW x \in PlacesOf(command'),
                    Again(command', x) => Sound(command', before', x[1]), ~Reached(x)'
             PROVE  Finds(x)'
  BY DEF CalmInv
<1>1. ASSUME NEW c \in Command, Start(c) PROVE Finds(x)'
  <2>1. before' = Present /\ DOMAIN api' = DOMAIN api /\ command' = c
    BY <1>1 DEF Start
  <2>2. \A d \in DOMAIN api : api'[d] = "none" <=> api[d] = "none"
    BY <1>1 DEF Start
  <2>3. Present' = Present
    BY <2>1, <2>2 DEF Present
  <2>4. \A y \in PlacesOf(c) : ~Reached(y)'
    BY <1>1, StartReaches DEF Passed, Reached
  <2> QED
    BY <2>1, <2>3, <2>4 DEF Finds
<1>2. CASE Perform
  <2>1. /\ command' = command /\ before' = before /\ api' = After(ThisCall)
        /\ calm /\ Running /\ Advance
    BY <1>2 DEF Perform
  <2>2. ~Reached(x) /\ x # Here
    BY <2>1, AdvanceReaches
  <2>3. Finds(x)
    BY <2>1, <2>2 DEF CalmInv
  <2> QED
    BY <2>1, <2>2, <2>3, CallLeaves
<1>3. CASE Refused
  <2>1. /\ command' = command /\ before' = before /\ api' = api
        /\ calm /\ Running /\ GiveUp /\ ~Accepts(ThisCall)
    BY <1>3 DEF Refused
  <2>2. x[1] # stage
    <3> SUFFICES ASSUME x[1] = stage PROVE FALSE
      OBVIOUS
    <3>1. ~Again(command, x)
      BY <2>1, SoundAccepts
    <3>2. ThisStage.onError \in {"return", "drop"}
      BY <2>1, <3>1, CallTyped, StageShape DEF Again, ThisStage, Place
    <3>3. ThisStage.onError # "return"
      BY <2>1, StrictEnds DEF Running
    <3>4. stage' = stage + 1 /\ stage \in Nat
      BY <2>1, <3>2, <3>3, DropLeads, HereFound
    <3> QED
      BY <3>4 DEF Reached, Behind
  <2>3. ~Reached(x)
    BY <2>1, <2>2, GiveUpReaches
  <2>4. Finds(x)
    BY <2>1, <2>3 DEF CalmInv
  <2>5. \A y \in PlacesOf(command) : Clears(command, before, y, x) /\ Reached(y)' => Reached(y)
    BY <2>1, MadeReached DEF Clears, Passed, Reached
  <2> QED
    BY <2>1, <2>4, <2>5 DEF Finds, Present
<1>4. CASE Decline
  BY <1>4 DEF Decline, Finish, Running
<1>5. CASE Fault \/ FailsAgain \/ Overlook \/ Interrupt
  BY <1>5, FaultsDisturb
<1>6. CASE UNCHANGED vars
  BY <1>6 DEF vars, position, CalmInv, Finds, Running, Reached, Behind, Present
<1> QED
  BY <1>1, <1>2, <1>3, <1>4, <1>5, <1>6 DEF Next, Step

\* A command that ended in an error although nothing failed by itself did so at a call of a
\* stage that is not sound, with all written that comes before it.
SoundInv ==
  calm /\ outcome = "error" =>
    \E x \in PlacesOf(command) :
      /\ Strict(command, x) /\ ~Meets(command, before, x)
      /\ Builds(command) => \A d : WrittenFirst(command, x, d) => d \in Present

LEMMA NextSound ==
  TypeInv /\ EffectInv /\ CalmInv /\ SoundInv /\ [Next]_vars => SoundInv'
<1> SUFFICES ASSUME TypeInv, EffectInv, CalmInv, SoundInv, [Next]_vars, calm', outcome' = "error"
             PROVE  \E x \in PlacesOf(command') :
                      /\ Strict(command', x) /\ ~Meets(command', before', x)
                      /\ Builds(command') => \A d : WrittenFirst(command', x, d) => d \in Present'
  BY DEF SoundInv
<1>1. ASSUME NEW c \in Command, Start(c) PROVE FALSE
  BY <1>1 DEF Start, StartStage
<1>2. CASE Perform
  BY <1>2, AdvanceEnds DEF Perform
<1>3. CASE Refused
  <2>1. /\ command' = command /\ before' = before /\ api' = api
        /\ calm /\ Running /\ GiveUp /\ ~Accepts(ThisCall)
    BY <1>3 DEF Refused
  <2>2. /\ Here \in PlacesOf(command) /\ Strict(command, Here) /\ ~Again(command, Here)
    BY <2>1, GiveUpEnds, HereFound DEF Strict, Again, ThisStage, Here
  <2>3. ~Meets(command, before, Here)
    BY <2>1, <2>2, MetAccepts
  <2>4. Builds(command) => \A d : WrittenFirst(command, Here, d) => d \in Present
    BY <2>1, WrittenFound
  <2> QED
    BY <2>1, <2>2, <2>3, <2>4 DEF Present
<1>4. CASE Decline
  BY <1>4 DEF Decline, Finish
<1>5. CASE Fault \/ FailsAgain \/ Overlook \/ Interrupt
  BY <1>5, FaultsDisturb
<1>6. CASE UNCHANGED vars
  BY <1>6 DEF vars, position, SoundInv, Present
<1> QED
  BY <1>1, <1>2, <1>3, <1>4, <1>5, <1>6 DEF Next, Step

LEMMA InitSound == Init => CalmInv /\ SoundInv
BY DEF Init, CalmInv, SoundInv, Running

LEMMA SpecSound == Spec => [](TypeInv /\ EffectInv /\ CalmInv /\ SoundInv)
<1> DEFINE Inv == TypeInv /\ EffectInv /\ CalmInv /\ SoundInv
<1>1. Init => Inv
  BY InitTyped, InitEffects, InitSound
<1>2. Inv /\ [Next]_vars => Inv'
  BY NextTyped, NextEffects, NextCalm, NextSound
<1> QED
  BY <1>1, <1>2, PTL DEF Spec

LEMMA SoundnessSaves ==
  ASSUME TypeInv, SoundInv, calm, \A s \in StrictStages(command) : Sound(command, before, s)
  PROVE  outcome # "error"
<1> SUFFICES ASSUME outcome = "error" PROVE FALSE
  OBVIOUS
<1>1. command \in Command
  BY DEF TypeInv
<1>2. PICK x \in PlacesOf(command) : Strict(command, x) /\ ~Meets(command, before, x)
  BY DEF SoundInv
<1>3. x[1] \in StrictStages(command)
  BY <1>1, <1>2, PlaceFound DEF Strict, StrictStages
<1> QED
  BY <1>2, <1>3 DEF Sound

\* A command all of whose strict stages are sound for what it found ends without an error
\* unless a call of it fails by itself, whatever earlier commands left behind: what may come
\* first in a plan is all there is to know (CommandRunner!Refused).
THEOREM SoundCommandsSucceed ==
  Spec => [](calm /\ (\A s \in StrictStages(command) : Sound(command, before, s))
               => outcome # "error")
<1>1. TypeInv /\ SoundInv => (calm /\ (\A s \in StrictStages(command) : Sound(command, before, s))
                                => outcome # "error")
  BY SoundnessSaves
<1> QED
  BY SpecSound, <1>1, PTL

----------------------------------------------------------------------------
(***************************************************************************)
(* Namespaces: what is in one is never there without it.                   *)
(***************************************************************************)
HousedInv ==
  /\ \A d \in Present : Housed(d)
  /\ Homes(before) \subseteq before

\* A call that is accepted puts nothing where there is no namespace, and what it deletes goes
\* with all that is in it.
LEMMA CallHouses ==
  ASSUME TypeInv, Running, \A d \in Present : Housed(d), api' = After(ThisCall),
         Accepts(ThisCall) \/ ThisCall.op \in Deletes
  PROVE  \A d \in Present' : Housed(d)'
<1> DEFINE call == ThisCall
<1>1. /\ command \in Command /\ call.op \in Operations /\ call.doc \in DOMAIN api
      /\ DOMAIN api' = DOMAIN api /\ app \in Application /\ DOMAIN api = Documents[app]
  <2>1. DOMAIN After(call) = DOMAIN api
    BY HereFound, AfterTyped DEF TypeInv
  <2> QED
    BY <2>1, HereFound DEF TypeInv, TypeOK, CallRecords
<1> SUFFICES ASSUME NEW d \in Present', d.ns \notin AlwaysThere PROVE Home(d) \in Present'
  BY DEF Housed
<1>2. d \in DOMAIN api /\ api'[d] # "none"
  BY <1>1 DEF Present
<1>3. d \in Present => Home(d) \in Present
  BY DEF Housed
<1>4. CASE api' = [api EXCEPT ![call.doc] = "new"] /\ Housed(call.doc)
  <2>1. d \in Present \/ d = call.doc
    BY <1>1, <1>2, <1>4 DEF Present
  <2>2. Home(d) \in Present
    BY <1>3, <1>4, <2>1 DEF Housed
  <2> QED
    BY <1>1, <1>4, <2>2 DEF Present
<1>5. CASE api' = api
  BY <1>2, <1>3, <1>5 DEF Present
<1>6. CASE call.op \in Deletes
  <2>1. api' = Without(call.doc)
    BY <1>6, AfterDelete
  <2>2. ~Strikes(call, d)
    BY <1>1, <1>2, <1>6, <2>1 DEF Strikes, Without
  <2>3. d \in Present
    BY <1>1, <1>2, <1>6, <2>1, <2>2 DEF Strikes, Without, Present
  <2>4. Home(d) \in Present /\ Home(d) \in DOMAIN api
    BY <1>3, <2>3 DEF Present
  <2>5. ~Strikes(call, Home(d))
    <3>1. CASE call.doc.kind = "Namespace"
      <4>1. d.ns # call.doc.name
        BY <1>6, <2>2, <3>1 DEF Strikes
      <4>2. Home(d).name = d.ns /\ Home(d).ns = ""
        BY DEF Home
      <4>3. call.doc.name # ""
        BY <1>1, <3>1, HousingAssumption
      <4> QED
        BY <4>1, <4>2, <4>3 DEF Strikes
    <3>2. CASE call.doc.kind # "Namespace"
      <4>1. Home(d).kind = "Namespace"
        BY DEF Home
      <4> QED
        BY <3>2, <4>1 DEF Strikes
    <3> QED
      BY <3>1, <3>2
  <2>6. api'[Home(d)] \in {api[Home(d)], "new"}
    BY <1>1, <2>4, <2>5, NotStruck
  <2> QED
    BY <1>1, <2>4, <2>6 DEF Present
<1>7. CASE call.op \in Writes \cup {"keep", "retain"}
  <2>1. Accepts(call)
    BY <1>7 DEF Writes, Deletes
  <2>2. Housed(call.doc)
    <3>1. CASE call.op \in {"put", "keep", "retain"}
      BY <2>1, <3>1 DEF Accepts
    <3>2. CASE call.op = "create"
      BY <2>1, <3>2 DEF Accepts
    <3>3. CASE call.op = "post"
      BY <2>1, <3>3 DEF Accepts
    <3> QED
      BY <1>7, <3>1, <3>2, <3>3 DEF Writes
  <2>3. api' = [api EXCEPT ![call.doc] = "new"] \/ api' = api
    BY <1>7, AfterWrite, AfterKeep
  <2> QED
    BY <1>4, <1>5, <2>2, <2>3
<1>8. CASE call.op \notin Writes \cup Deletes \cup {"keep", "retain"}
  BY <1>5, <1>8 DEF After
<1> QED
  BY <1>6, <1>7, <1>8

LEMMA NextHoused == TypeInv /\ HousedInv /\ [Next]_vars => HousedInv'
<1> SUFFICES ASSUME TypeInv, HousedInv, [Next]_vars PROVE HousedInv'
  OBVIOUS
<1>1. ASSUME NEW c \in Command, Start(c) PROVE HousedInv'
  <2>1. before' = Present /\ DOMAIN api' = DOMAIN api
    BY <1>1 DEF Start
  <2>2. \A d \in DOMAIN api : api'[d] = "none" <=> api[d] = "none"
    BY <1>1 DEF Start
  <2>3. Present' = Present
    BY <2>1, <2>2 DEF Present
  <2>4. Homes(Present) \subseteq Present
    BY DEF HousedInv, Homes, Housed
  <2> QED
    BY <2>1, <2>3, <2>4 DEF HousedInv, Housed, Homes
<1>2. ASSUME UNCHANGED <<api, before>> PROVE HousedInv'
  BY <1>2 DEF HousedInv, Homes, Housed, Present
<1>3. ASSUME Running, api' = After(ThisCall), UNCHANGED before,
             Accepts(ThisCall) \/ ThisCall.op \in Deletes
      PROVE  HousedInv'
  <2>1. \A d \in Present' : Housed(d)'
    BY <1>3, CallHouses DEF HousedInv
  <2> QED
    BY <1>3, <2>1 DEF HousedInv, Homes
<1>4. CASE Perform
  BY <1>3, <1>4 DEF Perform
<1>5. CASE Refused \/ Decline \/ Interrupt \/ UNCHANGED vars
  BY <1>2, <1>5 DEF Refused, Decline, Interrupt, vars
<1>6. CASE Fault \/ FailsAgain
  BY <1>2, <1>3, <1>6 DEF Fault, FailsAgain, Fails
<1>7. CASE Overlook
  BY <1>2, <1>3, <1>7 DEF Overlook, Deletes
<1> QED
  BY <1>1, <1>4, <1>5, <1>6, <1>7 DEF Next, Step

LEMMA InitHoused == Init => HousedInv
<1> SUFFICES ASSUME Init PROVE HousedInv
  OBVIOUS
<1>1. app \in Application /\ before = {}
  BY DEF Init
<1>2. PICK found \in {{}, Inherited} :
        api = [d \in Documents[app] |-> IF d \in found THEN "old" ELSE "none"]
  BY DEF Init
<1>3. Present = found \cap Documents[app]
  BY <1>2 DEF Present
<1>4. Homes(Present) \subseteq Present
  BY <1>1, <1>2, <1>3, HousingAssumption DEF Homes
<1> QED
  BY <1>1, <1>4 DEF HousedInv, Homes, Housed

LEMMA SpecHoused == Spec => [](TypeInv /\ HousedInv)
<1>1. Init => TypeInv /\ HousedInv
  BY InitTyped, InitHoused
<1>2. TypeInv /\ HousedInv /\ [Next]_vars => (TypeInv /\ HousedInv)'
  BY NextTyped, NextHoused
<1> QED
  BY <1>1, <1>2, PTL DEF Spec

----------------------------------------------------------------------------
(***************************************************************************)
(* Detach                                                                  *)
(***************************************************************************)
\* What a call asks for is there if more is there, and a delete that is surely made is.
LEMMA MadeGrows ==
  ASSUME NEW c, NEW y, NEW found, NEW more, found \subseteq more, Made(c, found, y)
  PROVE  Made(c, more, y)
BY DEF Made, Supplied

LEMMA ClearedGrows ==
  ASSUME NEW c, NEW x, NEW found, NEW more, found \subseteq more, ClearedFirst(c, found, x)
  PROVE  ClearedFirst(c, more, x)
BY MadeGrows DEF ClearedFirst, Clears

\* A call that succeeds with some documents there succeeds with more, but for the one that it
\* creates and nothing deletes before.
LEMMA MeetsGrows ==
  ASSUME NEW c \in Command, NEW x, NEW found, NEW more, found \subseteq more,
         Meets(c, found, x), ~Meets(c, more, x)
  PROVE  /\ Collides(CallAt(c, x)) /\ ~ClearedFirst(c, found, x)
         /\ CallAt(c, x).doc \in more
<1>1. Supplied(c, more, x)
  BY DEF Meets, Supplied
<1>2. ClearedFirst(c, found, x) => ClearedFirst(c, more, x)
  BY ClearedGrows
<1> QED
  BY <1>1, <1>2 DEF Meets

\* So does a stage.
LEMMA SoundGrows ==
  ASSUME NEW c \in Command, NEW s, NEW found, NEW more, Sound(c, found, s),
         found \subseteq more, Fresh(c, found, s) \cap more = {}
  PROVE  Sound(c, more, s)
BY MeetsGrows DEF Sound, Fresh

LEMMA DetachesSucceed == TypeInv /\ SoundInv /\ HousedInv => DetachSucceeds
<1> SUFFICES ASSUME TypeInv, SoundInv, HousedInv, command.verb = "detach", outcome = "error", calm,
                    Needed[command] \subseteq before
             PROVE  FALSE
  BY DEF DetachSucceeds, Ended
<1>1. command \in Command
  BY DEF TypeInv
<1>2. Homes(Needed[command]) \subseteq before
  BY DEF HousedInv, Homes
<1>3. ASSUME NEW s \in StrictStages(command)
      PROVE  Sound(command, before, s)
  <2> DEFINE found == Needed[command] \cup Homes(Needed[command])
  <2>1. Sound(command, found, s) /\ Fresh(command, found, s) = {}
    BY <1>1, DetachAssumption
  <2>2. found \subseteq before
    BY <1>2
  <2> QED
    BY <1>1, <2>1, <2>2, SoundGrows
<1> QED
  BY <1>3, SoundnessSaves

\* A detach that finds everything it deletes, and no call of which fails by itself, ends
\* without an error, for every plan in which no detach takes away what a later call of it
\* asks for (CommandRunner!DetachSucceeds).
THEOREM DetachAlwaysSucceeds == Spec => []DetachSucceeds
BY SpecSound, SpecHoused, DetachesSucceed, PTL

----------------------------------------------------------------------------
(***************************************************************************)
(* What a sound stage leaves, also one whose errors are dropped            *)
(***************************************************************************)
\* No call at x or after it takes away what x writes.
Stays(c, x) ==
  \A y \in PlacesOf(c) : Strikes(CallAt(c, y), CallAt(c, x).doc) => Precedes(y, x)
WrittenInv ==
  calm =>
    \A x \in PlacesOf(command) :
      /\ Passed(x[1], x[2], x[3])
      /\ CallAt(command, x).op \in Writes
      /\ Sound(command, before, x[1])
      /\ Stays(command, x)
      => CallAt(command, x).doc \in Present

LEMMA NextWritten ==
  TypeInv /\ EffectInv /\ CalmInv /\ WrittenInv /\ [Next]_vars => WrittenInv'
<1> SUFFICES ASSUME TypeInv, EffectInv, CalmInv, WrittenInv, [Next]_vars, calm',
                    NEW x \in PlacesOf(command'), Passed(x[1], x[2], x[3])',
                    CallAt(command', x).op \in Writes,
                    Sound(command', before', x[1]), Stays(command', x)
             PROVE  CallAt(command', x).doc \in Present'
  BY DEF WrittenInv
<1>1. ASSUME NEW c \in Command, Start(c) PROVE FALSE
  <2>1. command' = c
    BY <1>1 DEF Start
  <2> QED
    BY <1>1, <2>1, StartReaches
<1>2. CASE Perform
  <2>1. /\ command' = command /\ before' = before /\ api' = After(ThisCall)
        /\ calm /\ Running /\ Advance
    BY <1>2 DEF Perform
  <2>2. /\ command \in Command /\ Here \in PlacesOf(command)
        /\ CallAt(command, Here) = ThisCall /\ ThisCall.doc \in DOMAIN api
        /\ DOMAIN api' = DOMAIN api
    BY <2>1, HereFound, AfterTyped DEF TypeInv
  <2>3. /\ x[1] \in DOMAIN Plan[command] /\ x[2] \in DOMAIN Plan[command][x[1]].parts
        /\ x[3] \in DOMAIN Plan[command][x[1]].parts[x[2]]
        /\ x = <<x[1], x[2], x[3]>>
    BY <2>1, <2>2, PlaceFound
  <2>4. Reached(x) \/ x = Here
    BY <2>1, <2>3, AdvancePasses DEF Reached, Current, Here
  <2>5. CASE x = Here
    BY <2>1, <2>2, <2>5, AfterWrite DEF Present
  <2>6. CASE Reached(x)
    <3>1. CallAt(command, x).doc \in Present
      BY <2>1, <2>6 DEF WrittenInv, Passed, Reached
    <3>2. ~Strikes(ThisCall, CallAt(command, x).doc)
      BY <2>1, <2>2, <2>6, LaterNotReached DEF Stays
    <3>3. api'[CallAt(command, x).doc] \in {api[CallAt(command, x).doc], "new"}
      BY <2>1, <2>2, <3>1, <3>2, NotStruck DEF Present
    <3> QED
      BY <2>1, <2>2, <3>1, <3>3 DEF Present
  <2> QED
    BY <2>4, <2>5, <2>6
<1>3. CASE Refused
  <2>1. /\ command' = command /\ before' = before /\ api' = api
        /\ calm /\ Running /\ GiveUp /\ ~Accepts(ThisCall)
    BY <1>3 DEF Refused
  <2>2. x[1] # stage
    BY <2>1, SoundAccepts
  <2>3. Reached(x)
    BY <2>1, <2>2, GiveUpPassesElsewhere
  <2> QED
    BY <2>1, <2>3 DEF WrittenInv, Passed, Reached, Present
<1>4. CASE Decline
  BY <1>4 DEF Decline, Finish, Passed, Running
<1>5. CASE Fault \/ FailsAgain \/ Overlook \/ Interrupt
  BY <1>5, FaultsDisturb
<1>6. CASE UNCHANGED vars
  BY <1>6 DEF vars, position, WrittenInv, Passed, Running, Behind, Present
<1> QED
  BY <1>1, <1>2, <1>3, <1>4, <1>5, <1>6 DEF Next, Step

\* What a delete that is surely made takes away is gone.
GoneInv ==
  calm =>
    \A x \in PlacesOf(command) :
      /\ Passed(x[1], x[2], x[3])
      /\ CallAt(command, x).op \in Deletes
      /\ Made(command, before, x)
      /\ StaysAway(command, x)
      => CallAt(command, x).doc \notin Present

LEMMA NextGone ==
  TypeInv /\ EffectInv /\ CalmInv /\ GoneInv /\ [Next]_vars => GoneInv'
<1> SUFFICES ASSUME TypeInv, EffectInv, CalmInv, GoneInv, [Next]_vars, calm',
                    NEW x \in PlacesOf(command'), Passed(x[1], x[2], x[3])',
                    CallAt(command', x).op \in Deletes,
                    Made(command', before', x), StaysAway(command', x)
             PROVE  CallAt(command', x).doc \notin Present'
  BY DEF GoneInv
<1>1. ASSUME NEW c \in Command, Start(c) PROVE FALSE
  <2>1. command' = c
    BY <1>1 DEF Start
  <2> QED
    BY <1>1, <2>1, StartReaches
<1>2. CASE Perform
  <2>1. /\ command' = command /\ before' = before /\ api' = After(ThisCall)
        /\ calm /\ Running /\ Advance
    BY <1>2 DEF Perform
  <2>2. /\ command \in Command /\ Here \in PlacesOf(command)
        /\ CallAt(command, Here) = ThisCall /\ ThisCall.doc \in DOMAIN api
        /\ DOMAIN api' = DOMAIN api
    BY <2>1, HereFound, AfterTyped DEF TypeInv
  <2>3. /\ x[1] \in DOMAIN Plan[command] /\ x[2] \in DOMAIN Plan[command][x[1]].parts
        /\ x[3] \in DOMAIN Plan[command][x[1]].parts[x[2]]
        /\ x = <<x[1], x[2], x[3]>>
        /\ CallAt(command, x).doc \in DOMAIN api
    BY <2>1, <2>2, PlaceFound, CallTyped DEF TypeInv
  <2>4. Reached(x) \/ x = Here
    BY <2>1, <2>3, AdvancePasses DEF Reached, Current, Here
  <2>5. CASE x = Here
    <3>1. api' = Without(ThisCall.doc)
      BY <2>1, <2>2, <2>5, AfterDelete
    <3> QED
      BY <2>1, <2>2, <2>5, <3>1 DEF Without, Present
  <2>6. CASE Reached(x)
    <3>1. CallAt(command, x).doc \notin Present
      BY <2>1, <2>6 DEF GoneInv, Passed, Reached
    <3>2. ~WritesTo(command, Here, CallAt(command, x).doc)
      BY <2>1, <2>2, <2>6, LaterNotReached DEF StaysAway
    <3>3. api'[CallAt(command, x).doc] \in {api[CallAt(command, x).doc], "none"}
      BY <2>1, <2>2, <2>3, <3>2, NotWritten DEF WritesTo
    <3> QED
      BY <2>1, <2>3, <3>1, <3>3 DEF Present
  <2> QED
    BY <2>4, <2>5, <2>6
<1>3. CASE Refused
  <2>1. /\ command' = command /\ before' = before /\ api' = api
        /\ calm /\ Running /\ GiveUp /\ ~Accepts(ThisCall)
    BY <1>3 DEF Refused
  <2>2. Reached(x)
    BY <2>1, MadeReached
  <2> QED
    BY <2>1, <2>2 DEF GoneInv, Passed, Reached, Present
<1>4. CASE Decline
  BY <1>4 DEF Decline, Finish, Passed, Running
<1>5. CASE Fault \/ FailsAgain \/ Overlook \/ Interrupt
  BY <1>5, FaultsDisturb
<1>6. CASE UNCHANGED vars
  BY <1>6 DEF vars, position, GoneInv, Passed, Running, Behind, Present
<1> QED
  BY <1>1, <1>2, <1>3, <1>4, <1>5, <1>6 DEF Next, Step

LEMMA InitWritten == Init => WrittenInv /\ GoneInv
BY DEF Init, WrittenInv, GoneInv, Passed, Running

LEMMA SpecWritten == Spec => [](TypeInv /\ EffectInv /\ CalmInv /\ WrittenInv /\ GoneInv)
<1> DEFINE Inv == TypeInv /\ EffectInv /\ CalmInv /\ WrittenInv /\ GoneInv
<1>1. Init => Inv
  BY InitTyped, InitEffects, InitSound, InitWritten
<1>2. Inv /\ [Next]_vars => Inv'
  BY NextTyped, NextEffects, NextCalm, NextWritten, NextGone
<1> QED
  BY <1>1, <1>2, PTL DEF Spec

\* What a command asks to delete anywhere is the document of one of its calls.
LEMMA DeleteFound ==
  ASSUME NEW c \in Command, NEW d \in Cleared[c]
  PROVE  \E x \in PlacesOf(c) : CallAt(c, x).op \in {"delete", "remove"} /\ CallAt(c, x).doc = d
<1>1. PICK s \in DOMAIN Plan[c] :
        \E call \in CallsIn(Plan[c][s]) : call.op \in {"delete", "remove"} /\ call.doc = d
  BY DEF Cleared, InStages
<1>2. PICK call \in CallsIn(Plan[c][s]) : call.op \in {"delete", "remove"} /\ call.doc = d
  BY <1>1
<1>3. PICK p \in DOMAIN Plan[c][s].parts :
        call \in {Plan[c][s].parts[p][i] : i \in DOMAIN Plan[c][s].parts[p]}
  BY <1>2 DEF CallsIn
<1>4. PICK i \in DOMAIN Plan[c][s].parts[p] : call = Plan[c][s].parts[p][i]
  BY <1>3
<1> QED
  BY <1>2, <1>4, PlaceMade

LEMMA DetachesClear == TypeInv /\ GoneInv => DetachClears
<1> SUFFICES ASSUME TypeInv, GoneInv, command.verb = "detach", outcome = "ok", calm,
                    NEW d \in Cleared[command]
             PROVE  d \notin Present
  BY DEF DetachClears, Ended
<1>1. command \in Command
  BY DEF TypeInv
<1>2. PICK x \in PlacesOf(command) :
        CallAt(command, x).op \in {"delete", "remove"} /\ CallAt(command, x).doc = d
  BY <1>1, DeleteFound
<1>3. Made(command, {}, x) /\ StaysAway(command, x)
  BY <1>1, <1>2, ClearingAssumption
<1>4. Made(command, before, x)
  BY <1>3, MadeGrows
<1> QED
  BY <1>2, <1>3, <1>4 DEF GoneInv, Passed, Deletes

\* A detach that reports success, no call of which failed by itself, has deleted everything it
\* asks to delete, also where its errors are dropped, for every plan in which such a delete is
\* refused by nothing and never written back (CommandRunner!DetachClears).
THEOREM DetachAlwaysClears == Spec => []DetachClears
BY SpecWritten, DetachesClear, PTL

----------------------------------------------------------------------------
(***************************************************************************)
(* What an addon loses.  Between a call that deletes a document to replace *)
(* it and the next one, which writes it, the document is pending.          *)
(***************************************************************************)
Lost == before \ Present
PreviousCall == ThisStage.parts[part][next - 1]
Pending == {d \in DOMAIN api : next > 1 /\ PreviousCall.op \in {"clear", "discard"} /\ PreviousCall.doc = d}
Little(lost) == Cardinality(lost) <= 1 \/ lost \subseteq Taken[command]
LostInv ==
  command.verb = "addon" =>
    /\ Running => Lost \subseteq Taken[command] \cup Pending
    /\ Little(Lost)

LEMMA OneIsLittle ==
  ASSUME NEW lost, NEW d, lost \subseteq {d}
  PROVE  Cardinality(lost) <= 1
<1>1. IsFiniteSet({d}) /\ Cardinality({d}) = 1
  BY FS_Singleton
<1> QED
  BY <1>1, FS_Subset, FS_CardinalityType

\* When an addon replaces a document, all that it took away is there again.
LEMMA TakenReturned ==
  ASSUME TypeInv, EffectInv, Running, command.verb = "addon",
         NEW x \in PlacesOf(command), Replaces(command, x), x = Here \/ Precedes(x, Here)
  PROVE  Lost \cap Taken[command] = {}
<1>1. command \in Command /\ command.app = app /\ DOMAIN api = Documents[app]
  BY DEF TypeInv, TypeOK
<1> SUFFICES ASSUME NEW d \in Taken[command] PROVE d \in Present
  BY DEF Lost
<1>2. WrittenFirst(command, x, d)
  BY <1>1, ReplacementAssumption
<1>3. PICK y \in PlacesOf(command) :
        /\ Strict(command, y)
        /\ CallAt(command, y).op \in Writes \cup {"keep"} /\ CallAt(command, y).doc = d
        /\ Precedes(y, x)
  BY <1>2 DEF WrittenFirst
<1>4. Precedes(y, Here)
  <2>1. /\ x[1] \in Nat /\ x[3] \in Nat /\ y[1] \in Nat /\ y[3] \in Nat
        /\ stage \in Nat /\ next \in Nat
    BY <1>1, PlaceFound, HereFound
  <2>2. CASE x = Here
    BY <1>3, <2>2
  <2>3. CASE Precedes(x, Here)
    BY <1>3, <2>1, <2>3 DEF Precedes, Here
  <2> QED
    BY <2>2, <2>3
<1>5. Passed(y[1], y[2], y[3])
  BY <1>4, EarlierReached DEF Passed, Reached
<1>6. /\ y[1] \in DOMAIN Plan[command] /\ y[2] \in DOMAIN Plan[command][y[1]].parts
      /\ y[3] \in DOMAIN Plan[command][y[1]].parts[y[2]]
      /\ CallAt(command, y).doc \in Documents[command.app]
  BY <1>1, PlaceFound
<1>7. EffectIn(command, api, CallAt(command, y))
  BY <1>3, <1>5, <1>6 DEF EffectInv, Strict, CallAt
<1> QED
  BY <1>1, <1>3, <1>6, <1>7 DEF EffectIn, Builds, Present

\* A document is pending that is not of a stage that deletes: the call that comes now writes
\* it, and nothing else is lost.
LEMMA PendingFound ==
  ASSUME TypeInv, EffectInv, LostInv, Running, command.verb = "addon",
         NEW d \in Pending, d \notin Taken[command]
  PROVE  /\ ThisCall.op \in Writes /\ ThisCall.doc = d
         /\ ThisStage.onError = "return"
         /\ Lost \subseteq {d}
<1> DEFINE x == <<stage, part, next - 1>>
<1>1. /\ command \in Command /\ Place(command, stage, part, todo, next, tries)
      /\ stage \in Nat /\ next \in Nat /\ next > 1
  BY CallTyped, HereFound DEF Pending
<1>2. /\ Len(ThisStage.parts[part]) \in Nat
      /\ DOMAIN ThisStage.parts[part] = 1..Len(ThisStage.parts[part])
  BY <1>1, StageShape DEF Place, ThisStage
<1>3. next - 1 \in DOMAIN Plan[command][stage].parts[part] /\ (next - 1) + 1 = next
  BY <1>1, <1>2 DEF Place, ThisStage
<1>4. x \in PlacesOf(command) /\ CallAt(command, x) = PreviousCall
  BY <1>1, <1>3, PlaceMade DEF Place, PreviousCall, ThisStage
<1>5. x[1] = stage /\ x[2] = part /\ x[3] = next - 1
  OBVIOUS
<1>6. Replaces(command, x)
  BY <1>4 DEF Replaces, Pending
<1>7. /\ Strict(command, x)
      /\ Plan[command][x[1]].parts[x[2]][x[3] + 1].op \in {"put", "create"}
      /\ Plan[command][x[1]].parts[x[2]][x[3] + 1].doc = CallAt(command, x).doc
  BY <1>1, <1>4, <1>6, ReplacementAssumption
<1>8. ThisCall.op \in Writes /\ ThisCall.doc = d /\ ThisStage.onError = "return"
  BY <1>3, <1>4, <1>5, <1>7 DEF Strict, ThisCall, ThisStage, Pending, Writes
<1>9. Precedes(x, Here)
  BY <1>1, <1>5 DEF Precedes, Here
<1>10. Lost \cap Taken[command] = {}
  BY <1>4, <1>6, <1>9, TakenReturned
<1>11. Lost \subseteq {d}
  BY <1>10 DEF LostInv, Pending
<1> QED
  BY <1>8, <1>11

\* A call of an addon.
LEMMA CallLoses ==
  ASSUME TypeInv, EffectInv, LostInv, Running, command.verb = "addon",
         command' = command, before' = before, api' = After(ThisCall)
  PROVE  \/ Lost' \subseteq Taken[command]
         \/ /\ Replaces(command, Here) /\ Lost' \subseteq {ThisCall.doc}
<1>1. /\ command \in Command /\ Here \in PlacesOf(command)
      /\ CallAt(command, Here) = ThisCall /\ ThisCall.doc \in DOMAIN api
      /\ DOMAIN api' = DOMAIN api /\ before \subseteq DOMAIN api
  <2>1. DOMAIN After(ThisCall) = DOMAIN api
    BY HereFound, AfterTyped DEF TypeInv
  <2> QED
    BY <2>1, HereFound DEF TypeInv, TypeOK
<1>2. ASSUME NEW d \in Lost', d \notin Lost PROVE Strikes(ThisCall, d)
  <2>1. d \in DOMAIN api /\ api[d] # "none" /\ api'[d] = "none"
    BY <1>1, <1>2 DEF Lost, Present
  <2>2. ~(api'[d] \in {api[d], "new"})
    BY <2>1
  <2> QED
    BY <1>1, <2>1, <2>2, NotStruck
<1>3. CASE \E d \in Pending : d \notin Taken[command]
  <2>1. PICK d \in Pending : d \notin Taken[command]
    BY <1>3
  <2>2. ThisCall.op \in Writes /\ ThisCall.doc = d /\ Lost \subseteq {d}
    BY <2>1, PendingFound
  <2>3. api'[d] = "new"
    BY <1>1, <2>2, AfterWrite
  <2>4. \A e \in Lost' : e \in Lost
    BY <1>2, <2>2 DEF Strikes, Deletes, Writes
  <2>5. Lost' = {}
    BY <1>1, <2>2, <2>3, <2>4 DEF Lost, Present
  <2> QED
    BY <2>5
<1>4. CASE Pending \subseteq Taken[command]
  <2>1. Lost \subseteq Taken[command]
    BY <1>4 DEF LostInv
  <2>2. CASE ThisCall.op \notin Deletes
    BY <1>2, <2>1, <2>2 DEF Strikes
  <2>3. CASE ThisCall.op \in Deletes
    <3>1. /\ ThisCall.doc.kind # "Namespace"
          /\ ThisCall.op \in {"delete", "remove"} => ThisCall.doc \in Taken[command]
      BY <1>1, <2>3, ReplacementAssumption
    <3>2. \A d \in Lost' : d \in Lost \/ d = ThisCall.doc
      BY <1>2, <3>1 DEF Strikes
    <3>3. CASE ThisCall.doc \in Taken[command]
      BY <2>1, <3>2, <3>3
    <3>4. CASE ThisCall.doc \notin Taken[command]
      <4>1. Replaces(command, Here)
        BY <1>1, <2>3, <3>1, <3>4 DEF Replaces, Deletes
      <4>2. Lost \cap Taken[command] = {}
        BY <1>1, <4>1, TakenReturned
      <4> QED
        BY <2>1, <3>2, <4>1, <4>2
    <3> QED
      BY <3>3, <3>4
  <2> QED
    BY <2>2, <2>3
<1> QED
  BY <1>3, <1>4

LEMMA LittleAfter ==
  ASSUME NEW d, command' = command, Lost' \subseteq Taken[command] \/ Lost' \subseteq {d}
  PROVE  Little(Lost)'
BY OneIsLittle DEF Little

\* A document replaced is pending after the call, or the command has ended.
LEMMA ReplacedPends ==
  ASSUME TypeInv, Running, command.verb = "addon", command' = command, DOMAIN api' = DOMAIN api,
         Advance, Replaces(command, Here)
  PROVE  ThisCall.doc \in Pending'
<1>1. /\ command \in Command /\ Here \in PlacesOf(command)
      /\ CallAt(command, Here) = ThisCall /\ ThisCall.doc \in DOMAIN api
      /\ next \in Nat /\ next >= 1
  <2>1. Place(command, stage, part, todo, next, tries) /\ command \in Command
    BY CallTyped
  <2>2. next \in 1..Len(Plan[command][stage].parts[part])
    BY <2>1, StageShape DEF Place
  <2> QED
    BY <2>2, HereFound
<1>2. next < Len(ThisStage.parts[part])
  BY <1>1, ReplacementAssumption DEF Here, ThisStage
<1>3. next' = next + 1 /\ stage' = stage /\ part' = part
  BY <1>1, <1>2, StageShape, CallTyped DEF Advance, Place, ThisStage
<1>4. next' > 1 /\ next' - 1 = next
  BY <1>1, <1>3
<1>5. PreviousCall' = ThisCall
  BY <1>3, <1>4 DEF PreviousCall, ThisCall, ThisStage
<1> QED
  BY <1>1, <1>4, <1>5 DEF Pending, Replaces

\* A step of an addon that goes on after its call.
LEMMA AdvanceLoses ==
  ASSUME TypeInv, EffectInv, LostInv, Running, command.verb = "addon", Advance,
         command' = command, before' = before,
         \/ api' = After(ThisCall)
         \/ api' = api /\ ThisCall.op \notin Writes
  PROVE  LostInv'
<1>1. DOMAIN api' = DOMAIN api
  BY HereFound, AfterTyped DEF TypeInv
<1>2. CASE api' = After(ThisCall)
  <2>1. CASE Lost' \subseteq Taken[command]
    BY <2>1, LittleAfter DEF LostInv
  <2>2. CASE Replaces(command, Here) /\ Lost' \subseteq {ThisCall.doc}
    <3>1. Lost' \subseteq Pending'
      BY <1>1, <2>2, ReplacedPends
    <3> QED
      BY <2>2, <3>1, LittleAfter DEF LostInv
  <2> QED
    BY <1>2, <2>1, <2>2, CallLoses
<1>3. CASE api' = api /\ ThisCall.op \notin Writes
  <2>1. Pending \subseteq Taken[command]
    BY <1>3, PendingFound
  <2>2. Lost' \subseteq Taken[command]
    BY <1>3, <2>1 DEF LostInv, Lost, Present
  <2> QED
    BY <2>2, LittleAfter DEF LostInv
<1> QED
  BY <1>2, <1>3

\* One that gives up, or ends.
LEMMA EndLoses ==
  ASSUME TypeInv, EffectInv, LostInv, Running, command.verb = "addon",
         GiveUp \/ ~Running',
         command' = command, before' = before,
         api' = After(ThisCall) \/ api' = api
  PROVE  LostInv'
<1>1. ThisStage.onError = "return" => ~Running'
  BY StrictEnds DEF Running
<1>2. CASE api' = After(ThisCall)
  <2>1. CASE Lost' \subseteq Taken[command]
    BY <2>1, LittleAfter DEF LostInv
  <2>2. CASE Replaces(command, Here) /\ Lost' \subseteq {ThisCall.doc}
    <3>1. ThisStage.onError = "return"
      BY <2>2, HereFound, ReplacementAssumption DEF Strict, Here, ThisStage
    <3> QED
      BY <1>1, <2>2, <3>1, LittleAfter DEF LostInv
  <2> QED
    BY <1>2, <2>1, <2>2, CallLoses
<1>3. CASE api' = api
  <2>1. Lost' = Lost
    BY <1>3 DEF Lost, Present
  <2>2. CASE Pending \subseteq Taken[command]
    BY <2>1, <2>2, LittleAfter DEF LostInv
  <2>3. CASE \E d \in Pending : d \notin Taken[command]
    BY <1>1, <2>1, <2>3, PendingFound, LittleAfter DEF LostInv
  <2> QED
    BY <2>2, <2>3
<1> QED
  BY <1>2, <1>3

LEMMA NextLoses == TypeInv /\ EffectInv /\ LostInv /\ [Next]_vars => LostInv'
<1> SUFFICES ASSUME TypeInv, EffectInv, LostInv, [Next]_vars, command'.verb = "addon"
             PROVE  LostInv'
  BY DEF LostInv
<1>1. ASSUME NEW c \in Command, Start(c) PROVE LostInv'
  <2>1. before' = Present /\ DOMAIN api' = DOMAIN api
    BY <1>1 DEF Start
  <2>2. \A d \in DOMAIN api : api'[d] = "none" <=> api[d] = "none"
    BY <1>1 DEF Start
  <2>3. Lost' = {}
    BY <2>1, <2>2 DEF Lost, Present
  <2> QED
    BY <2>3 DEF LostInv, Little
<1>2. CASE Perform
  BY <1>2, AdvanceLoses DEF Perform
<1>3. CASE Refused
  BY <1>3, EndLoses DEF Refused
<1>4. CASE Fault \/ FailsAgain
  BY <1>4, EndLoses DEF Fault, FailsAgain, Fails
<1>5. CASE Overlook
  BY <1>5, AdvanceLoses DEF Overlook, Writes
<1>6. CASE Decline \/ Interrupt
  <2>1. /\ Running /\ ~Running' /\ command' = command /\ before' = before /\ api' = api
    BY <1>6 DEF Decline, Interrupt, Finish, Running
  <2> QED
    BY <2>1, EndLoses
<1>7. CASE UNCHANGED vars
  BY <1>7 DEF vars, position, LostInv, Running, Lost, Present, Pending, PreviousCall, ThisStage,
              Little
<1> QED
  BY <1>1, <1>2, <1>3, <1>4, <1>5, <1>6, <1>7 DEF Next, Step

LEMMA SpecLoses == Spec => [](TypeInv /\ EffectInv /\ LostInv)
<1>1. Init => TypeInv /\ EffectInv /\ LostInv
  BY InitTyped, InitEffects DEF Init, LostInv, NoCommand
<1>2. TypeInv /\ EffectInv /\ LostInv /\ [Next]_vars => (TypeInv /\ EffectInv /\ LostInv)'
  BY NextTyped, NextEffects, NextLoses
<1> QED
  BY <1>1, <1>2, PTL DEF Spec

\* While an addon runs again, and after it failed or was interrupted anywhere, at most one
\* document that it found is missing, or documents of its own stages that delete, for every
\* plan that deletes a document outside such stages only right before it writes it again
\* (CommandRunner!AddonLosesLittle).
THEOREM AddonAlwaysLosesLittle == Spec => []AddonLosesLittle
<1>1. LostInv => AddonLosesLittle
  BY DEF LostInv, Little, Lost, AddonLosesLittle
<1> QED
  BY SpecLoses, <1>1, PTL

=============================================================================
