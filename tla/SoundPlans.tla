----------------------------- MODULE SoundPlans -----------------------------
(***************************************************************************)
(* What the plans of CommandRunner must look like for its commands to      *)
(* succeed and to lose nothing: conditions on the text of a plan, over the *)
(* order in which its calls can come.  TLC evaluates the assumptions on the*)
(* plans of edgeadm; that they are enough, whatever fails and wherever a   *)
(* command is interrupted, is proved in SoundPlans_proofs.                 *)
(***************************************************************************)
EXTENDS CommandRunner

\* A call of a plan by its stage, its part and its place there.
PlacesOf(c) ==
  UNION { UNION { {<<s, p, i>> : i \in DOMAIN Plan[c][s].parts[p]} :
                  p \in DOMAIN Plan[c][s].parts } : s \in DOMAIN Plan[c] }
CallAt(c, x) == Plan[c][x[1]].parts[x[2]][x[3]]
\* The parts of a stage come in any order: of two calls in different parts neither is first.
Precedes(x, y) == x[1] < y[1] \/ (x[1] = y[1] /\ x[2] = y[2] /\ x[3] < y[3])
\* Where an error ends the command.
Strict(c, x) == Plan[c][x[1]].onError = "return"

\* What must be there for a call to be accepted, and what must not (CommandRunner!Accepts).
Requires(call) ==
  CASE call.op \in {"delete", "await"} -> {call.doc}
    [] call.op \in Writes \cup {"keep", "retain"} ->
         IF call.doc.ns \in AlwaysThere THEN {} ELSE {Home(call.doc)}
    [] OTHER -> {}
Collides(call) == call.op = "create" \/ (call.op = "post" /\ call.doc.ns # "")

\* No call takes d away before x is made; none writes it.
Untouched(c, x, d) ==
  \A y \in PlacesOf(c) : Strikes(CallAt(c, y), d) => y = x \/ Precedes(x, y)
WritesTo(c, z, d) == CallAt(c, z).op \in Writes \cup {"keep", "retain"} /\ CallAt(c, z).doc = d
Unwritten(c, x, d) ==
  \A y \in PlacesOf(c) : WritesTo(c, y, d) => y = x \/ Precedes(x, y)
\* What x deletes is not written once it is made.
StaysAway(c, x) == \A z \in PlacesOf(c) : WritesTo(c, z, CallAt(c, x).doc) => Precedes(z, x)
\* A call that cannot be passed over has written d before x is made.
WrittenFirst(c, x, d) ==
  \E y \in PlacesOf(c) :
    /\ Strict(c, y)
    /\ CallAt(c, y).op \in Writes \cup {"keep"} /\ CallAt(c, y).doc = d
    /\ Precedes(y, x)

\* What a call asks for is there when it is made.
Supplied(c, found, x) ==
  \A d \in Requires(CallAt(c, x)) :
    (d \in found /\ Untouched(c, x, d)) \/ (Builds(c) /\ WrittenFirst(c, x, d))
Possible(call) == call.op \notin {"panic", "unsupported"}

\* A delete that is made, if nothing fails by itself, before the command goes on: an error of
\* it would end the command, or nothing that comes before it in a stage that is given up, and
\* nothing at all in one that is tried again, can be refused.
Made(c, found, y) ==
  \/ Strict(c, y)
  \/ \A z \in PlacesOf(c) :
       z[1] = y[1] /\ (Plan[c][y[1]].onError = "drop" => ~Precedes(y, z)) =>
         Possible(CallAt(c, z)) /\ ~Collides(CallAt(c, z)) /\ Supplied(c, found, z)
\* It leaves the place of x empty: nothing writes there again in between.
Clears(c, found, y, x) ==
  /\ CallAt(c, y).op \in Deletes
  /\ Precedes(y, x)
  /\ Made(c, found, y)
  /\ \A z \in PlacesOf(c) : WritesTo(c, z, CallAt(c, y).doc) =>
       z = x \/ Precedes(x, z) \/ Precedes(z, y)
ClearedFirst(c, found, x) ==
  \E y \in PlacesOf(c) : CallAt(c, y).doc = CallAt(c, x).doc /\ Clears(c, found, y, x)

\* A command that starts from the documents in found finds at x what the call asks for, and
\* does not find what it would collide with.
Meets(c, found, x) ==
  /\ Possible(CallAt(c, x))
  /\ Supplied(c, found, x)
  /\ Collides(CallAt(c, x)) =>
       \/ CallAt(c, x).doc \notin found /\ Unwritten(c, x, CallAt(c, x).doc)
       \/ ClearedFirst(c, found, x)
Sound(c, found, s) == \A x \in PlacesOf(c) : x[1] = s => Meets(c, found, x)
StrictStages(c) == {s \in DOMAIN Plan[c] : Plan[c][s].onError = "return"}
\* What stage s asks not to be there from the start.
Fresh(c, found, s) ==
  {CallAt(c, x).doc : x \in {y \in PlacesOf(c) :
                              y[1] = s /\ Collides(CallAt(c, y)) /\ ~ClearedFirst(c, found, y)}}

----------------------------------------------------------------------------
\* No detach takes away what a later call of it asks for, and what a manifest keeps in a
\* namespace speaks for the namespace.
Homes(documents) == {Home(d) : d \in {x \in documents : x.ns \notin AlwaysThere}}
ASSUME DetachAssumption ==
  \A c \in Command : c.verb = "detach" =>
    \A s \in StrictStages(c) : LET found == Needed[c] \cup Homes(Needed[c]) IN
      Sound(c, found, s) /\ Fresh(c, found, s) = {}

\* What a detach deletes it surely deletes, and never writes afterwards.
ASSUME ClearingAssumption ==
  \A c \in Command : c.verb = "detach" =>
    \A x \in PlacesOf(c) : CallAt(c, x).op \in {"delete", "remove"} =>
      Made(c, {}, x) /\ StaysAway(c, x)

\* Where a cluster starts, a namespace is there with what is in it; every namespace has a name.
ASSUME HousingAssumption ==
  /\ \A a \in Application :
       Homes(Inherited \cap Documents[a]) \subseteq Inherited \cap Documents[a]
  /\ \A a \in Application : \A d \in Documents[a] : d.kind = "Namespace" => d.name # ""

\* An addon deletes documents of a stage for that, or one that it writes with the very next
\* call; and then all it deleted in such a stage is there again.
Replaces(c, x) == CallAt(c, x).op \in {"clear", "discard"} /\ CallAt(c, x).doc \notin Taken[c]
ASSUME ReplacementAssumption ==
  \A c \in Command : c.verb = "addon" =>
    \A x \in PlacesOf(c) : LET call == CallAt(c, x) IN
      /\ call.op \in Deletes => call.doc.kind # "Namespace"
      /\ call.op \in {"delete", "remove"} => call.doc \in Taken[c]
      /\ Replaces(c, x) =>
           /\ Strict(c, x)
           /\ x[3] < Len(Plan[c][x[1]].parts[x[2]])
           /\ LET following == Plan[c][x[1]].parts[x[2]][x[3] + 1] IN
              following.op \in {"put", "create"} /\ following.doc = call.doc
           /\ \A d \in Taken[c] : WrittenFirst(c, x, d)
=============================================================================
