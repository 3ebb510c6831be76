------------------------------- MODULE KubeAPI -------------------------------
(***************************************************************************)
(* The Kubernetes API server as edgeadm sees it through client-go: a store *)
(* of objects, and clients that run one call after the other.  A client    *)
(* works on the copy its last Get returned; an Update of an object that    *)
(* somebody wrote since that Get is refused (optimistic concurrency on     *)
(* resourceVersion).  A client that gets an error returns it at once: every*)
(* call below is followed by "if err != nil { return err }" in the source. *)
(*                                                                         *)
(* The server is not part of the repository; this module says what the     *)
(* code relies on.                                                         *)
(***************************************************************************)
CONSTANT Clients        \* the edgeadm processes that run against the cluster

VARIABLES
  api,      \* content of each object of the cluster, Absent when there is none
  copy,     \* per client: the object its last Get returned
  pc,       \* per client: the next API call, Idle between two commands
  run       \* per client: the command it runs (or ran last), and its outcome

apiVars == <<api, copy, pc, run>>

Absent == "absent"
Idle == "idle"

NoCopy == [object |-> "none", content |-> Absent, current |-> FALSE]
NoRun == [command |-> "none", outcome |-> "none"]

\* The copies once object o is written: those of o have an old resourceVersion.
Touched(o) ==
  [d \in Clients |-> [object |-> copy[d].object, content |-> copy[d].content,
                      current |-> copy[d].current /\ copy[d].object # o]]

Outcome(c, outcome) == [command |-> run[c].command, outcome |-> outcome]

\* The command of c ends with an outcome, its local copy is gone.
Return(c, outcome) ==
  /\ pc' = [pc EXCEPT ![c] = Idle]
  /\ run' = [run EXCEPT ![c] = Outcome(c, outcome)]
  /\ copy' = [copy EXCEPT ![c] = NoCopy]
  /\ UNCHANGED api

Fail(c) == Return(c, "error")

\* The call succeeded: go on with next; after the last call the command is done.
Continue(c, next) ==
  /\ pc' = [pc EXCEPT ![c] = next]
  /\ run' = IF next = Idle THEN [run EXCEPT ![c] = Outcome(c, "ok")] ELSE run

Begin(c, command, first) ==
  /\ pc[c] = Idle
  /\ pc' = [pc EXCEPT ![c] = first]
  /\ run' = [run EXCEPT ![c] = [command |-> command, outcome |-> "running"]]
  /\ copy' = [copy EXCEPT ![c] = NoCopy]
  /\ UNCHANGED api

\* Object o gets content v, whoever writes it.
Write(o, v) ==
  /\ api' = [api EXCEPT ![o] = v]
  /\ copy' = Touched(o)

----------------------------------------------------------------------------
(***************************************************************************)
(* The verbs.  Each one is a call of client c that leads to the call next, *)
(* or fails.                                                               *)
(***************************************************************************)

\* Get that accepts a missing object (the caller branches on the error).
Read(c, o, next) ==
  /\ copy' = [copy EXCEPT ![c] = [object |-> o, content |-> api[o], current |-> TRUE]]
  /\ Continue(c, next)
  /\ UNCHANGED api

\* Get: NotFound is an error.
Get(c, o, next) ==
  \/ api[o] # Absent /\ Read(c, o, next)
  \/ api[o] = Absent /\ Fail(c)

\* Create: AlreadyExists is an error.
Create(c, o, v, next) ==
  \/ api[o] = Absent /\ Write(o, v) /\ Continue(c, next)
  \/ api[o] # Absent /\ Fail(c)

\* Update of the object c read last: Conflict when it was written since.
Update(c, v, next) ==
  LET o == copy[c].object IN
  \/ copy[c].current /\ Write(o, v) /\ Continue(c, next)
  \/ ~copy[c].current /\ Fail(c)

\* Patch: needs the object (and, for a JSON patch, the field) it changes.
Patch(c, o, possible, v, next) ==
  \/ possible /\ Write(o, v) /\ Continue(c, next)
  \/ ~possible /\ Fail(c)

\* Delete: NotFound is an error.
Delete(c, o, next) ==
  \/ api[o] # Absent /\ Write(o, Absent) /\ Continue(c, next)
  \/ api[o] = Absent /\ Fail(c)

\* Delete whose error is thrown away.
DeleteIfAny(c, o, next) ==
  Write(o, Absent) /\ Continue(c, next)
=============================================================================
