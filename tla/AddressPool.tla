---------------------------- MODULE AddressPool ----------------------------
(***************************************************************************)
(* What a pool of addresses promises its callers: every call takes effect  *)
(* at one instant, an address is handed out only while it is free, and     *)
(* "full" is the answer only when no address is left.                      *)
(***************************************************************************)
EXTENDS Integers, FiniteSets

CONSTANTS
  Threads,    \* callers
  Max         \* number of addresses, named by their offset

VARIABLES
  taken,      \* the offsets handed out
  saved,      \* the last snapshot
  reply       \* per caller: the answer of its call, with the numbers it gives

poolVars == <<taken, saved, reply>>

Offsets == 0..(Max - 1)

Reply(t, answer, value) ==
  reply' = [reply EXCEPT ![t] = [answer |-> answer, value |-> value]]

Init ==
  /\ taken = {} /\ saved = {}
  /\ reply = [t \in Threads |-> [answer |-> "none", value |-> {}]]

\* The caller has its answer, the call is over.
Collect(t) == Reply(t, "none", {}) /\ UNCHANGED <<taken, saved>>

\* An address outside the range is refused, has nothing to release and is not taken; the
\* snapshot of another range is not loaded.
Refuse(t) ==
  /\ \E answer \in {"notInRange", "released", "free", "mismatchedNetwork"} :
       Reply(t, answer, {})
  /\ UNCHANGED <<taken, saved>>

Take(t, o) ==
  /\ \/ o \notin taken /\ taken' = taken \cup {o} /\ Reply(t, "allocated", {o})
     \/ o \in taken /\ Reply(t, "inUse", {o}) /\ UNCHANGED taken
  /\ UNCHANGED saved

TakeAny(t) ==
  /\ \/ \E o \in Offsets \ taken : taken' = taken \cup {o} /\ Reply(t, "allocated", {o})
     \/ taken = Offsets /\ Reply(t, "full", {}) /\ UNCHANGED taken
  /\ UNCHANGED saved

Give(t, o) == taken' = taken \ {o} /\ Reply(t, "released", {}) /\ UNCHANGED saved

Ask(t, o) ==
  Reply(t, IF o \in taken THEN "taken" ELSE "free", {}) /\ UNCHANGED <<taken, saved>>

AskAll(t) == Reply(t, "all", taken) /\ UNCHANGED <<taken, saved>>

CountFree(t) ==
  Reply(t, "left", {Cardinality(Offsets \ taken)}) /\ UNCHANGED <<taken, saved>>

Save(t) == saved' = taken /\ Reply(t, "saved", {}) /\ UNCHANGED taken
Load(t) == taken' = saved /\ Reply(t, "restored", {}) /\ UNCHANGED saved

Next ==
  \E t \in Threads :
    \/ \E o \in Offsets : Take(t, o) \/ Give(t, o) \/ Ask(t, o)
    \/ Collect(t) \/ Refuse(t) \/ TakeAny(t) \/ AskAll(t) \/ CountFree(t) \/ Save(t) \/ Load(t)

Spec == Init /\ [][Next]_poolVars
=============================================================================
