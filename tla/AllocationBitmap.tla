-------------------------- MODULE AllocationBitmap --------------------------
(***************************************************************************)
(* The in-memory allocator (util/allocator) behind an address range        *)
(* (util/ipallocator): a bitmap and a counter guarded by one mutex.  Every *)
(* method locks, reads and writes the two fields one after the other, and  *)
(* unlocks when it returns; the range first checks that the address is in  *)
(* it.  Several goroutines call at once.                                   *)
(***************************************************************************)
EXTENDS Integers, FiniteSets

CONSTANTS
  Threads,      \* goroutines that share the range
  Size,         \* addresses of the CIDR, network and broadcast included
  Asked,        \* the offsets callers ask for, in the range or not
  Contiguous,   \* TRUE: contiguousScanStrategy, FALSE: randomScanStrategy
  NoThread      \* holder of a free mutex

ASSUME SizeAssumption == Size \in Nat
ASSUME AskedAssumption == Asked \subseteq Int
ASSUME ContiguousAssumption == Contiguous \in BOOLEAN
ASSUME NoThreadAssumption == NoThread \notin Threads

\* NewAllocatorCIDRRange: neither the network address nor the broadcast is usable.
maximum(a, b) == IF a > b THEN a ELSE b
Max == maximum(0, Size - 2)

VARIABLES
  lock,        \* the goroutine that holds r.lock
  allocated,   \* the bits that are set
  count,       \* r.count
  snapshot,    \* the data the last Snapshot returned
  pc,          \* per goroutine: "idle", "lock", "body", "rest", "unlock" or "return"
  method,      \* per goroutine: the method it is in
  offset,      \* per goroutine: the offset its call is about
  reply        \* per goroutine: what its call returns

vars == <<lock, allocated, count, snapshot, pc, method, offset, reply>>

OffsetMethods == {"Allocate", "Release", "Has"}
PoolMethods == {"AllocateNext", "ForEach", "Free", "Snapshot", "Restore"}

Init ==
  /\ lock = NoThread
  /\ allocated = {} /\ count = 0 /\ snapshot = {}
  /\ pc = [t \in Threads |-> "idle"]
  /\ method = [t \in Threads |-> "none"]
  /\ offset = [t \in Threads |-> 0]
  /\ reply = [t \in Threads |-> [answer |-> "none", value |-> {}]]

Goto(t, step) == pc' = [pc EXCEPT ![t] = step]

\* What the call returns is known; the deferred Unlock is left.
Answer(t, answer, value) ==
  reply' = [reply EXCEPT ![t] = [answer |-> answer, value |-> value]]
Return(t, answer, value) == Answer(t, answer, value) /\ Goto(t, "unlock")

\* The caller has the answer, the locals of the call are gone.
EndCall(t) ==
  /\ Goto(t, "idle") /\ Answer(t, "none", {})
  /\ method' = [method EXCEPT ![t] = "none"] /\ offset' = [offset EXCEPT ![t] = 0]

\* t, which holds the mutex, runs the first or second part of method m.
In(t, m, part) == method[t] = m /\ pc[t] = part /\ UNCHANGED <<lock, method>>

----------------------------------------------------------------------------
(***************************************************************************)
(* What some of the steps below would be with a bug one could well write.  *)
(***************************************************************************)
containsBroadcast(o) == 0 <= o /\ o <= Max
LockIgnored(t) ==
  /\ pc[t] = "lock"
  /\ lock' = t /\ Goto(t, "body")
  /\ UNCHANGED <<allocated, count, snapshot, method, offset, reply>>
ReleaseNotCounted(t) ==
  /\ In(t, "Release", "body")
  /\ allocated' = allocated \ {offset[t]} /\ Return(t, "released", {})
  /\ UNCHANGED <<count, snapshot, offset>>
AllocateKeepsLock(t) ==
  /\ In(t, "Allocate", "body")
  /\ \/ /\ offset[t] \in allocated
        /\ Answer(t, "inUse", {offset[t]}) /\ Goto(t, "idle") /\ UNCHANGED allocated
     \/ /\ offset[t] \notin allocated
        /\ allocated' = allocated \cup {offset[t]}
        /\ Answer(t, "allocated", {offset[t]}) /\ Goto(t, "rest")
  /\ UNCHANGED <<count, snapshot, offset>>

----------------------------------------------------------------------------
\* Range.contains, for an address of the CIDR, named by its offset from base (which fits
\* in an int: at most 64 host bits).
contains(o) == 0 <= o /\ o < Max

\* Range.Allocate, Release, Has: an address that is not in the range never reaches
\* the bitmap.
Call(t, m, o) ==
  /\ pc[t] = "idle"
  /\ \/ /\ contains(o)
        /\ Goto(t, "lock")
        /\ method' = [method EXCEPT ![t] = m] /\ offset' = [offset EXCEPT ![t] = o]
        /\ UNCHANGED reply
     \/ /\ ~contains(o)
        /\ Answer(t, CASE m = "Allocate" -> "notInRange"
                       [] m = "Release" -> "released"
                       [] m = "Has" -> "free", {})
        /\ Goto(t, "return")
        /\ UNCHANGED <<method, offset>>
  /\ UNCHANGED <<lock, allocated, count, snapshot>>

\* The other methods of the range go straight to the bitmap, except the Restore of the
\* snapshot of another network.
CallPool(t, m) ==
  /\ pc[t] = "idle"
  /\ \/ /\ Goto(t, "lock")
        /\ method' = [method EXCEPT ![t] = m] /\ UNCHANGED reply
     \/ /\ m = "Restore"
        /\ Answer(t, "mismatchedNetwork", {}) /\ Goto(t, "return") /\ UNCHANGED method
  /\ UNCHANGED <<lock, allocated, count, snapshot, offset>>

Lock(t) ==
  /\ pc[t] = "lock" /\ lock = NoThread
  /\ lock' = t /\ Goto(t, "body")
  /\ UNCHANGED <<allocated, count, snapshot, method, offset, reply>>

Unlock(t) ==
  /\ pc[t] = "unlock"
  /\ lock' = NoThread /\ EndCall(t)
  /\ UNCHANGED <<allocated, count, snapshot>>

\* A call that never reached the bitmap.
ReturnOutOfRange(t) ==
  /\ pc[t] = "return" /\ EndCall(t)
  /\ UNCHANGED <<lock, allocated, count, snapshot>>

\* Allocate: SetBit, then count++.
Allocate(t) ==
  /\ In(t, "Allocate", "body")
  /\ \/ /\ offset[t] \in allocated
        /\ Return(t, "inUse", {offset[t]}) /\ UNCHANGED allocated
     \/ /\ offset[t] \notin allocated
        /\ allocated' = allocated \cup {offset[t]}
        /\ Answer(t, "allocated", {offset[t]}) /\ Goto(t, "rest")
  /\ UNCHANGED <<count, snapshot, offset>>

AllocateCounts(t) ==
  /\ In(t, "Allocate", "rest")
  /\ count' = count + 1 /\ Goto(t, "unlock")
  /\ UNCHANGED <<allocated, snapshot, offset, reply>>

\* The strategies scan Max offsets from start on and wrap around; none when the
\* counter says the range is full.
AllocateBit(start) ==
  IF count >= Max THEN {}
  ELSE LET at(i) == (start + i) % Max
       IN  {at(i) : i \in {j \in 0..(Max - 1) : /\ at(j) \notin allocated
                                                /\ \A k \in 0..(j - 1) : at(k) \in allocated}}

\* AllocateNext: the strategy, count++, and then SetBit.
AllocateNext(t) ==
  /\ In(t, "AllocateNext", "body")
  /\ \E start \in IF Contiguous \/ Max = 0 THEN {0} ELSE 0..(Max - 1) :
       \/ /\ AllocateBit(start) = {}
          /\ Return(t, "full", {}) /\ UNCHANGED <<count, offset>>
       \/ \E next \in AllocateBit(start) :
            /\ count' = count + 1 /\ offset' = [offset EXCEPT ![t] = next]
            /\ Goto(t, "rest") /\ UNCHANGED reply
  /\ UNCHANGED <<allocated, snapshot>>

AllocateNextSets(t) ==
  /\ In(t, "AllocateNext", "rest")
  /\ allocated' = allocated \cup {offset[t]} /\ Return(t, "allocated", {offset[t]})
  /\ UNCHANGED <<count, snapshot, offset>>

\* Release: nothing when the bit is clear.
Release(t) ==
  /\ In(t, "Release", "body")
  /\ Answer(t, "released", {})
  /\ \/ offset[t] \notin allocated /\ Goto(t, "unlock") /\ UNCHANGED allocated
     \/ /\ offset[t] \in allocated
        /\ allocated' = allocated \ {offset[t]} /\ Goto(t, "rest")
  /\ UNCHANGED <<count, snapshot, offset>>

ReleaseCounts(t) ==
  /\ In(t, "Release", "rest")
  /\ count' = count - 1 /\ Goto(t, "unlock")
  /\ UNCHANGED <<allocated, snapshot, offset, reply>>

Has(t) ==
  /\ In(t, "Has", "body")
  /\ Return(t, IF offset[t] \in allocated THEN "taken" ELSE "free", {})
  /\ UNCHANGED <<allocated, count, snapshot, offset>>

ForEach(t) ==
  /\ In(t, "ForEach", "body") /\ Return(t, "all", allocated)
  /\ UNCHANGED <<allocated, count, snapshot, offset>>

Free(t) ==
  /\ In(t, "Free", "body") /\ Return(t, "left", {Max - count})
  /\ UNCHANGED <<allocated, count, snapshot, offset>>

Snapshot(t) ==
  /\ In(t, "Snapshot", "body")
  /\ snapshot' = allocated /\ Return(t, "saved", {})
  /\ UNCHANGED <<allocated, count, offset>>

\* Restore of a snapshot of the same range; the counter is counted anew.
Restore(t) ==
  /\ In(t, "Restore", "body")
  /\ allocated' = snapshot /\ Answer(t, "restored", {}) /\ Goto(t, "rest")
  /\ UNCHANGED <<count, snapshot, offset>>

RestoreCounts(t) ==
  /\ In(t, "Restore", "rest")
  /\ count' = Cardinality(allocated) /\ Goto(t, "unlock")
  /\ UNCHANGED <<allocated, snapshot, offset, reply>>

Run(t) ==
  \/ Allocate(t) \/ AllocateCounts(t) \/ AllocateNext(t) \/ AllocateNextSets(t)
  \/ Release(t) \/ ReleaseCounts(t) \/ Has(t) \/ ForEach(t) \/ Free(t)
  \/ Snapshot(t) \/ Restore(t) \/ RestoreCounts(t)

Next ==
  \E t \in Threads :
    \/ \E m \in OffsetMethods, o \in Asked : Call(t, m, o)
    \/ \E m \in PoolMethods : CallPool(t, m)
    \/ Lock(t) \/ Run(t) \/ Unlock(t) \/ ReturnOutOfRange(t)

\* A goroutine inside a call runs on; a mutex that keeps being released goes to every
\* goroutine that waits for it (sync.Mutex hands it over to a starving waiter).
Fairness ==
  \A t \in Threads :
    SF_vars(Lock(t)) /\ WF_vars(Run(t) \/ Unlock(t) \/ ReturnOutOfRange(t))

Spec == Init /\ [][Next]_vars /\ Fairness

----------------------------------------------------------------------------
\* The fields are well typed; no bit outside the usable addresses is ever set, whatever
\* address a caller asks for (Range.contains in front of the bitmap).
TypeOK ==
  /\ lock \in Threads \cup {NoThread}
  /\ allocated \in SUBSET (0..(Max - 1)) /\ snapshot \in SUBSET (0..(Max - 1))
  /\ count \in Int
  /\ pc \in [Threads -> {"idle", "lock", "body", "rest", "unlock", "return"}]
  /\ method \in [Threads -> OffsetMethods \cup PoolMethods \cup {"none"}]
  /\ offset \in [Threads -> Int]

\* "r.count is always equal to the number of set bits": whenever the mutex is free.
CountIsSetBits == lock = NoThread => count = Cardinality(allocated)

\* The range keeps the promises of an address pool: calls take effect one at a time, no
\* address is handed out twice, and AllocateNext says full only when none is left.
Pool == INSTANCE AddressPool WITH taken <- allocated, saved <- snapshot
PoolPromises == Pool!Spec

\* Every call returns: no path leaves the mutex locked.
CallsReturn == \A t \in Threads : pc[t] # "idle" ~> pc[t] = "idle"
=============================================================================
