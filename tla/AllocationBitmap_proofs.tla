----------------------- MODULE AllocationBitmap_proofs -----------------------
(***************************************************************************)
(* Theorems about AllocationBitmap, for every range, every set of threads, *)
(* every set of requests and both strategies.                              *)
(***************************************************************************)
EXTENDS AllocationBitmap, FiniteSetTheorems, WellFoundedInduction, TLAPS

Usable == 0..(Max - 1)

LEMMA MaxIsNat == Max \in Nat
BY SizeAssumption DEF Max, maximum

\* A set of offsets of the range is finite and can be counted.
LEMMA UsableFinite == IsFiniteSet(Usable) /\ Cardinality(Usable) = Max
<1>1. Max - 1 \in Int /\ (0 > Max - 1 => Max = 0)
  BY MaxIsNat
<1>2. IsFiniteSet(Usable)
  BY <1>1, FS_Interval DEF Usable
<1>3. Cardinality(Usable) = IF 0 > Max - 1 THEN 0 ELSE (Max - 1) - 0 + 1
  BY <1>1, FS_Interval DEF Usable
<1> QED
  BY <1>1, <1>2, <1>3, MaxIsNat

LEMMA Counting ==
  ASSUME NEW S \in SUBSET Usable
  PROVE  /\ IsFiniteSet(S) /\ Cardinality(S) \in Nat /\ Cardinality(S) <= Max
         /\ Cardinality(S) = Max => S = Usable
         /\ \A o : Cardinality(S \cup {o}) = IF o \in S THEN Cardinality(S) ELSE Cardinality(S) + 1
         /\ \A o : Cardinality(S \ {o}) = IF o \in S THEN Cardinality(S) - 1 ELSE Cardinality(S)
<1>1. IsFiniteSet(S) /\ Cardinality(S) <= Max /\ (Cardinality(S) = Max => S = Usable)
  BY UsableFinite, FS_Subset
<1>2. Cardinality(S) \in Nat
  BY <1>1, FS_CardinalityType
<1> QED
  BY <1>1, <1>2, FS_AddElement, FS_RemoveElement

(***************************************************************************)
(* The inductive invariant: who holds the mutex, what an offset may be, and*)
(* how far the counter is off in the middle of a method.                   *)
(***************************************************************************)
LockInv == \A t \in Threads : pc[t] \in {"body", "rest", "unlock"} <=> lock = t

MethodInv ==
  \A t \in Threads :
    /\ pc[t] \in {"lock", "body"} => method[t] \in OffsetMethods \cup PoolMethods
    /\ pc[t] = "rest" => method[t] \in {"Allocate", "AllocateNext", "Release", "Restore"}
    /\ method[t] \in OffsetMethods => offset[t] \in Usable
    /\ pc[t] = "rest" /\ method[t] = "AllocateNext" => offset[t] \in Usable \ allocated

CountInv ==
  /\ (\A t \in Threads : pc[t] # "rest") => count = Cardinality(allocated)
  /\ \A t \in Threads : pc[t] = "rest" =>
       /\ method[t] = "Allocate" => count = Cardinality(allocated) - 1
       /\ method[t] \in {"AllocateNext", "Release"} => count = Cardinality(allocated) + 1

Inv == TypeOK /\ LockInv /\ MethodInv /\ CountInv

LEMMA InitInv == Init => Inv
BY NoThreadAssumption, FS_EmptySet DEF Init, Inv, TypeOK, LockInv, MethodInv, CountInv,
   OffsetMethods, PoolMethods

LEMMA CallInv ==
  ASSUME Inv, NEW t \in Threads,
         \/ \E m \in OffsetMethods, o \in Asked : Call(t, m, o)
         \/ \E m \in PoolMethods : CallPool(t, m)
  PROVE  Inv'
<1> USE DEF Inv, TypeOK, LockInv, MethodInv, CountInv
<1>1. ASSUME NEW m \in OffsetMethods, NEW o \in Asked, Call(t, m, o) PROVE Inv'
  BY <1>1, AskedAssumption, MaxIsNat DEF Call, contains, Goto, Answer, OffsetMethods, Usable
<1>2. ASSUME NEW m \in PoolMethods, CallPool(t, m) PROVE Inv'
  BY <1>2 DEF CallPool, Goto, Answer, PoolMethods, OffsetMethods
<1> QED
  BY <1>1, <1>2

LEMMA LockingInv ==
  ASSUME Inv, NEW t \in Threads, Lock(t) \/ Unlock(t) \/ ReturnOutOfRange(t)
  PROVE  Inv'
<1> USE DEF Inv, TypeOK, LockInv, MethodInv, CountInv
<1>1. CASE Lock(t)
  BY <1>1, NoThreadAssumption DEF Lock, Goto
<1>2. CASE Unlock(t)
  BY <1>2, NoThreadAssumption DEF Unlock, EndCall, Goto, Answer, OffsetMethods
<1>3. CASE ReturnOutOfRange(t)
  BY <1>3 DEF ReturnOutOfRange, EndCall, Goto, Answer, OffsetMethods
<1> QED
  BY <1>1, <1>2, <1>3

(***************************************************************************)
(* The scan of both strategies: from start on, wrapping around, it finds a *)
(* free offset unless every one is taken.                                  *)
(***************************************************************************)
LEMMA ScanCovers ==
  ASSUME NEW start \in Usable, NEW o \in Usable
  PROVE  \E j \in Usable : (start + j) % Max = o
<1>1. Max \in Nat /\ Max > 0 /\ start \in 0..(Max - 1) /\ o \in 0..(Max - 1)
  BY MaxIsNat DEF Usable
<1>2. CASE o >= start
  <2>1. o - start \in Usable /\ start + (o - start) = o /\ o % Max = o
    BY <1>1, <1>2 DEF Usable
  <2> QED
    BY <2>1
<1>3. CASE o < start
  <2>1. o - start + Max \in Usable /\ start + (o - start + Max) = o + Max
    BY <1>1, <1>3 DEF Usable
  <2>2. (o + Max) % Max = o
    BY <1>1
  <2> QED
    BY <2>1, <2>2
<1> QED
  BY <1>1, <1>2, <1>3

LEMMA LeastOf ==
  ASSUME NEW S \in SUBSET Nat, S # {}
  PROVE  \E j \in S : \A k \in S : ~(k < j)
<1>1. S \subseteq Nat
  OBVIOUS
<1>2. \E j \in S : \A k \in S : <<k, j>> \notin OpToRel(<, Nat)
  BY <1>1, NatLessThanWellFounded, WFMin, Zenon
<1>3. \A j, k \in Nat : k < j => <<k, j>> \in OpToRel(<, Nat)
  BY Zenon DEF OpToRel
<1> QED
  BY <1>1, <1>2, <1>3, Zenon

LEMMA AllocateBitFinds ==
  ASSUME NEW start \in Usable, allocated \in SUBSET Usable, count < Max, count \in Int,
         allocated # Usable
  PROVE  AllocateBit(start) # {}
<1> DEFINE at(j) == (start + j) % Max
           Free_ == {j \in Usable : at(j) \notin allocated}
<1>1. Free_ # {}
  BY ScanCovers
<1>2. Free_ \in SUBSET Nat
  BY MaxIsNat DEF Usable
<1>3. PICK j \in Free_ : \A k \in Free_ : ~(k < j)
  BY <1>1, <1>2, LeastOf
<1>4. ASSUME NEW k \in 0..(j - 1) PROVE at(k) \in allocated
  <2>1. j \in Usable
    BY <1>3
  <2>2. k \in Usable /\ k < j
    BY <2>1, MaxIsNat DEF Usable
  <2>3. k \notin Free_
    BY <1>3, <2>2
  <2> QED
    BY <2>2, <2>3
<1>5. at(j) \in AllocateBit(start)
  <2>1. j \in 0..(Max - 1) /\ at(j) \notin allocated
    BY <1>3 DEF Usable
  <2>2. ~(count >= Max)
    BY MaxIsNat
  <2> QED
    BY <1>4, <2>1, <2>2 DEF AllocateBit
<1> QED
  BY <1>5

LEMMA AllocateBitIsFree ==
  ASSUME NEW start \in Nat, NEW next \in AllocateBit(start)
  PROVE  next \in Usable \ allocated
<1>1. PICK j \in 0..(Max - 1) : next = (start + j) % Max /\ next \notin allocated
  BY DEF AllocateBit
<1>2. Max \in Nat /\ Max > 0
  BY <1>1, MaxIsNat
<1>3. (start + j) % Max \in 0..(Max - 1)
  BY <1>2
<1> QED
  BY <1>1, <1>3 DEF Usable

(***************************************************************************)
(* Every step of a method preserves the invariant.                         *)
(***************************************************************************)
LEMMA RunInv ==
  ASSUME Inv, NEW t \in Threads, Run(t)
  PROVE  Inv'
<1>1. /\ allocated \in SUBSET Usable /\ snapshot \in SUBSET Usable
      /\ Cardinality(allocated) \in Int /\ Cardinality(snapshot) \in Int
      /\ \A o : Cardinality(allocated \cup {o}) =
                IF o \in allocated THEN Cardinality(allocated) ELSE Cardinality(allocated) + 1
      /\ \A o : Cardinality(allocated \ {o}) =
                IF o \in allocated THEN Cardinality(allocated) - 1 ELSE Cardinality(allocated)
  <2>1. allocated \in SUBSET Usable /\ snapshot \in SUBSET Usable
    BY DEF Inv, TypeOK, Usable
  <2> QED
    BY <2>1, Counting
<1> USE DEF Inv, TypeOK, LockInv, MethodInv, CountInv, In, Goto, Answer, Return,
            OffsetMethods, PoolMethods
<1>2. CASE Allocate(t)
  <2>1. offset[t] \in Usable /\ offset[t] \in Int
    BY <1>2 DEF Allocate
  <2>2. CASE offset[t] \in allocated
    <3>1. In(t, "Allocate", "body") /\ Return(t, "inUse", {offset[t]})
          /\ UNCHANGED <<allocated, count, snapshot, offset>>
      BY <1>2, <2>2 DEF Allocate
    <3> QED
      BY <3>1
  <2>3. CASE offset[t] \notin allocated
    <3>1. In(t, "Allocate", "body") /\ Goto(t, "rest")
          /\ allocated' = allocated \cup {offset[t]} /\ UNCHANGED <<count, snapshot, offset>>
      BY <1>2, <2>3 DEF Allocate
    <3>2. Cardinality(allocated') = Cardinality(allocated) + 1 /\ allocated' \in SUBSET Usable
      BY <1>1, <2>1, <2>3, <3>1
    <3>3. count = Cardinality(allocated)
      BY <3>1
    <3>4. TypeOK' /\ LockInv'
      BY <2>1, <3>1, <3>2 DEF Usable
    <3>5. MethodInv'
      BY <2>1, <3>1, <3>2
    <3>6. CountInv'
      BY <1>1, <3>1, <3>2, <3>3
    <3> QED
      BY <3>4, <3>5, <3>6
  <2> QED
    BY <2>2, <2>3
<1>3. CASE AllocateCounts(t)
  BY <1>1, <1>3 DEF AllocateCounts
<1>4. CASE AllocateNext(t)
  <2>1. PICK start \in Nat :
          \/ Return(t, "full", {}) /\ UNCHANGED <<count, offset>>
          \/ \E next \in AllocateBit(start) :
               /\ count' = count + 1 /\ offset' = [offset EXCEPT ![t] = next]
               /\ Goto(t, "rest") /\ UNCHANGED reply
    BY <1>4, MaxIsNat DEF AllocateNext
  <2>2. In(t, "AllocateNext", "body") /\ UNCHANGED <<allocated, snapshot>>
    BY <1>4 DEF AllocateNext
  <2>3. CASE Return(t, "full", {}) /\ UNCHANGED <<count, offset>>
    BY <1>1, <2>2, <2>3
  <2>4. ASSUME NEW next \in AllocateBit(start),
               count' = count + 1, offset' = [offset EXCEPT ![t] = next], Goto(t, "rest")
        PROVE  Inv'
    <3>1. next \in Usable \ allocated /\ next \in Int
      BY AllocateBitIsFree, MaxIsNat DEF Usable
    <3> QED
      BY <1>1, <2>2, <2>4, <3>1
  <2> QED
    BY <2>1, <2>3, <2>4
<1>5. CASE AllocateNextSets(t)
  BY <1>1, <1>5 DEF AllocateNextSets, Usable
<1>6. CASE Release(t)
  <2>1. In(t, "Release", "body") /\ UNCHANGED <<count, snapshot, offset>>
    BY <1>6 DEF Release
  <2>2. CASE offset[t] \notin allocated
    <3>1. Goto(t, "unlock") /\ UNCHANGED allocated
      BY <1>6, <2>2 DEF Release
    <3> QED
      BY <2>1, <3>1
  <2>3. CASE offset[t] \in allocated
    <3>1. Goto(t, "rest") /\ allocated' = allocated \ {offset[t]}
      BY <1>6, <2>3 DEF Release
    <3>2. Cardinality(allocated') = Cardinality(allocated) - 1 /\ allocated' \in SUBSET Usable
      BY <1>1, <2>3, <3>1
    <3>3. count = Cardinality(allocated)
      BY <2>1
    <3>4. TypeOK' /\ LockInv'
      BY <2>1, <3>1, <3>2 DEF Usable
    <3>5. MethodInv'
      BY <2>1, <3>1, <3>2
    <3>6. CountInv'
      BY <1>1, <2>1, <3>1, <3>2, <3>3
    <3> QED
      BY <3>4, <3>5, <3>6
  <2> QED
    BY <2>2, <2>3
<1>7. CASE ReleaseCounts(t)
  BY <1>1, <1>7 DEF ReleaseCounts
<1>8. CASE Has(t)
  BY <1>8 DEF Has
<1>9. CASE ForEach(t)
  BY <1>9 DEF ForEach
<1>10. CASE Free(t)
  BY <1>10 DEF Free
<1>11. CASE Snapshot(t)
  BY <1>11 DEF Snapshot
<1>12. CASE Restore(t)
  BY <1>12 DEF Restore
<1>13. CASE RestoreCounts(t)
  BY <1>1, <1>13 DEF RestoreCounts
<1> QED
  BY <1>2, <1>3, <1>4, <1>5, <1>6, <1>7, <1>8, <1>9, <1>10, <1>11, <1>12, <1>13 DEF Run

LEMMA NextInv == Inv /\ [Next]_vars => Inv'
<1> SUFFICES ASSUME Inv, [Next]_vars PROVE Inv'
  OBVIOUS
<1>1. CASE Next
  BY <1>1, CallInv, LockingInv, RunInv DEF Next
<1>2. CASE UNCHANGED vars
  BY <1>2 DEF vars, Inv, TypeOK, LockInv, MethodInv, CountInv
<1> QED
  BY <1>1, <1>2

LEMMA AlwaysInv == Spec => []Inv
BY InitInv, NextInv, PTL DEF Spec

\* The fields of the allocator keep their ranges: no bit outside the usable addresses of
\* the range is ever set, whatever the callers ask for.
THEOREM TypeCorrect == Spec => []TypeOK
<1>1. Inv => TypeOK
  BY DEF Inv
<1> QED
  BY AlwaysInv, <1>1, PTL

\* The counter is the number of set bits whenever the mutex is free, although every method
\* changes the two one after the other.
THEOREM CountAlwaysSetBits == Spec => []CountIsSetBits
<1>1. Inv => CountIsSetBits
  BY NoThreadAssumption DEF Inv, LockInv, CountInv, CountIsSetBits
<1> QED
  BY AlwaysInv, <1>1, PTL

(***************************************************************************)
(* Every step of the detailed allocator is a step of the abstract pool or  *)
(* leaves what the pool shows unchanged: a method takes effect at the step *)
(* that sets its answer.                                                   *)
(***************************************************************************)
LEMMA InitRefines == Init => Pool!Init
BY DEF Init, Pool!Init

LEMMA CallRefines ==
  ASSUME NEW t \in Threads,
         \/ \E m \in OffsetMethods, o \in Asked : Call(t, m, o)
         \/ \E m \in PoolMethods : CallPool(t, m)
         \/ Lock(t) \/ Unlock(t) \/ ReturnOutOfRange(t)
  PROVE  [Pool!Next]_Pool!poolVars
<1> USE DEF Goto, Answer, EndCall, Pool!poolVars, Pool!Reply
<1>1. ASSUME NEW m \in OffsetMethods, NEW o \in Asked, Call(t, m, o)
      PROVE  Pool!Refuse(t) \/ UNCHANGED Pool!poolVars
  BY <1>1 DEF Call, Pool!Refuse, OffsetMethods
<1>2. ASSUME NEW m \in PoolMethods, CallPool(t, m)
      PROVE  Pool!Refuse(t) \/ UNCHANGED Pool!poolVars
  BY <1>2 DEF CallPool, Pool!Refuse
<1>3. CASE Lock(t)
  BY <1>3 DEF Lock
<1>4. ASSUME Unlock(t) \/ ReturnOutOfRange(t) PROVE Pool!Collect(t)
  BY <1>4 DEF Unlock, ReturnOutOfRange, Pool!Collect
<1> QED
  BY <1>1, <1>2, <1>3, <1>4 DEF Pool!Next

\* What the counter tells the method that holds the mutex.
LEMMA CountInBody ==
  ASSUME Inv, NEW t \in Threads, pc[t] = "body"
  PROVE  count = Cardinality(allocated) /\ allocated \in SUBSET Usable
BY DEF Inv, TypeOK, LockInv, CountInv, Usable

\* AllocateNext answers "full" only when every address is taken.
LEMMA FullIsFull ==
  ASSUME Inv, NEW t \in Threads, pc[t] = "body",
         NEW start \in IF Contiguous \/ Max = 0 THEN {0} ELSE 0..(Max - 1),
         AllocateBit(start) = {}
  PROVE  allocated = Usable
<1>1. count = Cardinality(allocated) /\ allocated \in SUBSET Usable
  BY CountInBody
<1>2. /\ count \in Int /\ count <= Max /\ (count = Max => allocated = Usable)
  BY <1>1, Counting
<1>3. CASE Max = 0
  BY <1>1, <1>3 DEF Usable
<1>4. CASE Max # 0
  <2>1. start \in Usable
    BY <1>4, MaxIsNat DEF Usable
  <2> QED
    BY <1>1, <1>2, <2>1, AllocateBitFinds, MaxIsNat
<1> QED
  BY <1>3, <1>4

LEMMA RunRefines ==
  ASSUME Inv, NEW t \in Threads, Run(t)
  PROVE  [Pool!Next]_Pool!poolVars
<1>1. pc[t] = "body" => /\ count = Cardinality(allocated)
                        /\ allocated \in SUBSET Usable
  BY CountInBody
<1>2. method[t] \in OffsetMethods => offset[t] \in Pool!Offsets
  BY DEF Inv, MethodInv, Usable, Pool!Offsets
<1> USE DEF In, Goto, Answer, Return, Pool!poolVars, Pool!Reply
<1>3. ASSUME Allocate(t) PROVE Pool!Take(t, offset[t]) /\ offset[t] \in Pool!Offsets
  BY <1>2, <1>3 DEF Allocate, OffsetMethods, Pool!Take
<1>4. ASSUME AllocateCounts(t) \/ ReleaseCounts(t) \/ RestoreCounts(t)
      PROVE  UNCHANGED Pool!poolVars
  BY <1>4 DEF AllocateCounts, ReleaseCounts, RestoreCounts
<1>5. ASSUME AllocateNext(t) PROVE Pool!TakeAny(t) \/ UNCHANGED Pool!poolVars
  <2>1. PICK start \in IF Contiguous \/ Max = 0 THEN {0} ELSE 0..(Max - 1) :
          \/ AllocateBit(start) = {} /\ Return(t, "full", {})
          \/ UNCHANGED reply
    BY <1>5 DEF AllocateNext
  <2>2. pc[t] = "body" /\ UNCHANGED <<allocated, snapshot>>
    BY <1>5 DEF AllocateNext
  <2>3. CASE AllocateBit(start) = {} /\ Return(t, "full", {})
    <3>1. allocated = Pool!Offsets
      BY <2>2, <2>3, FullIsFull DEF Usable, Pool!Offsets
    <3> QED
      BY <2>2, <2>3, <3>1 DEF Pool!TakeAny
  <2> QED
    BY <2>1, <2>2, <2>3
<1>6. ASSUME AllocateNextSets(t) PROVE Pool!TakeAny(t)
  <2>1. offset[t] \in Pool!Offsets \ allocated
    BY <1>6 DEF AllocateNextSets, Inv, MethodInv, Usable, Pool!Offsets
  <2> QED
    BY <1>6, <2>1 DEF AllocateNextSets, Pool!TakeAny
<1>7. ASSUME Release(t) PROVE Pool!Give(t, offset[t]) /\ offset[t] \in Pool!Offsets
  BY <1>2, <1>7 DEF Release, OffsetMethods, Pool!Give
<1>8. ASSUME Has(t) PROVE Pool!Ask(t, offset[t]) /\ offset[t] \in Pool!Offsets
  BY <1>2, <1>8 DEF Has, OffsetMethods, Pool!Ask
<1>9. ASSUME ForEach(t) PROVE Pool!AskAll(t)
  BY <1>9 DEF ForEach, Pool!AskAll
<1>10. ASSUME Free(t) PROVE Pool!CountFree(t)
  <2>1. count = Cardinality(allocated) /\ allocated \in SUBSET Usable
    BY <1>1, <1>10 DEF Free
  <2>2. Cardinality(Usable \ allocated) = Cardinality(Usable) - Cardinality(Usable \cap allocated)
    BY UsableFinite, FS_Difference
  <2>3. Usable \cap allocated = allocated
    BY <2>1
  <2>4. Cardinality(Pool!Offsets \ allocated) = Max - count
    BY <2>1, <2>2, <2>3, UsableFinite DEF Usable, Pool!Offsets
  <2>5. Answer(t, "left", {Max - count}) /\ UNCHANGED <<allocated, snapshot>>
    BY <1>10 DEF Free
  <2>6. \A S : Pool!Cardinality(S) = Cardinality(S)
    BY Zenon DEF Cardinality, Pool!Cardinality
  <2>7. Answer(t, "left", {Pool!Cardinality(Pool!Offsets \ allocated)})
    BY <2>4, <2>5, <2>6, Zenon
  <2> QED
    BY <2>5, <2>7, Zenon DEF Pool!CountFree
<1>11. ASSUME Snapshot(t) PROVE Pool!Save(t)
  BY <1>11 DEF Snapshot, Pool!Save
<1>12. ASSUME Restore(t) PROVE Pool!Load(t)
  BY <1>12 DEF Restore, Pool!Load
<1> QED
  BY <1>3, <1>4, <1>5, <1>6, <1>7, <1>8, <1>9, <1>10, <1>11, <1>12 DEF Run, Pool!Next

LEMMA NextRefines == Inv /\ [Next]_vars => [Pool!Next]_Pool!poolVars
<1> SUFFICES ASSUME Inv, [Next]_vars PROVE [Pool!Next]_Pool!poolVars
  OBVIOUS
<1>1. CASE Next
  BY <1>1, CallRefines, RunRefines DEF Next
<1>2. CASE UNCHANGED vars
  BY <1>2 DEF vars, Pool!poolVars
<1> QED
  BY <1>1, <1>2

\* The allocator implements the address pool: its methods take effect one at a time, no
\* address is handed out twice, and AllocateNext says full only when none is left.
THEOREM PoolAlwaysPromises == Spec => PoolPromises
BY InitRefines, AlwaysInv, NextRefines, PTL DEF Spec, PoolPromises, Pool!Spec
=============================================================================
