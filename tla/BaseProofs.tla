----------------------------- MODULE BaseProofs -----------------------------
(***************************************************************************)
(* Proofs about the components at the bottom of the kernel, which every    *)
(* other one uses and which use none: the soft lock, for every interrupt   *)
(* depth and every set of operations; the heap, for every size of memory,  *)
(* every set of requests and whatever users write into it; the spin locks  *)
(* and interrupt masks, for all tasks, interrupts and locks, however they  *)
(* are used, except that the progress of a spinning context assumes what   *)
(* the code leaves to its users (Discipline).                              *)
(*                                                                         *)
(* The inductive invariants are stated in SoftLock (IInv), Heap (HeapInv)  *)
(* and SpinLock (SpinInv, DisciplineInv), where TLC can check them.        *)
(***************************************************************************)
EXTENDS SoftLock, Heap, SpinLock, FiniteSetTheorems, TLAPS

-----------------------------------------------------------------------------
(***************************************************************************)
(* The soft lock: each part of IInv has a lemma of its own.                *)
(***************************************************************************)
\* The initial state satisfies the inductive invariant.
LEMMA InitIInv == Init => IInv
<1> SUFFICES ASSUME Init PROVE IInv
  OBVIOUS
<1>1. TypeOK
  BY OpAssumption DEF Init, TypeOK, Step
<1>2. LockInv /\ PendInv
  BY DEF Init, LockInv, PendInv, Holds, Pends, Releasing, NeverHangs
<1>3. OnceInv
  BY DEF Init, OnceInv, ExactlyOnce, Waiting
<1> QED
  BY <1>1, <1>2, <1>3 DEF IInv

\* Every step keeps the variables well typed.
LEMMA NextTypeOK == TypeOK /\ [Next]_vars => TypeOK'
<1> SUFFICES ASSUME TypeOK, [Next]_vars PROVE TypeOK'
  OBVIOUS
<1> USE DEF TypeOK, Step, Goto, Apply, At
<1>1. ASSUME NEW l \in Level, NEW o \in Op, with_access(l, o) PROVE TypeOK'
  BY <1>1 DEF with_access, guard
<1>2. ASSUME NEW o \in Op, must_with_full_access(o) PROVE TypeOK'
  BY <1>2, LevelAssumption DEF must_with_full_access, guard, Level
<1>3. ASSUME NEW l \in Level, Advance(l) PROVE TypeOK'
  <2>1. CASE full_access(l)
    BY <2>1 DEF full_access
  <2>2. CASE pend_only_access(l)
    BY <2>2 DEF pend_only_access
  <2>3. CASE drop_pend_only(l) \/ drop_swap_pending(l)
    BY <2>3 DEF drop_pend_only, drop_swap_pending
  <2>4. CASE run_pended_op(l)
    BY <2>4 DEF run_pended_op
  <2>5. CASE drop_unlock(l) \/ drop_check_pending(l) \/ drop_relock(l)
    BY <2>5 DEF drop_unlock, drop_check_pending, drop_relock
  <2> QED
    BY <1>3, <2>1, <2>2, <2>3, <2>4, <2>5 DEF Advance
<1>4. CASE UNCHANGED vars
  BY <1>4 DEF vars
<1> QED
  BY <1>1, <1>2, <1>3, <1>4 DEF Next

\* Type correctness for every depth and every set of operations.
THEOREM TypeCorrect == Spec => []TypeOK
<1>1. Init => TypeOK
  BY InitIInv DEF IInv
<1> QED
  BY <1>1, NextTypeOK, PTL DEF Spec

(***************************************************************************)
(* Who holds the lock.  The facts about nesting are used in this form: a   *)
(* running level has only idle levels above it, and a holder or a pender   *)
(* is not idle.                                                            *)
(***************************************************************************)
LEMMA NextLockInv == TypeOK /\ LockInv /\ [Next]_vars => LockInv'
<1> SUFFICES ASSUME TypeOK, LockInv, [Next]_vars PROVE LockInv'
  OBVIOUS
<1> USE LevelAssumption DEF Level
<1>0. \A k, l \in Level : k < l \/ k = l \/ l < k
  OBVIOUS
<1>1. ASSUME NEW l \in Level, NEW o \in Op, with_access(l, o) PROVE LockInv'
  <2>1. /\ pc' = [pc EXCEPT ![l] = "access"]
        /\ lock_held' = [lock_held EXCEPT ![l] = ~locked]
        /\ locked' = TRUE
        /\ \A k \in Level : k >= l => pc[k] = "idle"
    BY <1>1 DEF with_access, guard, Goto, CanStart
  <2>2. CASE locked
    <3>1. PICK h \in Level : Holds(h)
      BY <2>2 DEF LockInv
    <3>2. h < l
      BY <2>1, <3>1, <1>0 DEF Holds
    <3>3. lock_held' = [lock_held EXCEPT ![l] = FALSE]
      BY <2>1, <2>2
    <3> QED
      BY <2>1, <2>2, <3>1, <3>2, <3>3
         DEF LockInv, Holds, Pends, Releasing, NeverHangs, TypeOK
  <2>3. CASE ~locked
    <3>1. lock_held' = [lock_held EXCEPT ![l] = TRUE]
      BY <2>1, <2>3
    <3> QED
      BY <2>1, <2>3, <3>1, <1>0
         DEF LockInv, Holds, Pends, Releasing, NeverHangs, TypeOK
  <2> QED
    BY <2>2, <2>3
<1>2. ASSUME NEW o \in Op, must_with_full_access(o) PROVE LockInv'
  <2>1. \A k \in Level : pc[k] = "idle"
    BY <1>2 DEF must_with_full_access, guard, CanStart
  <2>2. ~locked
    BY <2>1 DEF LockInv, Holds, TypeOK
  <2>3. /\ pc' = [pc EXCEPT ![0] = "access"]
        /\ lock_held' = [lock_held EXCEPT ![0] = TRUE]
        /\ locked' = TRUE
    BY <1>2, <2>2 DEF must_with_full_access, guard, Goto, TypeOK
  <2> QED
    BY <2>1, <2>3 DEF LockInv, Holds, Pends, Releasing, NeverHangs, TypeOK
<1>3. ASSUME NEW l \in Level, Advance(l) PROVE LockInv'
  <2>0. \A k \in Level : l < k => pc[k] = "idle"
    BY <1>3 DEF Advance, full_access, pend_only_access, drop_pend_only,
       drop_swap_pending, run_pended_op, drop_unlock, drop_check_pending,
       drop_relock, At, Running
  <2> USE <1>0, <2>0 DEF LockInv, Holds, Pends, Releasing, NeverHangs, TypeOK, At, Goto
  <2>1. CASE full_access(l)
    BY <2>1 DEF full_access
  <2>2. CASE pend_only_access(l)
    BY <2>2 DEF pend_only_access
  <2>3. CASE drop_pend_only(l)
    BY <2>3 DEF drop_pend_only
  <2>4. CASE drop_swap_pending(l)
    BY <2>4 DEF drop_swap_pending
  <2>5. CASE run_pended_op(l)
    BY <2>5 DEF run_pended_op
  <2>6. CASE drop_unlock(l)
    BY <2>6 DEF drop_unlock
  <2>7. CASE drop_check_pending(l)
    BY <2>7 DEF drop_check_pending
  <2>8. CASE drop_relock(l)
    BY <2>8 DEF drop_relock
  <2> QED
    BY <1>3, <2>1, <2>2, <2>3, <2>4, <2>5, <2>6, <2>7, <2>8 DEF Advance
<1>4. CASE UNCHANGED vars
  BY <1>4 DEF vars, LockInv, Holds, Pends, Releasing, NeverHangs
<1> QED
  BY <1>1, <1>2, <1>3, <1>4 DEF Next

(***************************************************************************)
(* Why nothing is left behind: an operation in the buffer is announced by  *)
(* the pending flag, or will be by the level that wrote it, or is being    *)
(* drained; and a set flag always has somebody left to look at it.         *)
(***************************************************************************)
LEMMA NextPendInv == TypeOK /\ LockInv /\ PendInv /\ [Next]_vars => PendInv'
<1> SUFFICES ASSUME TypeOK, LockInv, PendInv, [Next]_vars PROVE PendInv'
  OBVIOUS
<1> USE LevelAssumption DEF Level
<1>1. ASSUME NEW l \in Level, NEW o \in Op, with_access(l, o) PROVE PendInv'
  <2>1. /\ pc' = [pc EXCEPT ![l] = "access"]
        /\ lock_held' = [lock_held EXCEPT ![l] = ~locked]
        /\ pc[l] = "idle"
        /\ UNCHANGED <<pending, buffer>>
    BY <1>1 DEF with_access, guard, Goto, CanStart
  <2> QED
    BY <2>1 DEF PendInv, Holds, Pends, Releasing, TypeOK
<1>2. ASSUME NEW o \in Op, must_with_full_access(o) PROVE PendInv'
  <2>1. \A k \in Level : pc[k] = "idle"
    BY <1>2 DEF must_with_full_access, guard, CanStart
  <2>2. buffer = {} /\ ~pending
    BY <2>1 DEF PendInv, Holds, Pends, Releasing, TypeOK
  <2> QED
    BY <1>2, <2>2 DEF PendInv, must_with_full_access, guard
<1>3. ASSUME NEW l \in Level, Advance(l) PROVE PendInv'
  <2>0. \A k \in Level : l < k => pc[k] = "idle"
    BY <1>3 DEF Advance, full_access, pend_only_access, drop_pend_only,
       drop_swap_pending, run_pended_op, drop_unlock, drop_check_pending,
       drop_relock, At, Running
  <2> USE DEF PendInv, Holds, Pends, Releasing, TypeOK, At, Goto
  <2>1. CASE full_access(l)
    BY <2>1 DEF full_access
  <2>2. CASE pend_only_access(l)
    BY <2>2 DEF pend_only_access
  <2>3. CASE drop_pend_only(l)
    <3>1. PICK k \in Level : k < l /\ Holds(k)
      BY <2>3 DEF drop_pend_only, LockInv
    <3> QED
      BY <2>3, <3>1 DEF drop_pend_only
  <2>4. CASE drop_swap_pending(l)
    BY <2>4 DEF drop_swap_pending
  <2>5. CASE run_pended_op(l)
    BY <2>5 DEF run_pended_op, LockInv
  <2>6. CASE drop_unlock(l)
    BY <2>6 DEF drop_unlock
  <2>7. CASE drop_check_pending(l)
    BY <2>7 DEF drop_check_pending
  <2>8. CASE drop_relock(l)
    BY <2>8, NextLockInv DEF drop_relock, LockInv, NeverHangs
  <2> QED
    BY <1>3, <2>1, <2>2, <2>3, <2>4, <2>5, <2>6, <2>7, <2>8 DEF Advance
<1>4. CASE UNCHANGED vars
  BY <1>4 DEF vars, PendInv, Holds, Pends, Releasing
<1> QED
  BY <1>1, <1>2, <1>3, <1>4 DEF Next

(***************************************************************************)
(* Why an operation is applied once: it is not called yet, in the hands of *)
(* one level, in the buffer, or applied, and in only one of these.         *)
(***************************************************************************)
LEMMA NextOnceInv == TypeOK /\ LockInv /\ OnceInv /\ [Next]_vars => OnceInv'
<1> SUFFICES ASSUME TypeOK, LockInv, OnceInv, [Next]_vars PROVE OnceInv'
  OBVIOUS
<1> USE DEF OnceInv, ExactlyOnce, Waiting
<1>1. ASSUME NEW l \in Level, NEW o \in Op, guard(l, o), Goto(l, "access")
      PROVE  OnceInv'
  <2>1. /\ o \in todo /\ todo' = todo \ {o}
        /\ op' = [op EXCEPT ![l] = o]
        /\ pc' = [pc EXCEPT ![l] = "access"]
        /\ UNCHANGED <<buffer, applied>>
    BY <1>1 DEF guard, Goto
  <2>2. pc[l] = "idle"
    BY <1>1, LevelAssumption DEF guard, CanStart, Level
  <2>3. \A k \in Level : k # l => pc'[k] = pc[k] /\ op'[k] = op[k]
    BY <2>1 DEF TypeOK
  <2>4. pc'[l] = "access" /\ op'[l] = o
    BY <2>1 DEF TypeOK
  <2>5. \A p \in Op : Waiting(p)' <=> (p = o \/ Waiting(p))
    BY <2>1, <2>2, <2>3, <2>4
  <2>6. (\A p \in todo : applied[p] = 0 /\ ~Waiting(p))'
    BY <2>1, <2>5 DEF TypeOK
  <2>7. ExactlyOnce'
    BY <2>1, <2>5 DEF TypeOK
  <2> QED
    BY <2>1, <2>2, <2>3, <2>4, <2>6, <2>7 DEF TypeOK
<1>2. ASSUME NEW l \in Level, NEW o \in Op, with_access(l, o) PROVE OnceInv'
  BY <1>1, <1>2 DEF with_access, Goto, TypeOK
<1>3. ASSUME NEW o \in Op, must_with_full_access(o) PROVE OnceInv'
  <2>1. 0 \in Level
    BY LevelAssumption DEF Level
  <2>2. \A k \in Level : pc[k] = "idle"
    BY <1>3, LevelAssumption DEF must_with_full_access, guard, CanStart, Level
  <2>3. ~locked
    BY <2>2 DEF LockInv, Holds, TypeOK
  <2> QED
    BY <1>1, <1>3, <2>1, <2>3 DEF must_with_full_access, Goto, TypeOK
<1>4. ASSUME NEW l \in Level, Advance(l) PROVE OnceInv'
  <2>1. CASE full_access(l)
    BY <2>1 DEF full_access, At, Goto, Apply, TypeOK
  <2>2. CASE pend_only_access(l)
    BY <2>2 DEF pend_only_access, At, Goto, TypeOK
  <2>3. CASE drop_pend_only(l) \/ drop_swap_pending(l)
    BY <2>3 DEF drop_pend_only, drop_swap_pending, At, Goto, TypeOK
  <2>4. CASE run_pended_op(l)
    <3>1. CASE buffer = {} /\ Goto(l, "unlock") /\ UNCHANGED <<buffer, applied>>
      BY <2>4, <3>1 DEF run_pended_op, At, Goto, TypeOK
    <3>2. ASSUME NEW o \in buffer, buffer' = buffer \ {o}, Apply(o), UNCHANGED pc
          PROVE  OnceInv'
      BY <2>4, <3>2 DEF run_pended_op, Apply, TypeOK
    <3> QED
      BY <2>4, <3>1, <3>2 DEF run_pended_op
  <2>5. CASE drop_unlock(l) \/ drop_check_pending(l) \/ drop_relock(l)
    BY <2>5 DEF drop_unlock, drop_check_pending, drop_relock, At, Goto, TypeOK
  <2> QED
    BY <1>4, <2>1, <2>2, <2>3, <2>4, <2>5 DEF Advance
<1>5. CASE UNCHANGED vars
  BY <1>5 DEF vars
<1> QED
  BY <1>2, <1>3, <1>4, <1>5 DEF Next

\* The inductive invariant holds in every reachable state.
THEOREM Invariance == Spec => []IInv
<1>1. IInv /\ [Next]_vars => IInv'
  BY NextTypeOK, NextLockInv, NextPendInv, NextOnceInv DEF IInv
<1> QED
  BY InitIInv, <1>1, PTL DEF Spec

(***************************************************************************)
(* Full access is exclusive (soft_lock.rs, AccessGuard::guard and drop).   *)
(***************************************************************************)
THEOREM FullAccessIsExclusive == Spec => []MutualExclusion
<1>1. IInv => MutualExclusion
  BY DEF IInv, LockInv, MutualExclusion
<1> QED
  BY <1>1, Invariance, PTL

(***************************************************************************)
(* Both spin loops of soft_lock.rs (l. 160 and l. 209) are unreachable.    *)
(***************************************************************************)
THEOREM SpinLoopsUnreachable == Spec => []NeverHangs
<1>1. IInv => NeverHangs
  BY DEF IInv, LockInv
<1> QED
  BY <1>1, Invariance, PTL

(***************************************************************************)
(* When nobody is inside the lock every requested operation has been       *)
(* applied, and applied once (soft_lock.rs, AccessGuard::drop).            *)
(***************************************************************************)
THEOREM NoOperationIsMissed == Spec => []MissesNoOperation
<1>1. IInv => MissesNoOperation
  BY DEF IInv, LockInv, PendInv, OnceInv, MissesNoOperation, ExactlyOnce,
     Waiting, Holds, Pends, Releasing, TypeOK
<1> QED
  BY <1>1, Invariance, PTL

(***************************************************************************)
(* While somebody is inside the lock a requested operation waits in one    *)
(* place or has been applied once: the holder and an interrupt that gets   *)
(* between its release and its check (drop, l. 191-194) never both run it. *)
(***************************************************************************)
THEOREM AppliedExactlyOnce == Spec => []ExactlyOnce
<1>1. IInv => ExactlyOnce
  BY DEF IInv, OnceInv
<1> QED
  BY <1>1, Invariance, PTL

(***************************************************************************)
(* The soft lock implements PendableOps: a call requests its operation,    *)
(* running it directly or from the buffer applies it, and the last level   *)
(* to leave leaves nothing behind.                                         *)
(***************************************************************************)
THEOREM SoftLockKeepsPromise == Spec => ImplementsPromise
<1>1. Init => Promise!Init
  BY DEF Init, Promise!Init
<1>2. IInv /\ IInv' /\ [Next]_vars => [Promise!Next]_Promise!vars
  <2> SUFFICES ASSUME IInv, IInv', [Next]_vars
               PROVE  [Promise!Next]_Promise!vars
    OBVIOUS
  <2> USE DEF Promise!vars
  <2>1. ASSUME NEW l \in Level, NEW o \in Op, guard(l, o), pc'[l] # "idle"
        PROVE  Promise!Request(o)
    BY <2>1 DEF guard, Promise!Request, IInv, TypeOK
  <2>2. ASSUME NEW l \in Level, NEW o \in Op, with_access(l, o)
        PROVE  Promise!Next
    BY <2>1, <2>2 DEF with_access, Goto, IInv, TypeOK, Promise!Next
  <2>3. ASSUME NEW o \in Op, must_with_full_access(o)
        PROVE  Promise!Next
    BY <2>1, <2>3, LevelAssumption
       DEF must_with_full_access, Goto, IInv, TypeOK, Promise!Next, Level
  <2>4. ASSUME NEW o \in Op, NEW l \in Level, pc[l] # "idle", pc'[l] # "idle",
               o \notin todo, applied[o] = 0, Apply(o), UNCHANGED todo
        PROVE  Promise!Next
    <3>1. Promise!Apply(o)
      BY <2>4 DEF Promise!Apply, Apply, IInv, TypeOK
    <3> QED
      BY <3>1 DEF Promise!Next
  <2>5. ASSUME NEW l \in Level, pc[l] # "idle", UNCHANGED <<todo, applied>>
        PROVE  [Promise!Next]_Promise!vars
    <3>1. CASE \E k \in Level : pc'[k] # "idle"
      BY <2>5, <3>1
    <3>2. CASE \A k \in Level : pc'[k] = "idle"
      <4>1. {o \in Op : applied[o] = 1} = Op \ todo
        <5>1. MissesNoOperation'
          BY DEF IInv, LockInv, PendInv, OnceInv, MissesNoOperation, ExactlyOnce,
             Waiting, Holds, Pends, Releasing, TypeOK
        <5> QED
          BY <5>1, <3>2, <2>5 DEF MissesNoOperation
      <4>2. Promise!Quiesce
        BY <4>1, <2>5, <3>2 DEF Promise!Quiesce
      <4> QED
        BY <4>2 DEF Promise!Next
    <3> QED
      BY <3>1, <3>2
  <2>6. ASSUME NEW l \in Level, Advance(l) PROVE [Promise!Next]_Promise!vars
    <3>1. CASE full_access(l)
      <4>1. op[l] \in Op /\ op[l] \notin todo /\ applied[op[l]] = 0
        BY <3>1 DEF full_access, At, IInv, TypeOK, OnceInv, ExactlyOnce, Waiting
      <4> QED
        BY <3>1, <4>1, <2>4 DEF full_access, At, Running, Goto, IInv, TypeOK
    <3>2. CASE run_pended_op(l)
      <4>1. ASSUME NEW o \in buffer, Apply(o), UNCHANGED pc
            PROVE  Promise!Next
        <5>1. o \in Op /\ o \notin todo /\ applied[o] = 0
          BY <4>1 DEF IInv, TypeOK, OnceInv, ExactlyOnce, Waiting
        <5> QED
          BY <3>2, <4>1, <5>1, <2>4 DEF run_pended_op, At, Running
      <4>2. CASE UNCHANGED applied
        BY <3>2, <4>2, <2>5 DEF run_pended_op, At, Running
      <4> QED
        BY <3>2, <4>1, <4>2 DEF run_pended_op
    <3>3. CASE \/ pend_only_access(l) \/ drop_pend_only(l) \/ drop_swap_pending(l)
               \/ drop_unlock(l) \/ drop_check_pending(l) \/ drop_relock(l)
      BY <3>3, <2>5 DEF pend_only_access, drop_pend_only, drop_swap_pending,
         drop_unlock, drop_check_pending, drop_relock, At, Running
    <3> QED
      BY <2>6, <3>1, <3>2, <3>3 DEF Advance
  <2>7. CASE UNCHANGED vars
    BY <2>7 DEF vars
  <2> QED
    BY <2>2, <2>3, <2>6, <2>7 DEF Next
<1> QED
  BY <1>1, <1>2, Invariance, PTL DEF Spec, ImplementsPromise, Promise!Spec

-----------------------------------------------------------------------------
(***************************************************************************)
(* The bounds of the heap and of the numbers it computes with.             *)
(***************************************************************************)
\* Headers lie 4 bytes before a multiple of 8, the first and the guard too.
LEMMA HeapBounds ==
    /\ HEAP_START \in Int /\ HEAP_START > 0 /\ HEAP_START % 8 = 4
    /\ Guard \in Int /\ Guard % 8 = 4
    /\ Guard - HEAP_START >= 16
<1> DEFINE q == (DataEnd + 3) \div 4
           d == q * 4
<1>1. q \in Int /\ q > 0
  BY MemoryAssumption
<1>2. d % 8 = 0 \/ d % 8 = 4
  <2> HIDE DEF q
  <2> QED BY <1>1
<1>3. HEAP_START \in Int /\ HEAP_START > 0 /\ HEAP_START % 8 = 4
  <2> HIDE DEF q
  <2>1. HEAP_START = IF d % 8 = 0 THEN d + 4 ELSE d
    BY DEF HEAP_START, q
  <2> QED BY <1>1, <1>2, <2>1
<1>4. RamEnd \in Int /\ RamEnd % 8 = 0 /\ RamEnd - HEAP_START >= 20
  BY MemoryAssumption DEF FREE_CHUNK_MIN_SIZE
<1>5. Guard = RamEnd - 4
  BY DEF Guard, GUARD_SIZE
<1> QED
  <2> HIDE DEF q
  <2> QED BY <1>3, <1>4, <1>5

\* What makes a number the address of a word.
LEMMA AddrFacts ==
    /\ \A w \in Addr : w \in Int /\ HEAP_START <= w /\ w <= Guard /\ w # Null
    /\ \A w \in Int : HEAP_START <= w /\ w <= Guard /\ w % 8 = 4 => w \in Addr
    /\ \A w \in Int : HEAP_START <= w - 4 /\ w <= Guard /\ w % 8 = 4 => w - 4 \in Addr
<1>1. \A w \in Int : w % 8 = 4 => w % 4 = 0 /\ (w - 4) % 4 = 0
  OBVIOUS
<1> QED
  BY <1>1, HeapBounds DEF Addr, Null

\* The larger of two numbers.
LEMMA MaxOfTwo ==
    \A x, y \in Int : Max({x, y}) \in {x, y} /\ Max({x, y}) >= x /\ Max({x, y}) >= y
<1> SUFFICES ASSUME NEW x \in Int, NEW y \in Int
             PROVE  Max({x, y}) \in {x, y} /\ Max({x, y}) >= x /\ Max({x, y}) >= y
  OBVIOUS
<1>1. \E z \in {x, y} : \A u \in {x, y} : z >= u
  OBVIOUS
<1> QED
  BY <1>1 DEF Max

\* chunk_size_to_list_index names a list.
LEMMA IndexType == \A n : chunk_size_to_list_index(n) \in ListIndex
<1> TAKE n
<1> DEFINE S == {i \in 1 .. MaxList : n >= 16 * 2 ^ i}
<1>1. IsFiniteSet(1 .. MaxList) /\ Cardinality(1 .. MaxList) = MaxList
  BY ListAssumption, FS_Interval
<1>2. S \subseteq 1 .. MaxList
  OBVIOUS
<1>3. IsFiniteSet(S) /\ Cardinality(S) <= MaxList
  <2> HIDE DEF S
  <2> QED BY <1>1, <1>2, FS_Subset
<1>4. Cardinality(S) \in Nat
  <2> HIDE DEF S
  <2> QED BY <1>3, FS_CardinalityType
<1>5. chunk_size_to_list_index(n) = Cardinality(S)
  BY DEF chunk_size_to_list_index
<1> QED
  <2> HIDE DEF S
  <2> QED BY <1>3, <1>4, <1>5, ListAssumption DEF ListIndex

\* The chunk for a request has a size that keeps headers aligned, and room.
LEMMA ChunkSizeFits ==
    ASSUME NEW request \in Requests
    PROVE  /\ chunk_size(request) \in Int /\ chunk_size(request) >= 16
           /\ chunk_size(request) % 8 = 0
           /\ request \in Int /\ request > 0 /\ request + 4 <= chunk_size(request)
<1>1. request \in Int /\ request > 0
  BY RequestAssumption
<1> DEFINE least == Max({request + HDR_SIZE, 16})
           q == (least + 7) \div 8
<1>2. least \in Int /\ least >= request + 4 /\ least >= 16
  <2> DEFINE x == request + HDR_SIZE
  <2>1. x \in Int /\ x = request + 4
    BY <1>1 DEF HDR_SIZE
  <2> HIDE DEF x
  <2>2. Max({x, 16}) \in {x, 16} /\ Max({x, 16}) >= x /\ Max({x, 16}) >= 16
    BY <2>1, MaxOfTwo
  <2>3. least = Max({x, 16})
    BY DEF x
  <2> HIDE DEF least
  <2> QED BY <1>1, <2>1, <2>2, <2>3
<1>3. q \in Int /\ q * 8 >= least
  <2> HIDE DEF least
  <2> QED BY <1>2
<1>4. chunk_size(request) = q * 8
  BY DEF chunk_size
<1>5. (q * 8) % 8 = 0
  <2> HIDE DEF q
  <2> QED BY <1>3
<1> QED
  <2> HIDE DEF q, least
  <2> QED BY <1>1, <1>2, <1>3, <1>4, <1>5

\* search_first_fit returns free chunks that are large enough.
LEMMA FitSound ==
    ASSUME NEW size, NEW a \in search_first_fit(size), HeapTypeOK
    PROVE  a \in Free /\ mem[a].size >= size
<1> DEFINE from == Min({chunk_size_to_list_index(size) + 1, MaxList})
           fit(i) == {c \in list[i] : mem[c].size >= size}
<1>1. from \in Int /\ from >= 0
  <2> DEFINE x == chunk_size_to_list_index(size) + 1
  <2>1. x \in Int /\ x >= 0 /\ MaxList \in Int /\ MaxList >= 0
    BY IndexType, ListAssumption DEF ListIndex
  <2> HIDE DEF x
  <2>2. \E z \in {x, MaxList} : \A u \in {x, MaxList} : z =< u
    BY <2>1
  <2>3. from = Min({x, MaxList})
    BY DEF x
  <2> QED
    BY <2>1, <2>2, <2>3 DEF Min
<1>2. PICK i \in from .. MaxList : a \in fit(i)
  BY DEF search_first_fit
<1>3. i \in ListIndex
  <2> HIDE DEF from
  <2> QED BY <1>1, ListAssumption DEF ListIndex
<1> QED
  BY <1>2, <1>3 DEF Free

\* Headers with a field set.
LEMMA HeaderSet ==
    ASSUME NEW r \in Word
    PROVE  /\ r.size \in Nat
           /\ [r EXCEPT !.left = TRUE] \in Word
           /\ [r EXCEPT !.left = TRUE].size = r.size
           /\ [r EXCEPT !.left = TRUE].self = r.self
           /\ [r EXCEPT !.left = TRUE].left
           /\ [r EXCEPT !.left = FALSE] \in Word
           /\ [r EXCEPT !.left = FALSE].size = r.size
           /\ [r EXCEPT !.left = FALSE].self = r.self
           /\ ~[r EXCEPT !.left = FALSE].left
           /\ [r EXCEPT !.self = TRUE] \in Word
           /\ [r EXCEPT !.self = TRUE].size = r.size
           /\ [r EXCEPT !.self = TRUE].self
           /\ [r EXCEPT !.self = TRUE].left = r.left
BY DEF Word

\* set_hdr_chunk_size
LEMMA SizeSet ==
    ASSUME NEW r \in Word, NEW n \in Nat
    PROVE  /\ [r EXCEPT !.size = n] \in Word
           /\ [r EXCEPT !.size = n].size = n
BY DEF Word

(***************************************************************************)
(* What the invariant says of chunks.                                      *)
(***************************************************************************)
\* A chunk has its header and the next one at addresses of the heap.
LEMMA ChunkFacts ==
    ASSUME HeapInv
    PROVE  \A a \in Chunks :
              /\ a \in Addr /\ a \in Int /\ a # Null
              /\ HEAP_START <= a /\ a % 8 = 4
              /\ mem[a].size \in Int /\ mem[a].size >= 16 /\ mem[a].size % 8 = 0
              /\ a + mem[a].size \in Addr /\ (a + mem[a].size) - 4 \in Addr
              /\ (a + mem[a].size) % 8 = 4
              /\ a + mem[a].size <= Guard
              /\ a + mem[a].size \in Chunks \union {Guard}
<1> SUFFICES ASSUME NEW a \in Chunks
             PROVE  /\ a \in Addr /\ a \in Int /\ a # Null
                    /\ HEAP_START <= a /\ a % 8 = 4
                    /\ mem[a].size \in Int /\ mem[a].size >= 16 /\ mem[a].size % 8 = 0
                    /\ a + mem[a].size \in Addr /\ (a + mem[a].size) - 4 \in Addr
                    /\ (a + mem[a].size) % 8 = 4
                    /\ a + mem[a].size <= Guard
                    /\ a + mem[a].size \in Chunks \union {Guard}
  OBVIOUS
<1>1. \A c \in Chunks : c \in Addr
  BY DEF HeapInv, HeapTypeOK, Chunks, Free, InUse
<1>2. a \in Addr /\ a \in Int /\ a # Null /\ HEAP_START <= a
  BY <1>1, AddrFacts
<1>3. a % 8 = 4 /\ mem[a].size % 8 = 0
  BY DEF HeapInv, Aligned
<1>4. mem[a].size \in Int
  BY <1>2 DEF HeapInv, HeapTypeOK, Word
<1>5. mem[a].size >= 16 /\ a + mem[a].size \in Chunks \union {Guard}
  BY DEF HeapInv, HeapSound, ChunksTile, right
<1> DEFINE e == a + mem[a].size
<1>6. e \in Int /\ e <= Guard /\ e % 8 = 4
  <2> USE <1>5
  <2> HIDE DEF e
  <2>1. CASE e = Guard
    BY <2>1, HeapBounds
  <2>2. CASE e \in Chunks
    BY <2>2, <1>1, AddrFacts DEF HeapInv, Aligned
  <2>3. e \in Chunks \union {Guard}
    BY <1>5 DEF e
  <2> QED BY <2>1, <2>2, <2>3
<1>7. HEAP_START <= e - 4
  BY <1>2, <1>4, <1>5, HeapBounds
<1>8. e \in Addr /\ e - 4 \in Addr
  <2> HIDE DEF e
  <2> QED BY <1>6, <1>7, AddrFacts, HeapBounds
<1> QED
  BY <1>2, <1>3, <1>4, <1>5, <1>6, <1>8

\* Two chunks do not overlap.
LEMMA ChunksApart ==
    ASSUME HeapInv
    PROVE  \A a, c \in Chunks : a = c \/ a + mem[a].size <= c \/ c + mem[c].size <= a
<1> SUFFICES ASSUME NEW a \in Chunks, NEW c \in Chunks
             PROVE  a = c \/ a + mem[a].size <= c \/ c + mem[c].size <= a
  OBVIOUS
<1>1. a \in Int /\ c \in Int
  BY ChunkFacts
<1>2. (a < c => a + mem[a].size <= c) /\ (c < a => c + mem[c].size <= a)
  BY DEF HeapInv, HeapSound, ChunksTile, right
<1> QED
  BY <1>1, <1>2

\* A header is not inside a chunk.
LEMMA HeaderOutside ==
    ASSUME HeapInv
    PROVE  \A a \in Chunks : \A h \in Chunks \union {Guard} : h <= a \/ a + mem[a].size <= h
<1> SUFFICES ASSUME NEW a \in Chunks, NEW h \in Chunks \union {Guard}
             PROVE  h <= a \/ a + mem[a].size <= h
  OBVIOUS
<1>1. CASE h = Guard
  BY <1>1, ChunkFacts
<1>2. CASE h \in Chunks
  <2>1. a \in Int /\ h \in Int /\ mem[h].size \in Int /\ mem[h].size >= 16
    BY <1>2, ChunkFacts
  <2> QED BY <1>2, <2>1, ChunksApart
<1> QED BY <1>1, <1>2

\* The bytes from x up to y.
LEMMA CardInterval ==
    ASSUME NEW x \in Int, NEW y \in Int, x < y
    PROVE  IsFiniteSet(x .. y - 1) /\ Cardinality(x .. y - 1) = y - x
<1> DEFINE z == y - 1
<1>1. z \in Int /\ x <= z /\ (z - x) + 1 = y - x
  OBVIOUS
<1> HIDE DEF z
<1>2. IsFiniteSet(x .. z) /\ Cardinality(x .. z) = IF x > z THEN 0 ELSE (z - x) + 1
  BY <1>1, FS_Interval
<1>3. IsFiniteSet(x .. z) /\ Cardinality(x .. z) = y - x
  BY <1>1, <1>2
<1> QED
  BY <1>3 DEF z

\* Two sets without a common element.
LEMMA CardDisjoint ==
    ASSUME NEW A, NEW B, IsFiniteSet(A), IsFiniteSet(B), B \cap A = {}
    PROVE  Cardinality(B \union A) = Cardinality(B) + Cardinality(A)
<1>1. Cardinality(B \union A) = Cardinality(B) + Cardinality(A) - Cardinality(B \cap A)
  BY FS_Union
<1>2. Cardinality(B \cap A) = 0
  BY FS_EmptySet
<1>3. Cardinality(A) \in Nat /\ Cardinality(B) \in Nat
  BY FS_CardinalityType
<1> QED
  BY <1>1, <1>2, <1>3

\* In p chunk a has k bytes of the heap, and the chunks S, of the same sizes
\* as in m, lie beside it.
Beside(m, p, S, a, k) ==
    /\ a \in Int /\ k \in Int /\ p[a].size = k /\ k > 0 /\ HEAP_START <= a /\ a + k <= Guard
    /\ \A c \in S : /\ c \in Int /\ m[c].size \in Int /\ p[c].size = m[c].size
                    /\ c + m[c].size <= a \/ a + k <= c

Adds(m, p, S, a, k) ==
    /\ Cardinality(Bytes(m, S)) \in Nat
    /\ Cardinality(Bytes(p, S \union {a})) = Cardinality(Bytes(m, S)) + k

(***************************************************************************)
(* Taking one more chunk, which does not overlap the others, adds its size *)
(* to the bytes in use; read from right to left, freeing it subtracts it.  *)
(***************************************************************************)
LEMMA BytesAdd ==
    ASSUME NEW m, NEW p, NEW S, NEW a, NEW k, Beside(m, p, S, a, k)
    PROVE  Adds(m, p, S, a, k)
<1> DEFINE B == Bytes(m, S)
           e == a + k
           A == a .. e - 1
<1>0. a \in Int /\ k \in Int /\ p[a].size = k /\ k > 0 /\ HEAP_START <= a /\ a + k <= Guard
  BY DEF Beside
<1>1. HEAP_START \in Int /\ Guard \in Int
  BY HeapBounds
<1>2. e \in Int /\ a < e /\ e <= Guard
  BY <1>0
<1>3. IsFiniteSet(A) /\ Cardinality(A) = k
  <2>1. e - a = k
    BY <1>0
  <2> HIDE DEF e
  <2> QED BY <1>0, <1>2, <2>1, CardInterval
<1>4. IsFiniteSet(B)
  <2>1. B \subseteq HEAP_START .. Guard - 1
    BY DEF Bytes
  <2>2. IsFiniteSet(HEAP_START .. Guard - 1)
    BY <1>1, FS_Interval
  <2> HIDE DEF B
  <2> QED BY <2>1, <2>2, FS_Subset
<1>5. Bytes(p, S \union {a}) = B \union A
  <2>1. ASSUME NEW b \in Bytes(p, S \union {a}) PROVE b \in B \union A
    <3>1. PICK c \in S \union {a} : c <= b /\ b < c + p[c].size
      BY DEF Bytes, right
    <3>2. b \in HEAP_START .. Guard - 1
      BY DEF Bytes
    <3>3. CASE c = a
      BY <1>0, <1>1, <3>1, <3>2, <3>3
    <3>4. CASE c \in S
      <4>1. b < c + m[c].size
        BY <3>1, <3>4 DEF Beside
      <4> QED BY <3>1, <3>2, <3>4, <4>1 DEF Bytes, right
    <3> QED BY <3>3, <3>4
  <2>2. ASSUME NEW b \in B PROVE b \in Bytes(p, S \union {a})
    <3>1. PICK c \in S : c <= b /\ b < c + m[c].size
      BY DEF Bytes, right
    <3>2. b < c + p[c].size /\ b \in HEAP_START .. Guard - 1
      BY <3>1 DEF Bytes, Beside
    <3> QED BY <3>1, <3>2 DEF Bytes, right
  <2>3. ASSUME NEW b \in A PROVE b \in Bytes(p, S \union {a})
    <3>1. b \in HEAP_START .. Guard - 1
      BY <1>0, <1>1, <1>2
    <3>2. a <= b /\ b < a + p[a].size
      BY <1>0, <1>2
    <3> QED BY <3>1, <3>2 DEF Bytes, right
  <2> HIDE DEF A, B
  <2> QED BY <2>1, <2>2, <2>3
<1>6. B \cap A = {}
  <2> SUFFICES ASSUME NEW b \in B, b \in A PROVE FALSE
    OBVIOUS
  <2>1. PICK c \in S : c <= b /\ b < c + m[c].size
    BY DEF Bytes, right
  <2>2. b \in Int /\ a <= b /\ b < e
    BY <1>0, <1>2
  <2>3. c \in Int /\ m[c].size \in Int /\ (c + m[c].size <= a \/ e <= c)
    BY DEF Beside
  <2> QED BY <2>1, <2>2, <2>3, <1>0
<1>7. Cardinality(B \union A) = Cardinality(B) + Cardinality(A)
  <2> HIDE DEF A, B
  <2> QED BY <1>3, <1>4, <1>6, CardDisjoint
<1>8. Cardinality(B) \in Nat
  <2> HIDE DEF B
  <2> QED BY <1>4, FS_CardinalityType
<1> QED
  <2> HIDE DEF A, B
  <2> DEFINE cb == Cardinality(B)
             cu == Cardinality(B \union A)
  <2>1. cu = cb + k
    <3>1. cu = cb + Cardinality(A) /\ cb \in Int
      BY <1>7, <1>8
    <3> HIDE DEF cb, cu
    <3> QED BY <1>0, <1>3, <3>1
  <2>2. Cardinality(Bytes(p, S \union {a})) = Cardinality(B) + k
    BY <1>5, <2>1
  <2> QED BY <1>8, <2>2 DEF B, Adds

\* A link leads back to the chunk it was made from.
LEMMA LinkRoundTrip ==
    ASSUME NEW a \in Addr
    PROVE  link_to_ptr(ptr_to_link(a)) = a
<1>1. /\ a \in Int /\ a % 4 = 0 /\ a >= HEAP_START /\ a <= RamEnd - 4
      /\ HEAP_START \in Int /\ RamEnd \in Nat
  BY HeapBounds, MemoryAssumption DEF Addr, Guard, GUARD_SIZE
<1>2. /\ LinkOffset \in Nat /\ LinkOffset % 4 = 0 /\ LinkOffset <= HEAP_START
      /\ RamEnd - LinkOffset <= 4 * 65536
  BY LinkAssumption
<1> DEFINE q == (a - LinkOffset) \div 4
<1>3. q \in Nat /\ a - LinkOffset = 4 * q
  BY <1>1, <1>2
<1>4. q < 65536
  BY <1>1, <1>2, <1>3
<1>5. q % 65536 = q
  <2> HIDE DEF q
  <2> QED BY <1>3, <1>4
<1> QED
  <2> HIDE DEF q
  <2>1. link_to_ptr(ptr_to_link(a)) = LinkOffset + 4 * q
    BY <1>5 DEF link_to_ptr, ptr_to_link, q
  <2> QED BY <1>1, <1>2, <1>3, <2>1

(***************************************************************************)
(* The heap after mcu_heap_init.                                           *)
(***************************************************************************)
LEMMA HeapInitial == InitHeap => HeapInv
<1> SUFFICES ASSUME InitHeap PROVE HeapInv
  OBVIOUS
<1> DEFINE H == HEAP_START
           n == Guard - H
           x == chunk_size_to_list_index(n)
<1>1. /\ H \in Int /\ H > 0 /\ H % 8 = 4 /\ Guard \in Int /\ Guard % 8 = 4
      /\ n \in Int /\ n >= 16 /\ n % 8 = 0 /\ H + n = Guard
  BY HeapBounds
<1>2. H \in Addr /\ Guard \in Addr /\ Guard - 4 \in Addr /\ H # Guard - 4 /\ H # Guard /\ Guard # Guard - 4
  <2> HIDE DEF n
  <2>1. H <= Guard - 4
    BY <1>1
  <2> QED BY <1>1, <2>1, AddrFacts
<1>3. /\ mem \in [Addr -> Word]
      /\ mem[H].size = n /\ ~mem[H].self /\ mem[H].left
      /\ mem[Guard - 4] = [size |-> n, self |-> FALSE, left |-> FALSE]
      /\ mem[Guard] = [size |-> 0, self |-> TRUE, left |-> FALSE]
  <2> DEFINE blank == [w \in Addr |-> Junk]
             ftr == [size |-> n, self |-> FALSE, left |-> FALSE]
             m1 == [blank EXCEPT ![H] = ftr, ![(H + n) - 4] = ftr]
  <2>1. mem = [m1 EXCEPT ![H].left = TRUE, ![Guard] = [size |-> 0, self |-> TRUE, left |-> FALSE]]
    BY DEF InitHeap, set_free_chunk_hdr_ftr
  <2>2. (H + n) - 4 = Guard - 4
    BY <1>1
  <2>3. ftr \in Word /\ Junk \in Word /\ [size |-> 0, self |-> TRUE, left |-> FALSE] \in Word
    BY <1>1, JunkAssumption DEF Word
  <2>4. m1 \in [Addr -> Word] /\ m1[H] = ftr /\ m1[Guard - 4] = ftr
    <3> HIDE DEF ftr, n, H
    <3> QED BY <1>2, <2>2, <2>3
  <2> DEFINE h == [m1[H] EXCEPT !.left = TRUE]
  <2>5. h \in Word /\ h.size = n /\ ~h.self /\ h.left
    <3> HIDE DEF m1, n, H
    <3>1. m1[H] \in Word /\ m1[H].size = n /\ ~m1[H].self
      BY <1>2, <2>3, <2>4
    <3> QED BY <3>1, HeaderSet
  <2>6. mem = [m1 EXCEPT ![H] = h, ![Guard] = [size |-> 0, self |-> TRUE, left |-> FALSE]]
    BY <2>1
  <2> HIDE DEF m1, n, H, h
  <2> QED BY <1>2, <2>3, <2>4, <2>5, <2>6
<1>4. x \in ListIndex
  BY IndexType
<1>5. /\ list \in [ListIndex -> SUBSET Addr]
      /\ \A i \in ListIndex : list[i] = IF i = x THEN {H} ELSE {}
  <2>1. list = [[i \in ListIndex |-> {}] EXCEPT ![x] = @ \union {H}]
    BY <1>2, LinkRoundTrip DEF InitHeap, link_chunk
  <2> HIDE DEF x, H
  <2> QED BY <1>2, <1>4, <2>1
<1>6. Free = {H}
  <2> HIDE DEF x, H
  <2> QED BY <1>4, <1>5 DEF Free
<1>7. InUse = {} /\ DOMAIN live = {} /\ CACHED = Null
  BY DEF InitHeap, InUse
<1>8. Chunks = {H}
  BY <1>6, <1>7 DEF Chunks
<1> HIDE DEF H, n, x
<1>9. right(mem, H) = Guard /\ mem[H].size = n
  BY <1>1, <1>3 DEF right
<1>10. HeapTypeOK
  <2>1. CACHED \in Addr \union {Null} /\ {HIGH_WATER_MARK, CUR_ALLOC_SIZE, MAX_ALLOC_SIZE} \subseteq Nat
        /\ hung \in BOOLEAN
    <3>1. HIGH_WATER_MARK = 0 /\ CUR_ALLOC_SIZE = 0 /\ MAX_ALLOC_SIZE = 0 /\ hung = FALSE
      BY DEF InitHeap
    <3>2. hung \in BOOLEAN
      BY <3>1, Zenon
    <3> QED BY <1>7, <3>1, <3>2
  <2> QED BY <1>3, <1>5, <1>7, <2>1 DEF HeapTypeOK
<1>11. ChunksTile
  <2>1. HEAP_START \in Chunks
    BY <1>8 DEF H
  <2>2. \A c \in Chunks : mem[c].size >= 16 /\ right(mem, c) \in Chunks \union {Guard}
    BY <1>1, <1>8, <1>9
  <2>3. \A c, d \in Chunks : c < d => right(mem, c) <= d
    BY <1>1, <1>8
  <2> QED BY <1>6, <1>7, <2>1, <2>2, <2>3 DEF ChunksTile
<1>12. TagsTruthful
  <2>1. /\ \A c \in Chunks : mem[c].self <=> c \in InUse
        /\ mem[HEAP_START].left
        /\ \A c \in Chunks : mem[right(mem, c)].left <=> c \in InUse
    BY <1>3, <1>7, <1>8, <1>9 DEF H
  <2>2. mem[right(mem, H) - 4] = [size |-> mem[H].size, self |-> FALSE, left |-> FALSE]
    BY <1>3, <1>9
  <2>3. mem[Guard].self /\ mem[Guard].size = 0
    BY <1>3
  <2> QED BY <1>6, <2>1, <2>2, <2>3 DEF TagsTruthful
<1>13. FreeChunksMerged
  <2>1. \A c \in Free : right(mem, c) \notin Free
    BY <1>2, <1>6, <1>9
  <2>2. \A i \in ListIndex : \A c \in list[i] : chunk_size_to_list_index(mem[c].size) = i
    BY <1>5, <1>9 DEF x
  <2> QED BY <2>1, <2>2 DEF FreeChunksMerged
<1>14. AllocSizeExact
  <2>1. Bytes(mem, InUse) = {}
    BY <1>7 DEF Bytes
  <2>2. CUR_ALLOC_SIZE = 0 /\ MAX_ALLOC_SIZE = 0
    BY DEF InitHeap
  <2>3. CUR_ALLOC_SIZE = Cardinality(Bytes(mem, InUse))
    BY <2>1, <2>2, FS_EmptySet
  <2> QED BY <1>7, <2>2, <2>3 DEF AllocSizeExact
<1>15. PayloadIntact
  BY <1>7 DEF PayloadIntact
<1>16. Aligned /\ Connected
  BY <1>1, <1>8, <1>9 DEF Aligned, Connected, H
<1> QED
  BY <1>10, <1>11, <1>12, <1>13, <1>14, <1>15, <1>16 DEF HeapInv, HeapSound

(***************************************************************************)
(* The steps that leave memory and lists alone.                            *)
(***************************************************************************)
\* The kernel loops: nothing changes.
LEMMA NullKeeps ==
    ASSUME HeapInv, NEW request \in Requests, malloc_null(request)
    PROVE  HeapInv'
<1>1. /\ hung' \in BOOLEAN
      /\ UNCHANGED <<mem, list, CACHED, HIGH_WATER_MARK, CUR_ALLOC_SIZE, MAX_ALLOC_SIZE, live>>
  BY DEF malloc_null
<1>2. Free' = Free /\ InUse' = InUse /\ Chunks' = Chunks
  BY <1>1 DEF Free, InUse, Chunks
<1> QED
  BY <1>1, <1>2 DEF HeapInv, HeapTypeOK, HeapSound, ChunksTile, TagsTruthful, FreeChunksMerged,
     AllocSizeExact, PayloadIntact, Aligned, Connected, right

\* A chunk goes from its user to the cache: it stays in use.
LEMMA FreeToCacheKeeps ==
    ASSUME HeapInv, NEW a \in DOMAIN live, free_to_cache(a)
    PROVE  HeapInv'
<1>1. /\ CACHED = Null /\ CACHED' = a /\ live' = Freed(a)
      /\ UNCHANGED <<mem, list, HIGH_WATER_MARK, CUR_ALLOC_SIZE, MAX_ALLOC_SIZE, hung>>
  BY DEF free_to_cache
<1>2. a \in Addr /\ a # Null
  BY AddrFacts DEF HeapInv, HeapTypeOK
<1>3. DOMAIN live' = DOMAIN live \ {a} /\ \A c \in DOMAIN live' : live'[c] = live[c]
  BY <1>1 DEF Freed
<1>4. Free' = Free /\ InUse' = InUse /\ Chunks' = Chunks
  BY <1>1, <1>2, <1>3 DEF Free, InUse, Chunks
<1>5. HeapTypeOK'
  BY <1>1, <1>2, <1>3 DEF HeapInv, HeapTypeOK
<1>6. HeapSound' /\ Aligned' /\ Connected'
  BY <1>1, <1>3, <1>4 DEF HeapInv, HeapSound, ChunksTile, TagsTruthful, FreeChunksMerged,
     AllocSizeExact, Aligned, Connected, right
<1>7. PayloadIntact'
  BY <1>1, <1>3 DEF HeapInv, PayloadIntact, Payload
<1> QED
  BY <1>5, <1>6, <1>7 DEF HeapInv

\* The words in a payload lie inside the chunk.
LEMMA PayloadInside ==
    ASSUME NEW a, NEW request \in Int, NEW size \in Int, a \in Int, request + 4 <= size,
           NEW w \in Payload(a, request)
    PROVE  w \in Addr /\ w \in Int /\ a + 4 <= w /\ w < a + size
BY AddrFacts DEF Payload

\* The cached chunk is given out again: its user writes into it.
LEMMA CachedKeeps ==
    ASSUME HeapInv, NEW request \in Requests, malloc_cached(request)
    PROVE  HeapInv'
<1> DEFINE a == CACHED
           T == mem[a].size
<1>1. /\ a # Null /\ chunk_size(request) <= T
      /\ live' = Taken(a, request) /\ mem' = UserWrites(mem, a, request) /\ CACHED' = Null
      /\ UNCHANGED <<list, HIGH_WATER_MARK, CUR_ALLOC_SIZE, MAX_ALLOC_SIZE, hung>>
  <2>1. mem[CACHED].size >= chunk_size(request)
    BY DEF malloc_cached, CacheServes
  <2>2. a \in Addr
    BY DEF malloc_cached, CacheServes, HeapInv, HeapTypeOK
  <2>3. mem[CACHED].size \in Int
    BY <2>2 DEF HeapInv, HeapTypeOK, Word
  <2> QED BY <2>1, <2>3, ChunkSizeFits DEF malloc_cached, CacheServes
<1>2. a \in InUse /\ a \in Chunks /\ a \in Addr /\ a \notin DOMAIN live
  BY <1>1 DEF InUse, Chunks, HeapInv, HeapTypeOK, HeapSound, ChunksTile
<1>3. a \in Int /\ T \in Int /\ a % 8 = 4
  BY <1>2, ChunkFacts
<1>4. request \in Int /\ request > 0 /\ request + 4 <= T
  BY <1>1, <1>3, ChunkSizeFits
<1>5. DOMAIN live' = DOMAIN live \union {a} /\ live'[a] = request
      /\ \A c \in DOMAIN live : live'[c] = live[c]
  BY <1>1, <1>2 DEF Taken
<1>6. Free' = Free /\ InUse' = InUse /\ Chunks' = Chunks
  BY <1>1, <1>2, <1>5 DEF Free, InUse, Chunks
<1>7. mem' \in [Addr -> Word]
      /\ \A w \in Addr : mem'[w] = IF w \in Payload(a, request) THEN Junk ELSE mem[w]
  BY <1>1, JunkAssumption DEF UserWrites, HeapInv, HeapTypeOK
<1> HIDE DEF T
<1>8. \A w \in Payload(a, request) : w \in Int /\ a < w /\ w < a + T
  <2> SUFFICES ASSUME NEW w \in Payload(a, request) PROVE w \in Int /\ a < w /\ w < a + T
    OBVIOUS
  <2>1. w \in Int /\ a + 4 <= w /\ w < a + T
    BY <1>3, <1>4, PayloadInside
  <2> QED BY <1>3, <2>1
<1>9. \A h \in Chunks \union {Guard} : h \in Addr /\ mem'[h] = mem[h]
  <2> SUFFICES ASSUME NEW h \in Chunks \union {Guard} PROVE h \in Addr /\ mem'[h] = mem[h]
    OBVIOUS
  <2>1. h \in Addr
    BY ChunkFacts, HeapBounds, AddrFacts
  <2>2. h \notin Payload(a, request)
    <3>1. h <= a \/ a + T <= h
      BY <1>2, HeaderOutside DEF T
    <3>2. h \in Int
      BY <2>1, AddrFacts
    <3> QED BY <1>3, <1>8, <3>1, <3>2
  <2> QED BY <1>7, <2>1, <2>2
<1>10. ASSUME NEW c \in Chunks, c # a, NEW w \in Addr, c < w, w < c + mem[c].size
       PROVE  mem'[w] = mem[w]
  <2>1. c \in Int /\ w \in Int /\ mem[c].size \in Int
    BY ChunkFacts, AddrFacts
  <2>2. a + T <= c \/ c + mem[c].size <= a
    BY <1>2, <1>10, ChunksApart DEF T
  <2>3. w \notin Payload(a, request)
    BY <1>3, <1>8, <1>10, <2>1, <2>2
  <2> QED BY <1>7, <2>3
<1>11. \A c \in Free : mem'[(c + mem[c].size) - 4] = mem[(c + mem[c].size) - 4]
  <2> SUFFICES ASSUME NEW c \in Free
               PROVE  mem'[(c + mem[c].size) - 4] = mem[(c + mem[c].size) - 4]
    OBVIOUS
  <2>1. c \in Chunks /\ c # a
    BY <1>2 DEF Chunks, HeapInv, HeapSound, ChunksTile
  <2> DEFINE z == (c + mem[c].size) - 4
  <2>2. z \in Addr /\ c < z /\ z < c + mem[c].size
    BY <2>1, ChunkFacts
  <2> HIDE DEF z
  <2>3. mem'[z] = mem[z]
    BY <1>10, <2>1, <2>2
  <2> QED BY <2>3 DEF z
<1>12. HeapTypeOK'
  BY <1>1, <1>2, <1>5, <1>7 DEF HeapInv, HeapTypeOK
<1>13. ChunksTile'
  <2>1. (Free \intersect InUse = {} /\ CACHED \notin DOMAIN live)'
    <3>1. Null \notin DOMAIN live'
      BY <1>2, <1>5, AddrFacts DEF HeapInv, HeapTypeOK
    <3> QED BY <1>1, <1>6, <3>1 DEF HeapInv, HeapSound, ChunksTile
  <2> QED BY <1>6, <1>9, <2>1 DEF HeapInv, HeapSound, ChunksTile, right
<1>14. TagsTruthful'
  <2>1. /\ \A c \in Chunks : mem[c].self <=> c \in InUse
        /\ mem[HEAP_START].left /\ HEAP_START \in Chunks
        /\ \A c \in Chunks : mem[c + mem[c].size].left <=> c \in InUse
        /\ \A c \in Free : mem[(c + mem[c].size) - 4] = [size |-> mem[c].size, self |-> FALSE, left |-> FALSE]
        /\ mem[Guard].self /\ mem[Guard].size = 0
    BY DEF HeapInv, HeapSound, ChunksTile, TagsTruthful, right
  <2>2. \A c \in Chunks : c + mem[c].size \in Chunks \union {Guard}
    BY ChunkFacts
  <2>3. \A c \in Free : c \in Chunks
    BY DEF Chunks
  <2> QED BY <1>6, <1>9, <1>11, <2>1, <2>2, <2>3 DEF TagsTruthful, right
<1>15. FreeChunksMerged'
  <2>1. \A c \in Free : c \in Chunks
    BY DEF Chunks
  <2>2. \A i \in ListIndex : \A c \in list[i] : c \in Chunks
    BY DEF Chunks, Free
  <2> QED BY <1>1, <1>6, <1>9, <2>1, <2>2 DEF HeapInv, HeapSound, FreeChunksMerged, right
<1>16. AllocSizeExact'
  <2>1. \A c \in InUse : mem'[c].size = mem[c].size
    BY <1>9 DEF Chunks
  <2>2. Bytes(mem', InUse') = Bytes(mem, InUse)
    BY <1>6, <2>1 DEF Bytes, right
  <2> QED BY <1>1, <1>6, <2>1, <2>2 DEF HeapInv, HeapSound, AllocSizeExact, right
<1>17. PayloadIntact'
  <2> SUFFICES ASSUME NEW c \in DOMAIN live'
               PROVE  /\ (c + 4) % 8 = 0
                      /\ live'[c] <= mem'[c].size - HDR_SIZE
                      /\ \A w \in Payload(c, live'[c]) : mem'[w] = Junk
    BY DEF PayloadIntact
  <2>1. CASE c = a
    <3>1. mem'[c].size = T
      BY <1>2, <1>9, <2>1 DEF T
    <3> QED BY <1>3, <1>4, <1>5, <1>7, <2>1, <3>1 DEF HDR_SIZE, Payload
  <2>2. CASE c \in DOMAIN live
    <3>1. /\ (c + 4) % 8 = 0 /\ live[c] <= mem[c].size - 4 /\ live[c] \in Int
          /\ \A w \in Payload(c, live[c]) : mem[w] = Junk
      <4>1. live[c] \in Requests
        BY <2>2 DEF HeapInv, HeapTypeOK
      <4>2. /\ (c + 4) % 8 = 0 /\ live[c] <= mem[c].size - HDR_SIZE
            /\ \A w \in Payload(c, live[c]) : mem[w] = Junk
        BY <2>2 DEF HeapInv, PayloadIntact
      <4>3. live[c] \in Int /\ HDR_SIZE = 4
        <5>1. \A r \in Requests : r \in Int
          BY RequestAssumption
        <5> QED BY <4>1, <5>1, Zenon DEF HDR_SIZE
      <4>4. live[c] <= mem[c].size - 4
        BY <4>2, <4>3
      <4> QED BY <4>2, <4>3, <4>4, Zenon
    <3>2. c \in Chunks /\ mem'[c].size = mem[c].size /\ live'[c] = live[c]
      BY <1>5, <1>9, <2>2 DEF Chunks, InUse
    <3>3. ASSUME NEW w \in Payload(c, live[c]) PROVE mem'[w] = Junk
      <4>1. mem[w] = Junk /\ w \in Addr
        BY <3>1 DEF Payload
      <4> QED BY <1>7, <4>1
    <3> QED BY <3>1, <3>2, <3>3 DEF HDR_SIZE
  <2> QED BY <1>5, <2>1, <2>2
<1>18. Aligned' /\ Connected'
  BY <1>6, <1>9 DEF HeapInv, Aligned, Connected, right
<1> QED
  BY <1>12, <1>13, <1>14, <1>15, <1>16, <1>17, <1>18 DEF HeapInv, HeapSound

\* The boundary tags and the tiling, with right written out.
LEMMA TagFacts ==
    ASSUME HeapInv
    PROVE  /\ Free \intersect InUse = {} /\ CACHED \notin DOMAIN live
           /\ HEAP_START \in Chunks /\ mem[HEAP_START].left
           /\ \A c \in Chunks : mem[c].self <=> c \in InUse
           /\ \A c \in Chunks : mem[c + mem[c].size].left <=> c \in InUse
           /\ \A c \in Free : mem[(c + mem[c].size) - 4] = [size |-> mem[c].size, self |-> FALSE, left |-> FALSE]
           /\ mem[Guard].self /\ mem[Guard].size = 0
           /\ \A c \in Free : c \in Chunks /\ c \notin InUse /\ c + mem[c].size \notin Free
           /\ \A c \in InUse : c \in Chunks
           /\ \A c \in Chunks : c \in Free \/ c \in InUse
           /\ \A c \in Chunks \ {HEAP_START} : \E d \in Chunks : d + mem[d].size = c
<1>1. /\ Free \intersect InUse = {} /\ CACHED \notin DOMAIN live /\ HEAP_START \in Chunks
  BY DEF HeapInv, HeapSound, ChunksTile
<1>2. /\ mem[HEAP_START].left
      /\ \A c \in Chunks : mem[c].self <=> c \in InUse
      /\ \A c \in Chunks : mem[c + mem[c].size].left <=> c \in InUse
      /\ \A c \in Free : mem[(c + mem[c].size) - 4] = [size |-> mem[c].size, self |-> FALSE, left |-> FALSE]
      /\ mem[Guard].self /\ mem[Guard].size = 0
  BY DEF HeapInv, HeapSound, TagsTruthful, right
<1>3. /\ \A c \in Free : c \in Chunks /\ c + mem[c].size \notin Free
      /\ \A c \in InUse : c \in Chunks
      /\ \A c \in Chunks : c \in Free \/ c \in InUse
  BY DEF HeapInv, HeapSound, FreeChunksMerged, right, Chunks
<1>4. \A c \in Chunks \ {HEAP_START} : \E d \in Chunks : d + mem[d].size = c
  BY DEF HeapInv, Connected, right
<1> QED
  BY <1>1, <1>2, <1>3, <1>4

\* A user's words lie inside the user's chunk and hold what the user wrote.
LEMMA LiveFacts ==
    ASSUME HeapInv
    PROVE  \A c \in DOMAIN live :
              /\ c \in InUse /\ c \in Chunks /\ c # CACHED
              /\ live[c] \in Requests /\ live[c] \in Int
              /\ (c + 4) % 8 = 0 /\ live[c] <= mem[c].size - 4
              /\ \A w \in Payload(c, live[c]) :
                    w \in Addr /\ w \in Int /\ c < w /\ w < c + mem[c].size /\ mem[w] = Junk
<1> SUFFICES ASSUME NEW c \in DOMAIN live
             PROVE  /\ c \in InUse /\ c \in Chunks /\ c # CACHED
                    /\ live[c] \in Requests /\ live[c] \in Int
                    /\ (c + 4) % 8 = 0 /\ live[c] <= mem[c].size - 4
                    /\ \A w \in Payload(c, live[c]) :
                          w \in Addr /\ w \in Int /\ c < w /\ w < c + mem[c].size /\ mem[w] = Junk
  OBVIOUS
<1>1. c \in InUse /\ c \in Chunks /\ c # CACHED
  BY TagFacts DEF InUse, Chunks
<1>2. live[c] \in Requests
  BY DEF HeapInv, HeapTypeOK
<1>3. live[c] \in Int
  <2>1. \A r \in Requests : r \in Int
    BY RequestAssumption
  <2> QED BY <1>2, <2>1, Zenon
<1>4. /\ (c + 4) % 8 = 0 /\ live[c] <= mem[c].size - HDR_SIZE
      /\ \A w \in Payload(c, live[c]) : mem[w] = Junk
  BY DEF HeapInv, PayloadIntact
<1>5. live[c] <= mem[c].size - 4
  BY <1>3, <1>4 DEF HDR_SIZE
<1>6. c \in Int /\ mem[c].size \in Int
  BY <1>1, ChunkFacts
<1>7. ASSUME NEW w \in Payload(c, live[c])
      PROVE  w \in Addr /\ w \in Int /\ c < w /\ w < c + mem[c].size
  <2>1. live[c] + 4 <= mem[c].size
    BY <1>3, <1>5, <1>6
  <2>2. w \in Addr /\ w \in Int /\ c + 4 <= w /\ w < c + mem[c].size
    BY <1>3, <1>6, <2>1, PayloadInside
  <2> QED BY <1>6, <2>2
<1> QED
  BY <1>1, <1>2, <1>3, <1>4, <1>5, <1>7

(***************************************************************************)
(* merge_neighbor_if_possible: the merged chunk is the cached one with the *)
(* free neighbours, and has no free neighbour itself.                      *)
(***************************************************************************)
Merged(a) == {a} \union left_of(a) \union right_of(a)

\* What the left flag and the footer tell of the left neighbour is true.
LEMMA LeftNeighbour ==
    ASSUME HeapInv, CACHED # Null, ~mem[CACHED].left
    PROVE  left(mem, CACHED) \in Free /\ left(mem, CACHED) + mem[left(mem, CACHED)].size = CACHED
<1> DEFINE a == CACHED
<1>1. a \in Chunks /\ a \in InUse
  BY TagFacts DEF InUse
<1>2. a # HEAP_START
  BY TagFacts
<1>3. PICK l \in Chunks : l + mem[l].size = a
  BY <1>1, <1>2, TagFacts
<1>4. l \in Free
  BY <1>3, TagFacts
<1>5. mem[a - 4].size = mem[l].size
  <2>1. mem[(l + mem[l].size) - 4] = [size |-> mem[l].size, self |-> FALSE, left |-> FALSE]
    BY <1>4, TagFacts
  <2> QED BY <1>3, <2>1
<1>6. left(mem, a) = l
  <2>1. l \in Int /\ mem[l].size \in Int
    BY ChunkFacts
  <2> QED BY <1>3, <1>5, <2>1 DEF left
<1> QED
  BY <1>3, <1>4, <1>6

\* So does the header on the right.
LEMMA RightNeighbour ==
    ASSUME HeapInv, CACHED # Null
    PROVE  IF ~mem[right(mem, CACHED)].self
             THEN right(mem, CACHED) \in Free
             ELSE right(mem, CACHED) \in InUse \union {Guard}
<1>1. CACHED \in Chunks
  BY TagFacts DEF InUse
<1>2. right(mem, CACHED) \in Chunks \union {Guard}
  BY <1>1, ChunkFacts DEF right
<1> QED
  BY <1>2, TagFacts

LEMMA MergeFacts ==
    ASSUME HeapInv, CACHED # Null, NEW f, NEW S, NEW G,
           f = merged_hdr(CACHED), S = total_size(CACHED), G = Merged(CACHED)
    PROVE  /\ CACHED \in Chunks /\ CACHED \in InUse
           /\ \A c \in left_of(CACHED) \union right_of(CACHED) : c \in Free
           /\ f \in G /\ f \in Chunks
           /\ S \in Int /\ S >= 16 /\ S % 8 = 0
           /\ f + S \in InUse \union {Guard} /\ f + S # CACHED
           /\ \A c \in G : /\ c \in Chunks /\ f <= c /\ c + mem[c].size <= f + S
                           /\ c + mem[c].size \in G \union {f + S}
           /\ \A c \in Chunks \ G : c + mem[c].size <= f \/ f + S <= c
           /\ \A c \in Chunks \ G : c + mem[c].size \in G => c + mem[c].size = f
           /\ \A c \in Chunks : c + mem[c].size = f => c \in InUse /\ c \notin G
<1> DEFINE a == CACHED
           l == left(mem, a)
           r == a + mem[a].size
           lf == ~mem[a].left
           rf == ~mem[r].self
<1>1. a \in Chunks /\ a \in InUse
  BY TagFacts DEF InUse
<1>2. right(mem, a) = r
  BY DEF right
<1>3. /\ left_of(a) = IF lf THEN {l} ELSE {}
      /\ right_of(a) = IF rf THEN {r} ELSE {}
      /\ f = IF lf THEN l ELSE a
      /\ S = mem[a].size + (IF lf THEN mem[l].size ELSE 0) + (IF rf THEN mem[r].size ELSE 0)
  BY <1>2 DEF left_of, right_of, merged_hdr, total_size
<1>4. lf => l \in Free /\ l + mem[l].size = a
  BY LeftNeighbour
<1>5. IF rf THEN r \in Free ELSE r \in InUse \union {Guard}
  BY <1>2, RightNeighbour
<1>6. a \in Int /\ mem[a].size \in Int /\ mem[a].size >= 16 /\ mem[a].size % 8 = 0 /\ r \in Int
  BY <1>1, ChunkFacts
<1>7. lf => l \in Chunks /\ l \in Int /\ mem[l].size \in Int /\ mem[l].size >= 16 /\ mem[l].size % 8 = 0
  BY <1>4, ChunkFacts, TagFacts
<1>8. rf => r \in Chunks /\ mem[r].size \in Int /\ mem[r].size >= 16 /\ mem[r].size % 8 = 0
            /\ r + mem[r].size \in InUse \union {Guard}
  <2> HIDE DEF r
  <2>1. ASSUME rf PROVE r \in Chunks /\ r \in Free
    BY <1>5, <2>1, TagFacts
  <2>2. ASSUME rf PROVE r + mem[r].size \in InUse \union {Guard}
    <3>1. r + mem[r].size \in Chunks \union {Guard} /\ r + mem[r].size \notin Free
      BY <2>1, <2>2, ChunkFacts, TagFacts
    <3> QED BY <3>1, TagFacts
  <2> QED BY <2>1, <2>2, ChunkFacts
<1>9. G = {a} \union (IF lf THEN {l} ELSE {}) \union (IF rf THEN {r} ELSE {})
  BY <1>3 DEF Merged
<1> HIDE DEF a, l, lf, rf
<1>10. r = a + mem[a].size
  OBVIOUS
<1> HIDE DEF r
<1>11. \A c \in left_of(CACHED) \union right_of(CACHED) : c \in Free
  BY <1>3, <1>4, <1>5 DEF a
<1>12. f \in G /\ f \in Chunks /\ f \in Int /\ f <= a
  BY <1>1, <1>3, <1>4, <1>6, <1>7, <1>9
<1>13. S \in Int /\ S >= 16 /\ S % 8 = 0
  <2> DEFINE x == IF lf THEN mem[l].size ELSE 0
             y == IF rf THEN mem[r].size ELSE 0
             z == mem[a].size
  <2>1. x \in Int /\ x >= 0 /\ x % 8 = 0
    BY <1>7
  <2>2. y \in Int /\ y >= 0 /\ y % 8 = 0
    BY <1>8
  <2>3. z \in Int /\ z >= 16 /\ z % 8 = 0
    BY <1>6
  <2>4. S = z + x + y
    BY <1>3
  <2> HIDE DEF x, y, z
  <2> QED BY <2>1, <2>2, <2>3, <2>4
<1>14. f + S = IF rf THEN r + mem[r].size ELSE r
  <2> DEFINE x == IF lf THEN mem[l].size ELSE 0
             y == IF rf THEN mem[r].size ELSE 0
  <2>1. x \in Int /\ f + x = a
    BY <1>3, <1>4, <1>6, <1>7
  <2>2. y \in Int /\ r + y = IF rf THEN r + mem[r].size ELSE r
    BY <1>6, <1>8, <1>10
  <2>3. S = mem[a].size + x + y
    BY <1>3
  <2> HIDE DEF x, y
  <2>4. f + S = r + y
    BY <1>6, <1>10, <1>12, <2>1, <2>2, <2>3
  <2> QED BY <2>2, <2>4
<1>15. f + S \in InUse \union {Guard} /\ f + S # CACHED
  BY <1>5, <1>6, <1>8, <1>10, <1>14 DEF a
<1>16. ASSUME NEW c \in G
       PROVE  /\ c \in Chunks /\ f <= c /\ c + mem[c].size <= f + S
              /\ c + mem[c].size \in G \union {f + S}
  <2>1. CASE c = a
    BY <1>1, <1>6, <1>8, <1>9, <1>10, <1>12, <1>14, <2>1
  <2>2. CASE lf /\ c = l
    BY <1>3, <1>4, <1>6, <1>7, <1>8, <1>9, <1>10, <1>12, <1>14, <2>2
  <2>3. CASE rf /\ c = r
    BY <1>6, <1>8, <1>9, <1>10, <1>12, <1>14, <2>3
  <2> QED BY <1>9, <2>1, <2>2, <2>3
<1>17. ASSUME NEW c \in Chunks \ G
       PROVE  c + mem[c].size <= f \/ f + S <= c
  <2>0. c \in Int /\ mem[c].size \in Int /\ mem[c].size >= 16 /\ c # a
    BY <1>9, ChunkFacts
  <2>1. c + mem[c].size <= a \/ r <= c
    BY <1>1, <1>10, <2>0, ChunksApart
  <2>2. lf => c + mem[c].size <= l \/ a <= c
    BY <1>4, <1>7, <1>9, ChunksApart
  <2>3. rf => c + mem[c].size <= r \/ r + mem[r].size <= c
    BY <1>8, <1>9, ChunksApart
  <2>4. c + mem[c].size <= f \/ r <= c
    BY <1>3, <1>6, <1>7, <1>10, <2>0, <2>1, <2>2
  <2> QED BY <1>6, <1>8, <1>10, <1>14, <2>0, <2>3, <2>4
<1>18. ASSUME NEW c \in Chunks \ G, c + mem[c].size \in G
       PROVE  c + mem[c].size = f
  <2>1. c \in Int /\ mem[c].size \in Int /\ mem[c].size >= 16
    BY ChunkFacts
  <2>2. c + mem[c].size \in Int /\ f <= c + mem[c].size /\ c + mem[c].size < f + S
    <3> DEFINE d == c + mem[c].size
    <3>1. d \in Chunks /\ f <= d /\ d + mem[d].size <= f + S
      BY <1>16, <1>18
    <3> HIDE DEF d
    <3>2. d \in Int /\ mem[d].size \in Int /\ mem[d].size >= 16
      BY <3>1, ChunkFacts
    <3>3. d < f + S
      BY <1>12, <1>13, <3>1, <3>2
    <3> QED BY <3>1, <3>2, <3>3 DEF d
  <2> QED BY <1>12, <1>13, <1>17, <2>1, <2>2
<1>19. ASSUME NEW c \in Chunks, c + mem[c].size = f
       PROVE  c \in InUse /\ c \notin G
  <2>1. c \in Int /\ mem[c].size \in Int /\ mem[c].size >= 16
    BY ChunkFacts
  <2>2. c \notin G
    BY <1>12, <1>16, <1>19, <2>1
  <2>3. CASE lf
    <3>1. f \in Free
      BY <1>3, <1>4, <2>3
    <3> QED BY <1>19, <2>2, <3>1, TagFacts
  <2>4. CASE ~lf
    <3>1. f = a /\ mem[a].left
      BY <1>3, <2>4 DEF lf
    <3> QED BY <1>19, <2>2, <3>1, TagFacts
  <2> QED BY <2>3, <2>4
<1> QED
  BY <1>1, <1>11, <1>12, <1>13, <1>15, <1>16, <1>17, <1>18, <1>19 DEF a

(***************************************************************************)
(* The chunk that was cached is freed and merged with its free neighbours. *)
(***************************************************************************)
LEMMA FreeCachedKeeps ==
    ASSUME HeapInv, NEW new \in DOMAIN live, free_cached(new)
    PROVE  HeapInv'
<1> DEFINE a == CACHED
           f == merged_hdr(CACHED)
           S == total_size(CACHED)
           N == left_of(CACHED) \union right_of(CACHED)
           G == Merged(CACHED)
           e == f + S
           x == chunk_size_to_list_index(S)
           hdr == [size |-> S, self |-> FALSE, left |-> TRUE]
           ftr == [size |-> S, self |-> FALSE, left |-> FALSE]
<1>1. /\ CACHED # Null /\ CACHED' = new /\ live' = Freed(new)
      /\ CUR_ALLOC_SIZE' = CUR_ALLOC_SIZE - mem[a].size
      /\ mem' = freed_mem(f, S)
      /\ list' = link_chunk([i \in ListIndex |-> list[i] \ N], f, S)
      /\ UNCHANGED <<HIGH_WATER_MARK, MAX_ALLOC_SIZE, hung>>
  BY DEF free_cached
<1>2. /\ a \in Chunks /\ a \in InUse
      /\ \A c \in N : c \in Free
      /\ f \in G /\ f \in Chunks
      /\ S \in Int /\ S >= 16 /\ S % 8 = 0
      /\ e \in InUse \union {Guard} /\ e # a
      /\ \A c \in G : /\ c \in Chunks /\ f <= c /\ c + mem[c].size <= e
                      /\ c + mem[c].size \in G \union {e}
      /\ \A c \in Chunks \ G : c + mem[c].size <= f \/ e <= c
      /\ \A c \in Chunks \ G : c + mem[c].size \in G => c + mem[c].size = f
      /\ \A c \in Chunks : c + mem[c].size = f => c \in InUse /\ c \notin G
  BY <1>1, MergeFacts
<1>3. G = {a} \union N
  BY DEF Merged
<1>4. x \in ListIndex
  BY IndexType
<1>5. \A i \in ListIndex : list'[i] = (list[i] \ N) \union (IF i = x THEN {f} ELSE {})
  <2>1. link_to_ptr(ptr_to_link(f)) = f
    BY <1>2, ChunkFacts, LinkRoundTrip
  <2> HIDE DEF f, S, N
  <2> QED BY <1>1, <1>4, <2>1 DEF link_chunk
<1>6. list' \in [ListIndex -> SUBSET Addr]
  <2>1. f \in Addr
    BY <1>2, ChunkFacts
  <2>2. \A i \in ListIndex : list[i] \subseteq Addr
    BY DEF HeapInv, HeapTypeOK
  <2>3. list' = [i \in ListIndex |-> list'[i]]
    <3> HIDE DEF f, S, N
    <3> QED BY <1>1 DEF link_chunk
  <2> HIDE DEF f, S, N, x
  <2>4. \A i \in ListIndex : list'[i] \subseteq Addr
    BY <1>5, <2>1, <2>2
  <2> QED BY <2>3, <2>4
<1> HIDE DEF a, f, S, N, G, e, x
<1>7. e = f + S /\ f \in Int /\ e \in Int /\ f < e /\ f < e - 4 /\ f % 8 = 4 /\ e % 8 = 4 /\ f >= HEAP_START
  <2>1. f \in Int /\ f % 8 = 4 /\ f >= HEAP_START /\ f + S = e
    BY <1>2, ChunkFacts, HeapBounds DEF e
  <2> QED BY <1>2, <2>1
<1>8. f \in Addr /\ e \in Addr /\ e - 4 \in Addr /\ e <= Guard
  <2>1. e \in Chunks \union {Guard}
    BY <1>2, TagFacts
  <2>2. e <= Guard
    BY <2>1, ChunkFacts, AddrFacts, HeapBounds
  <2> QED BY <1>7, <2>2, AddrFacts, HeapBounds
<1>9. /\ mem' \in [Addr -> Word]
      /\ mem'[f] = hdr /\ mem'[e - 4] = ftr
      /\ mem'[e].size = mem[e].size /\ mem'[e].self = mem[e].self /\ ~mem'[e].left
      /\ \A w \in Addr \ {f, e - 4, e} : mem'[w] = mem[w]
  <2>1. mem \in [Addr -> Word]
    BY DEF HeapInv, HeapTypeOK
  <2>2. hdr \in Word /\ ftr \in Word
    BY <1>2 DEF Word
  <2> DEFINE g == [mem[e] EXCEPT !.left = FALSE]
  <2>3. g \in Word /\ g.size = mem[e].size /\ g.self = mem[e].self /\ ~g.left
    BY <1>8, <2>1, HeaderSet
  <2>4. mem' = [mem EXCEPT ![f] = hdr, ![e - 4] = ftr, ![e] = g]
    <3>1. f # e /\ e - 4 # e
      BY <1>7
    <3>2. mem' = [mem EXCEPT ![f] = hdr, ![e - 4] = ftr, ![e].left = FALSE]
      BY <1>1 DEF freed_mem, e
    <3> HIDE DEF hdr, ftr
    <3> QED BY <1>8, <2>1, <3>1, <3>2
  <2>5. f # e /\ f # e - 4 /\ e # e - 4
    BY <1>7
  <2> HIDE DEF g, hdr, ftr
  <2> QED BY <1>8, <2>1, <2>2, <2>3, <2>4, <2>5
<1>10. /\ mem'[f].size = S /\ ~mem'[f].self /\ mem'[f].left
  BY <1>9
<1>11. \A c \in Chunks \ G : /\ c \in Int /\ mem[c].size \in Int
                             /\ mem'[c].size = mem[c].size /\ mem'[c].self = mem[c].self
                             /\ c # e => mem'[c] = mem[c]
  <2> SUFFICES ASSUME NEW c \in Chunks \ G
               PROVE  /\ c \in Int /\ mem[c].size \in Int
                      /\ mem'[c].size = mem[c].size /\ mem'[c].self = mem[c].self
                      /\ c # e => mem'[c] = mem[c]
    OBVIOUS
  <2>1. c \in Int /\ c \in Addr /\ mem[c].size \in Int /\ mem[c].size >= 16
    BY ChunkFacts
  <2>2. c # f /\ c # e - 4
    <3>1. c + mem[c].size <= f \/ e <= c
      BY <1>2
    <3> QED BY <1>7, <2>1, <3>1
  <2> QED BY <1>9, <2>1, <2>2
<1>12. ASSUME NEW c \in Chunks \ G, NEW w \in Addr, c < w, w < c + mem[c].size
       PROVE  mem'[w] = mem[w]
  <2>1. c \in Int /\ mem[c].size \in Int /\ w \in Int
    BY ChunkFacts, AddrFacts
  <2>2. c + mem[c].size <= f \/ e <= c
    BY <1>2
  <2>3. w # f /\ w # e - 4 /\ w # e
    BY <1>7, <1>12, <2>1, <2>2
  <2> QED BY <1>9, <2>3
<1>13. \A c \in Free \ N : /\ c \in Chunks \ G
                           /\ mem'[(c + mem[c].size) - 4] = mem[(c + mem[c].size) - 4]
  <2> SUFFICES ASSUME NEW c \in Free \ N
               PROVE  /\ c \in Chunks \ G
                      /\ mem'[(c + mem[c].size) - 4] = mem[(c + mem[c].size) - 4]
    OBVIOUS
  <2>1. c \in Chunks \ G
    BY <1>2, <1>3, TagFacts
  <2> DEFINE z == (c + mem[c].size) - 4
  <2>2. z \in Addr /\ c < z /\ z < c + mem[c].size
    BY <2>1, ChunkFacts
  <2> HIDE DEF z
  <2>3. mem'[z] = mem[z]
    BY <1>12, <2>1, <2>2
  <2> QED BY <2>1, <2>3 DEF z
<1>14. DOMAIN live' = DOMAIN live \ {new} /\ \A c \in DOMAIN live' : live'[c] = live[c]
  BY <1>1 DEF Freed
<1>15. new \in Addr /\ new # Null /\ new # a /\ new \in InUse
  BY LiveFacts, ChunkFacts DEF a
<1>16. Free' = (Free \ N) \union {f}
  BY <1>4, <1>5 DEF Free
<1>17. InUse' = InUse \ {a}
  <2>1. InUse' = DOMAIN live' \union ({CACHED'} \ {Null})
    BY DEF InUse
  <2>2. InUse = DOMAIN live \union {a} /\ a \notin DOMAIN live
    BY <1>1, TagFacts DEF InUse, a
  <2> QED BY <1>1, <1>14, <1>15, <2>1, <2>2
<1>18. Chunks' = (Chunks \ G) \union {f}
  <2>1. Chunks' = Free' \union InUse'
    BY DEF Chunks
  <2>2. Chunks = Free \union InUse /\ a \notin Free
    BY <1>2, TagFacts DEF Chunks
  <2>3. \A c \in N : c \notin InUse
    BY <1>2, TagFacts
  <2> QED BY <1>2, <1>3, <1>16, <1>17, <2>1, <2>2, <2>3
<1>19. \A c \in InUse' : c \in Chunks \ G
  BY <1>2, <1>3, <1>17, TagFacts
<1>20. /\ \A c \in Chunks' : c = f \/ c \in Chunks \ G
       /\ \A c \in Free' : c = f \/ c \in Free \ N
       /\ f \notin InUse'
  <2>1. f \notin InUse'
    BY <1>2, <1>19
  <2> QED BY <1>16, <1>18, <2>1
<1>21. HeapTypeOK'
  <2>1. CUR_ALLOC_SIZE' \in Nat
    <3>1. CUR_ALLOC_SIZE = Cardinality(Bytes(mem, InUse))
      BY DEF HeapInv, HeapSound, AllocSizeExact
    <3>2. InUse = InUse' \union {a}
      BY <1>2, <1>17
    <3>3. /\ Cardinality(Bytes(mem', InUse')) \in Nat
          /\ Cardinality(Bytes(mem, InUse' \union {a})) = Cardinality(Bytes(mem', InUse')) + mem[a].size
      <4>1. a \in Int /\ mem[a].size \in Int /\ mem[a].size > 0 /\ HEAP_START <= a /\ a + mem[a].size <= Guard
        BY <1>2, ChunkFacts
      <4>2. ASSUME NEW c \in InUse'
            PROVE /\ c \in Int /\ mem'[c].size \in Int /\ mem[c].size = mem'[c].size
                  /\ c + mem'[c].size <= a \/ a + mem[a].size <= c
        <5>1. c \in Chunks \ G /\ c # a
          BY <1>3, <1>19
        <5> QED BY <1>2, <1>11, <5>1, ChunksApart
      <4>3. Beside(mem', mem, InUse', a, mem[a].size)
        BY <4>1, <4>2 DEF Beside
      <4>4. Adds(mem', mem, InUse', a, mem[a].size)
        BY <4>3, BytesAdd
      <4> QED BY <4>4 DEF Adds
    <3>4. mem[a].size \in Int
      BY <1>2, ChunkFacts
    <3> DEFINE k == Cardinality(Bytes(mem', InUse'))
    <3>5. k \in Nat /\ CUR_ALLOC_SIZE = k + mem[a].size
      BY <3>1, <3>2, <3>3
    <3> HIDE DEF k
    <3> QED BY <1>1, <3>4, <3>5
  <2>2. {HIGH_WATER_MARK', CUR_ALLOC_SIZE', MAX_ALLOC_SIZE'} \subseteq Nat
    BY <1>1, <2>1 DEF HeapInv, HeapTypeOK
  <2>3. CACHED' \in Addr \union {Null}
    BY <1>1, <1>15
  <2>4. DOMAIN live' \subseteq Addr /\ \A c \in DOMAIN live' : live'[c] \in Requests
    BY <1>14 DEF HeapInv, HeapTypeOK
  <2>5. hung' \in BOOLEAN
    BY <1>1 DEF HeapInv, HeapTypeOK
  <2> QED BY <1>6, <1>9, <2>2, <2>3, <2>4, <2>5 DEF HeapTypeOK
<1>22. ChunksTile'
  <2>1. (Free \intersect InUse)' = {}
    BY <1>2, <1>17, <1>20, TagFacts
  <2>2. CACHED' \notin DOMAIN live'
    BY <1>1, <1>14
  <2>3. HEAP_START \in Chunks'
    <3>1. HEAP_START \in Chunks
      BY TagFacts
    <3>2. CASE HEAP_START \in G
      <4>1. HEAP_START = f
        BY <1>2, <1>7, <3>2, HeapBounds
      <4> QED BY <1>18, <4>1
    <3> QED BY <1>18, <3>1, <3>2
  <2>4. ASSUME NEW c \in Chunks'
        PROVE  mem'[c].size >= 16 /\ c + mem'[c].size \in Chunks' \union {Guard}
    <3>1. CASE c = f
      <4>1. c + mem'[c].size = e
        BY <1>7, <1>10, <3>1
      <4>2. e \in InUse' \union {Guard}
        BY <1>2, <1>17
      <4>3. e \in Chunks' \union {Guard}
        BY <4>2 DEF Chunks
      <4> QED BY <1>2, <1>10, <3>1, <4>1, <4>3
    <3>2. CASE c \in Chunks \ G
      <4>1. mem'[c].size = mem[c].size /\ mem[c].size >= 16 /\ c + mem[c].size \in Chunks \union {Guard}
        BY <1>11, <3>2, ChunkFacts
      <4>2. c + mem[c].size \in G => c + mem[c].size = f
        BY <1>2, <3>2
      <4> QED BY <1>18, <4>1, <4>2
    <3> QED BY <1>20, <3>1, <3>2
  <2>5. ASSUME NEW c \in Chunks', NEW d \in Chunks', c < d
        PROVE  c + mem'[c].size <= d
    <3>1. CASE c = f /\ d \in Chunks \ G
      <4>1. d + mem[d].size <= f \/ e <= d
        BY <1>2, <3>1
      <4>2. d \in Int /\ mem[d].size \in Int /\ mem[d].size >= 16
        BY <3>1, ChunkFacts
      <4> QED BY <1>7, <1>10, <2>5, <3>1, <4>1, <4>2
    <3>2. CASE c \in Chunks \ G /\ d = f
      <4>1. c + mem[c].size <= f \/ e <= c
        BY <1>2, <3>2
      <4>2. c \in Int /\ mem'[c].size = mem[c].size
        BY <1>11, <3>2
      <4> QED BY <1>7, <2>5, <3>2, <4>1, <4>2
    <3>3. CASE c \in Chunks \ G /\ d \in Chunks \ G
      BY <1>11, <2>5, <3>3 DEF HeapInv, HeapSound, ChunksTile, right
    <3>4. CASE c = f /\ d = f
      BY <1>7, <2>5, <3>4
    <3> QED BY <1>20, <3>1, <3>2, <3>3, <3>4
  <2> QED BY <2>1, <2>2, <2>3, <2>4, <2>5 DEF ChunksTile, right
<1>23. TagsTruthful'
  <2>1. ASSUME NEW c \in Chunks' PROVE mem'[c].self <=> c \in InUse'
    <3>1. CASE c = f
      BY <1>10, <1>20, <3>1
    <3>2. CASE c \in Chunks \ G
      BY <1>3, <1>11, <1>17, <3>2, TagFacts
    <3> QED BY <1>20, <3>1, <3>2
  <2>2. mem'[HEAP_START].left
    <3>1. HEAP_START \in Chunks /\ mem[HEAP_START].left
      BY TagFacts
    <3>2. CASE HEAP_START \in G
      <4>1. HEAP_START = f
        BY <1>2, <1>7, <3>2, HeapBounds
      <4> QED BY <1>10, <4>1
    <3>3. CASE HEAP_START \notin G
      <4>1. HEAP_START # e
        BY <1>7, HeapBounds
      <4>2. mem'[HEAP_START] = mem[HEAP_START]
        BY <1>11, <3>1, <3>3, <4>1
      <4> QED BY <3>1, <4>2
    <3> QED BY <3>2, <3>3
  <2>3. ASSUME NEW c \in Chunks' PROVE mem'[c + mem'[c].size].left <=> c \in InUse'
    <3>1. CASE c = f
      <4>1. c + mem'[c].size = e
        BY <1>7, <1>10, <3>1
      <4> QED BY <1>9, <1>20, <3>1, <4>1
    <3>2. CASE c \in Chunks \ G
      <4> DEFINE d == c + mem[c].size
      <4>1. mem'[c].size = mem[c].size /\ d \in Chunks \union {Guard} /\ d \in Addr /\ d \in Int
        BY <1>11, <3>2, ChunkFacts, AddrFacts
      <4>2. mem[d].left <=> c \in InUse
        BY <3>2, TagFacts
      <4>3. c \in InUse <=> c \in InUse'
        BY <1>3, <1>17, <3>2
      <4>4. c + mem[c].size <= f \/ e <= c
        BY <1>2, <3>2
      <4>5. c \in Int /\ mem[c].size \in Int /\ mem[c].size >= 16
        BY <3>2, ChunkFacts
      <4>6. d # e /\ d # e - 4
        BY <1>7, <4>4, <4>5
      <4>7. d = f => c \in InUse
        BY <1>2, <3>2
      <4> HIDE DEF d
      <4>8. CASE d = f
        <5>1. mem'[d].left
          BY <1>10, <4>8
        <5>2. c + mem'[c].size = d
          BY <4>1 DEF d
        <5> QED BY <4>3, <4>7, <4>8, <5>1, <5>2
      <4>9. CASE d # f
        <5>1. mem'[d] = mem[d]
          BY <1>9, <4>1, <4>6, <4>9
        <5>2. c + mem'[c].size = d
          BY <4>1 DEF d
        <5> QED BY <4>2, <4>3, <5>1, <5>2
      <4> QED BY <4>8, <4>9
    <3> QED BY <1>20, <3>1, <3>2
  <2>4. ASSUME NEW c \in Free'
        PROVE  mem'[(c + mem'[c].size) - 4] = [size |-> mem'[c].size, self |-> FALSE, left |-> FALSE]
    <3>1. CASE c = f
      <4>1. (c + mem'[c].size) - 4 = e - 4
        BY <1>7, <1>10, <3>1
      <4> QED BY <1>9, <1>10, <3>1, <4>1
    <3>2. CASE c \in Free \ N
      <4>1. mem'[c].size = mem[c].size
        BY <1>11, <1>13, <3>2
      <4>2. mem'[(c + mem[c].size) - 4] = mem[(c + mem[c].size) - 4]
        BY <1>13, <3>2
      <4>3. mem[(c + mem[c].size) - 4] = [size |-> mem[c].size, self |-> FALSE, left |-> FALSE]
        BY <3>2, TagFacts
      <4> QED BY <4>1, <4>2, <4>3, Zenon
    <3> QED BY <1>20, <3>1, <3>2
  <2>5. mem'[Guard].self /\ mem'[Guard].size = 0
    <3>1. mem[Guard].self /\ mem[Guard].size = 0 /\ Guard \in Addr
      BY TagFacts, AddrFacts, HeapBounds
    <3>2. Guard # f /\ Guard # e - 4
      BY <1>7, <1>8, HeapBounds
    <3> QED BY <1>9, <3>1, <3>2
  <2> QED BY <2>1, <2>2, <2>3, <2>4, <2>5 DEF TagsTruthful, right
<1>24. FreeChunksMerged'
  <2>1. ASSUME NEW c \in Free' PROVE c + mem'[c].size \notin Free'
    <3>1. CASE c = f
      <4>1. c + mem'[c].size = e
        BY <1>7, <1>10, <3>1
      <4>2. e \notin Free
        <5>1. Guard \notin Free
          BY ChunkFacts, TagFacts, HeapBounds
        <5> QED BY <1>2, <5>1, TagFacts
      <4> QED BY <1>7, <1>20, <4>1, <4>2
    <3>2. CASE c \in Free \ N
      <4>1. mem'[c].size = mem[c].size /\ c \in Chunks
        BY <1>11, <1>13, <3>2
      <4>2. c + mem[c].size \notin Free /\ c \notin InUse
        BY <3>2, TagFacts
      <4>3. c + mem[c].size # f
        BY <1>2, <4>1, <4>2
      <4> QED BY <1>20, <4>1, <4>2, <4>3
    <3> QED BY <1>20, <3>1, <3>2
  <2>2. ASSUME NEW i \in ListIndex, NEW c \in list'[i]
        PROVE  chunk_size_to_list_index(mem'[c].size) = i
    <3>1. CASE c \in list[i] \ N
      <4>1. c \in Free \ N
        BY <3>1 DEF Free
      <4>2. mem'[c].size = mem[c].size
        BY <1>11, <1>13, <4>1
      <4> QED BY <3>1, <4>2 DEF HeapInv, HeapSound, FreeChunksMerged
    <3>2. CASE i = x /\ c = f
      BY <1>10, <3>2 DEF x
    <3> QED BY <1>5, <3>1, <3>2
  <2> QED BY <2>1, <2>2 DEF FreeChunksMerged, right
<1>25. AllocSizeExact'
  <2>1. /\ CUR_ALLOC_SIZE = Cardinality(Bytes(mem, InUse))
        /\ CUR_ALLOC_SIZE <= MAX_ALLOC_SIZE
        /\ \A c \in InUse : c + mem[c].size <= HIGH_WATER_MARK
    BY DEF HeapInv, HeapSound, AllocSizeExact, right
  <2>2. InUse = InUse' \union {a}
    BY <1>2, <1>17
  <2>3. a \in Int /\ mem[a].size \in Int /\ mem[a].size > 0 /\ HEAP_START <= a /\ a + mem[a].size <= Guard
    BY <1>2, ChunkFacts
  <2>4. /\ Cardinality(Bytes(mem', InUse')) \in Nat
        /\ Cardinality(Bytes(mem, InUse' \union {a})) = Cardinality(Bytes(mem', InUse')) + mem[a].size
    <3>1. ASSUME NEW c \in InUse'
          PROVE /\ c \in Int /\ mem'[c].size \in Int /\ mem[c].size = mem'[c].size
                /\ c + mem'[c].size <= a \/ a + mem[a].size <= c
      <4>1. c \in Chunks \ G /\ c # a
        BY <1>3, <1>19
      <4> QED BY <1>2, <1>11, <4>1, ChunksApart
    <3>2. Beside(mem', mem, InUse', a, mem[a].size)
      BY <2>3, <3>1 DEF Beside
    <3>3. Adds(mem', mem, InUse', a, mem[a].size)
      BY <3>2, BytesAdd
    <3> QED BY <3>3 DEF Adds
  <2> DEFINE k == Cardinality(Bytes(mem', InUse'))
  <2>5. k \in Nat /\ CUR_ALLOC_SIZE = k + mem[a].size
    BY <2>1, <2>2, <2>4
  <2>6. CUR_ALLOC_SIZE' = k
    <3> HIDE DEF k
    <3> QED BY <1>1, <2>3, <2>5
  <2>7. CUR_ALLOC_SIZE' <= MAX_ALLOC_SIZE'
    <3> HIDE DEF k
    <3>1. MAX_ALLOC_SIZE \in Nat /\ MAX_ALLOC_SIZE' = MAX_ALLOC_SIZE
      BY <1>1 DEF HeapInv, HeapTypeOK
    <3> QED BY <2>1, <2>3, <2>5, <2>6, <3>1
  <2>8. \A c \in InUse' : c + mem'[c].size <= HIGH_WATER_MARK'
    BY <1>1, <1>11, <1>17, <1>19, <2>1
  <2> QED BY <2>6, <2>7, <2>8 DEF AllocSizeExact, right
<1>26. PayloadIntact'
  <2> SUFFICES ASSUME NEW c \in DOMAIN live'
               PROVE  /\ (c + 4) % 8 = 0
                      /\ live'[c] <= mem'[c].size - HDR_SIZE
                      /\ \A w \in Payload(c, live'[c]) : mem'[w] = Junk
    BY DEF PayloadIntact
  <2>1. c \in DOMAIN live /\ live'[c] = live[c]
    BY <1>14
  <2>2. c \in Chunks \ G
    <3>1. c \in InUse /\ c \in Chunks /\ c # a
      BY <2>1, LiveFacts DEF a
    <3> QED BY <1>2, <1>3, <3>1, TagFacts
  <2>3. mem'[c].size = mem[c].size
    BY <1>11, <2>2
  <2>4. \A w \in Payload(c, live[c]) : mem'[w] = Junk
    BY <1>12, <2>1, <2>2, LiveFacts
  <2>5. live[c] <= mem[c].size - HDR_SIZE
    BY <2>1, LiveFacts DEF HDR_SIZE
  <2>6. (c + 4) % 8 = 0
    BY <2>1, LiveFacts
  <2> QED BY <2>1, <2>3, <2>4, <2>5, <2>6
<1>27. Aligned'
  <2> SUFFICES ASSUME NEW c \in Chunks' PROVE c % 8 = 4 /\ mem'[c].size % 8 = 0
    BY DEF Aligned
  <2>1. CASE c = f
    BY <1>2, <1>7, <1>10, <2>1
  <2>2. CASE c \in Chunks \ G
    BY <1>11, <2>2, ChunkFacts
  <2> QED BY <1>20, <2>1, <2>2
<1>28. Connected'
  <2> SUFFICES ASSUME NEW c \in Chunks' \ {HEAP_START} PROVE \E d \in Chunks' : d + mem'[d].size = c
    BY DEF Connected, right
  <2>1. c \in Chunks
    BY <1>2, <1>20
  <2>2. PICK d \in Chunks : d + mem[d].size = c
    BY <2>1, TagFacts
  <2>3. CASE d \in G
    <3>1. c \in G \union {e}
      BY <1>2, <2>2, <2>3
    <3>2. CASE c = e
      BY <1>7, <1>10, <1>18, <3>2
    <3>3. CASE c \in G /\ c # e
      <4>1. c = f
        BY <1>20, <3>3
      <4>2. d \notin G
        BY <1>2, <2>2, <4>1
      <4> QED BY <2>3, <4>2
    <3> QED BY <3>1, <3>2, <3>3
  <2>4. CASE d \notin G
    BY <1>11, <1>18, <2>2, <2>4
  <2> QED BY <2>3, <2>4
<1> QED
  BY <1>21, <1>22, <1>23, <1>24, <1>25, <1>26, <1>27, <1>28 DEF HeapInv, HeapSound

(***************************************************************************)
(* The memory after a free chunk a was taken, split if the excess is       *)
(* large enough, and written to by its user.  b is the size it has then.   *)
(***************************************************************************)
\* return_excess_to_free_list: what it writes.
LEMMA ExcessMem ==
    ASSUME HeapInv, NEW a \in Chunks, NEW s \in Int, s >= 16, s % 8 = 0, s <= mem[a].size,
           NEW b, b = IF Excess(a, s) THEN s ELSE mem[a].size,
           NEW p, p = excess_mem(a, s)
    PROVE  /\ b \in Int /\ b >= s /\ b % 8 = 0 /\ b <= mem[a].size
           /\ a + b \in Addr
           /\ IF Excess(a, s) THEN b + 16 <= mem[a].size ELSE b = mem[a].size
           /\ p \in [Addr -> Word]
           /\ p[a].size = b
           /\ Excess(a, s) =>
                 /\ p[a + b] = [size |-> mem[a].size - b, self |-> FALSE, left |-> FALSE]
                 /\ p[(a + mem[a].size) - 4] = [size |-> mem[a].size - b, self |-> FALSE, left |-> FALSE]
                 /\ \A w \in Addr \ {a, a + b, (a + mem[a].size) - 4} : p[w] = mem[w]
           /\ ~Excess(a, s) => p = mem
<1> DEFINE T == mem[a].size
           n == a + s
           z == (a + T) - 4
           ftr == [size |-> T - s, self |-> FALSE, left |-> FALSE]
<1>1. /\ a \in Int /\ a \in Addr /\ HEAP_START <= a /\ a % 8 = 4 /\ T \in Int /\ T >= 16 /\ T % 8 = 0
      /\ a + T \in Addr /\ (a + T) - 4 \in Addr /\ a + T <= Guard
  BY ChunkFacts
<1>2. mem \in [Addr -> Word]
  BY DEF HeapInv, HeapTypeOK
<1>3. CASE Excess(a, s)
  <2>1. b = s /\ T >= s + 12
    BY <1>3 DEF Excess, FREE_CHUNK_MIN_SIZE
  <2>2. s + 16 <= T
    <3> HIDE DEF T
    <3>1. (T - s) % 8 = 0 /\ T - s >= 12
      BY <1>1, <2>1
    <3> QED BY <1>1, <3>1
  <2>3. n \in Addr
    <3> HIDE DEF T
    <3>1. n \in Int /\ n % 8 = 4 /\ HEAP_START <= n /\ n <= Guard
      BY <1>1, <2>2, HeapBounds
    <3> HIDE DEF n
    <3> QED BY <3>1, AddrFacts
  <2>4. n \in Int /\ z \in Int /\ a < n /\ n < z /\ n + (T - s) = a + T
    BY <1>1, <2>2
  <2> DEFINE m0 == [mem EXCEPT ![n] = ftr, ![(n + (T - s)) - 4] = ftr]
  <2>5. p = [m0 EXCEPT ![a].size = s]
    BY <1>3 DEF excess_mem, set_free_chunk_hdr_ftr
  <2>6. ftr \in Word
    BY <1>1, <2>2 DEF Word
  <2>7. m0 \in [Addr -> Word] /\ m0[a] = mem[a] /\ m0[n] = ftr /\ m0[z] = ftr
        /\ \A w \in Addr \ {n, z} : m0[w] = mem[w]
    <3>1. (n + (T - s)) - 4 = z
      BY <1>1, <2>4
    <3>2. m0 = [mem EXCEPT ![n] = ftr, ![z] = ftr]
      <4> HIDE DEF z, n, ftr
      <4> QED BY <3>1
    <3> HIDE DEF m0, ftr, n, z
    <3> QED BY <1>1, <1>2, <2>3, <2>4, <2>6, <3>2 DEF z
  <2> DEFINE h == [m0[a] EXCEPT !.size = s]
  <2>8. h \in Word /\ h.size = s
    <3> HIDE DEF m0
    <3>1. m0[a] \in Word /\ s \in Nat
      BY <1>1, <2>7
    <3> QED BY <3>1, SizeSet
  <2>9. p = [m0 EXCEPT ![a] = h]
    <3> HIDE DEF m0
    <3> QED BY <2>5
  <2>10. /\ p \in [Addr -> Word] /\ p[a].size = s /\ p[n] = ftr /\ p[z] = ftr
         /\ \A w \in Addr \ {a, n, z} : p[w] = mem[w]
    <3>1. a # n /\ a # z /\ z \in Addr
      BY <1>1, <2>4
    <3> HIDE DEF m0, h, n, z, ftr
    <3>2. p \in [Addr -> Word] /\ p[a] = h /\ \A w \in Addr \ {a} : p[w] = m0[w]
      BY <1>1, <2>7, <2>8, <2>9
    <3> QED BY <2>3, <2>7, <2>8, <3>1, <3>2
  <2> HIDE DEF m0, h, ftr, n, z
  <2>11. /\ p[a + b] = [size |-> T - b, self |-> FALSE, left |-> FALSE]
         /\ p[(a + T) - 4] = [size |-> T - b, self |-> FALSE, left |-> FALSE]
         /\ \A w \in Addr \ {a, a + b, (a + T) - 4} : p[w] = mem[w]
    BY <2>1, <2>10 DEF n, z, ftr
  <2>12. a + b \in Addr
    BY <2>1, <2>3 DEF n
  <2> QED BY <1>1, <1>3, <2>1, <2>2, <2>10, <2>11, <2>12
<1>4. CASE ~Excess(a, s)
  <2>1. b = T /\ p = mem
    BY <1>4 DEF excess_mem
  <2> QED BY <1>1, <1>2, <1>4, <2>1
<1> QED
  BY <1>3, <1>4

\* The flags, then what the user writes.
LEMMA TakenMem ==
    ASSUME NEW p \in [Addr -> Word], NEW a \in Addr, NEW request \in Int, NEW b \in Int,
           p[a].size = b, b >= 16, a + b \in Addr, request + 4 <= b,
           NEW q, q = UserWrites(set_allocated(p, a), a, request)
    PROVE  /\ set_allocated(p, a)[a].size = b
           /\ q \in [Addr -> Word]
           /\ q[a].size = b /\ q[a].self /\ q[a].left
           /\ q[a + b].size = p[a + b].size /\ q[a + b].self = p[a + b].self /\ q[a + b].left
           /\ \A w \in Payload(a, request) : q[w] = Junk
           /\ \A w \in Addr : (w <= a \/ a + b < w) /\ w # a => q[w] = p[w]
<1> DEFINE n == a + b
           m == set_allocated(p, a)
<1>1. a \in Int /\ n \in Int /\ n \in Addr /\ a < n /\ a # n
  BY AddrFacts
<1> DEFINE h == [p[a] EXCEPT !.self = TRUE]
           g == [h EXCEPT !.left = TRUE]
           k == [p[n] EXCEPT !.left = TRUE]
<1>2. h \in Word /\ h.size = b /\ h.self
  <2>1. p[a] \in Word
    OBVIOUS
  <2> QED BY <2>1, HeaderSet
<1>3. g \in Word /\ g.size = b /\ g.self /\ g.left
  <2> HIDE DEF h
  <2>1. g \in Word /\ g.size = h.size /\ g.self = h.self /\ g.left
    BY <1>2, HeaderSet
  <2> HIDE DEF g
  <2> QED BY <1>2, <2>1
<1>4. k \in Word /\ k.size = p[n].size /\ k.self = p[n].self /\ k.left
  <2>1. p[n] \in Word
    BY <1>1
  <2> HIDE DEF n
  <2> QED BY <2>1, HeaderSet
<1>5. m = [p EXCEPT ![a] = g, ![n] = k]
  <2>1. right(p, a) = n
    BY DEF right
  <2> HIDE DEF n
  <2>2. m = [p EXCEPT ![a].self = TRUE, ![a].left = TRUE, ![n].left = TRUE]
    BY <2>1 DEF set_allocated
  <2>3. [p EXCEPT ![a] = h][a] = h
    OBVIOUS
  <2> DEFINE p1 == [p EXCEPT ![a] = h]
             p2 == [p1 EXCEPT ![a] = [p1[a] EXCEPT !.left = TRUE]]
  <2>4. m = [p2 EXCEPT ![n] = [p2[n] EXCEPT !.left = TRUE]]
    BY <2>2
  <2>5. p2 = [p1 EXCEPT ![a] = g]
    BY <2>3
  <2> HIDE DEF p2, g, h
  <2>6. p1 \in [Addr -> Word]
    BY <1>2
  <2> HIDE DEF p1
  <2>7. p2 \in [Addr -> Word] /\ p2[n] = p[n]
    <3>1. p1[n] = p[n]
      BY <1>1 DEF p1
    <3> QED BY <1>1, <1>3, <2>5, <2>6, <3>1
  <2>8. m = [p2 EXCEPT ![n] = k]
    BY <2>4, <2>7
  <2> HIDE DEF k, m
  <2>9. \A w \in Addr : m[w] = IF w = n THEN k ELSE IF w = a THEN g ELSE p[w]
    BY <1>1, <1>3, <1>4, <2>5, <2>6, <2>7, <2>8 DEF p1
  <2>10. m \in [Addr -> Word]
    BY <1>1, <1>4, <2>7, <2>8
  <2> QED BY <1>1, <1>3, <1>4, <2>9, <2>10
<1> HIDE DEF h, g, k, m
<1>6. /\ m \in [Addr -> Word] /\ m[a] = g /\ m[n] = k
      /\ \A w \in Addr \ {a, n} : m[w] = p[w]
  <2> HIDE DEF n
  <2> QED BY <1>1, <1>3, <1>4, <1>5
<1>7. /\ q \in [Addr -> Word]
      /\ \A w \in Addr : q[w] = IF w \in Payload(a, request) THEN Junk ELSE m[w]
  BY <1>6, JunkAssumption DEF UserWrites, m
<1>8. \A w \in Payload(a, request) : w \in Addr /\ w \in Int /\ a < w /\ w < n
  <2> SUFFICES ASSUME NEW w \in Payload(a, request) PROVE w \in Addr /\ w \in Int /\ a < w /\ w < n
    OBVIOUS
  <2>1. w \in Addr /\ w \in Int /\ a + 4 <= w /\ w < a + b
    BY <1>1, PayloadInside
  <2> QED BY <1>1, <2>1
<1>9. a \notin Payload(a, request) /\ n \notin Payload(a, request)
  BY <1>1, <1>8
<1>10. ASSUME NEW w \in Addr, w <= a \/ n < w, w # a PROVE q[w] = p[w]
  <2>1. w \in Int
    BY AddrFacts
  <2>2. w \notin Payload(a, request) /\ w # n
    BY <1>1, <1>8, <1>10, <2>1
  <2> QED BY <1>6, <1>7, <1>10, <2>2
<1>11. q[a] = g /\ q[n] = k
  BY <1>1, <1>6, <1>7, <1>9
<1>12. \A w \in Payload(a, request) : q[w] = Junk
  BY <1>7, <1>8
<1> QED
  BY <1>3, <1>4, <1>6, <1>7, <1>10, <1>11, <1>12 DEF m

(***************************************************************************)
(* A free chunk is taken, and split if the excess makes a chunk.           *)
(***************************************************************************)
LEMMA FirstFitKeeps ==
    ASSUME HeapInv, NEW request \in Requests, malloc_first_fit(request)
    PROVE  HeapInv'
<1> DEFINE s == chunk_size(request)
<1>1. /\ s \in Int /\ s >= 16 /\ s % 8 = 0
      /\ request \in Int /\ request > 0 /\ request + 4 <= s
  BY ChunkSizeFits
<1>2. PICK a \in search_first_fit(s) :
         /\ mem' = UserWrites(set_allocated(excess_mem(a, s), a), a, request)
         /\ list' = excess_list(unlink_chunk(list, a), a, s)
         /\ HIGH_WATER_MARK' = Max({HIGH_WATER_MARK, right(set_allocated(excess_mem(a, s), a), a)})
         /\ CUR_ALLOC_SIZE' = CUR_ALLOC_SIZE + set_allocated(excess_mem(a, s), a)[a].size
         /\ live' = Taken(a, request)
  BY DEF malloc_first_fit
<1>3. /\ MAX_ALLOC_SIZE' = Max({MAX_ALLOC_SIZE, CUR_ALLOC_SIZE'})
      /\ UNCHANGED <<CACHED, hung>>
  BY DEF malloc_first_fit
<1>4. a \in Free /\ mem[a].size >= s
  BY FitSound DEF HeapInv
<1>5. a \in Chunks /\ a \notin InUse /\ a \notin DOMAIN live
  BY <1>4, TagFacts DEF InUse
<1> DEFINE T == mem[a].size
           E == Excess(a, s)
           b == IF E THEN s ELSE T
           n == a + b
           r == a + T
           z == r - 4
           p == excess_mem(a, s)
           x == chunk_size_to_list_index(T - b)
<1>6. /\ a \in Int /\ a \in Addr /\ HEAP_START <= a /\ a % 8 = 4 /\ a # Null
      /\ T \in Int /\ T >= 16 /\ T % 8 = 0
      /\ r \in Addr /\ z \in Addr /\ r % 8 = 4 /\ r <= Guard /\ r \in Chunks \union {Guard}
  BY <1>5, ChunkFacts
<1>7. s <= T
  BY <1>1, <1>4, <1>6
<1>8. /\ b \in Int /\ b >= s /\ b % 8 = 0 /\ b <= T
      /\ n \in Addr
      /\ IF E THEN b + 16 <= T ELSE b = T
      /\ p \in [Addr -> Word] /\ p[a].size = b
      /\ E => /\ p[n] = [size |-> T - b, self |-> FALSE, left |-> FALSE]
              /\ p[z] = [size |-> T - b, self |-> FALSE, left |-> FALSE]
              /\ \A w \in Addr \ {a, n, z} : p[w] = mem[w]
      /\ ~E => p = mem
  <2> HIDE DEF s, p
  <2>1. b = IF Excess(a, s) THEN s ELSE mem[a].size
    OBVIOUS
  <2>2. p = excess_mem(a, s)
    BY DEF p
  <2> HIDE DEF b
  <2> QED BY <1>1, <1>5, <1>7, <2>1, <2>2, ExcessMem
<1>9. request + 4 <= b /\ b >= 16
  <2> HIDE DEF b, s
  <2> QED BY <1>1, <1>8
<1>10. /\ set_allocated(p, a)[a].size = b
       /\ mem' \in [Addr -> Word]
       /\ mem'[a].size = b /\ mem'[a].self /\ mem'[a].left
       /\ mem'[n].size = p[n].size /\ mem'[n].self = p[n].self /\ mem'[n].left
       /\ \A w \in Payload(a, request) : mem'[w] = Junk
       /\ \A w \in Addr : (w <= a \/ n < w) /\ w # a => mem'[w] = p[w]
  <2>1. mem' = UserWrites(set_allocated(p, a), a, request)
    BY <1>2
  <2>2. a + b \in Addr /\ b \in Int /\ p \in [Addr -> Word] /\ p[a].size = b
    BY <1>8
  <2> HIDE DEF p, b
  <2>3. a \in Addr /\ request \in Int
    BY <1>1, <1>6
  <2> QED BY <1>9, <2>1, <2>2, <2>3, TakenMem
<1>11. /\ HIGH_WATER_MARK' = Max({HIGH_WATER_MARK, n})
       /\ CUR_ALLOC_SIZE' = CUR_ALLOC_SIZE + b
  <2>1. right(set_allocated(p, a), a) = n
    <3> HIDE DEF p, b
    <3> QED BY <1>10 DEF right
  <2> QED BY <1>2, <1>10, <2>1
<1>12. list' = IF E THEN link_chunk(unlink_chunk(list, a), n, T - b) ELSE unlink_chunk(list, a)
  BY <1>2 DEF excess_list
<1>13. x \in ListIndex
  BY IndexType
<1> HIDE DEF s, T, E, b, n, r, z, p, x
<1>14. /\ n = a + b /\ r = a + T /\ z = r - 4 /\ n \in Int /\ r \in Int /\ z \in Int
       /\ a < n /\ n <= r /\ n % 8 = 4
       /\ E => n < z /\ z < r /\ n + (T - b) = r /\ T - b >= 16 /\ (T - b) % 8 = 0
       /\ ~E => n = r
  <2>1. n = a + b /\ r = a + T /\ z = r - 4
    BY DEF n, r, z
  <2> QED BY <1>6, <1>8, <1>9, <2>1
<1>15. \A i \in ListIndex : list'[i] = (list[i] \ {a}) \union (IF E /\ i = x THEN {n} ELSE {})
  <2>1. E => link_to_ptr(ptr_to_link(n)) = n
    BY <1>8, LinkRoundTrip
  <2> QED BY <1>12, <1>13, <2>1 DEF link_chunk, unlink_chunk, x
<1>16. list' \in [ListIndex -> SUBSET Addr]
  <2>1. list' = [i \in ListIndex |-> list'[i]]
    BY <1>12 DEF link_chunk, unlink_chunk
  <2>2. \A i \in ListIndex : list[i] \subseteq Addr
    BY DEF HeapInv, HeapTypeOK
  <2>3. \A i \in ListIndex : list'[i] \subseteq Addr
    BY <1>8, <1>15, <2>2
  <2> QED BY <2>1, <2>3
<1>17. /\ E => /\ mem'[n].size = T - b /\ ~mem'[n].self /\ mem'[n].left
               /\ mem'[z] = [size |-> T - b, self |-> FALSE, left |-> FALSE]
       /\ ~E => mem'[n].size = mem[n].size /\ mem'[n].self = mem[n].self /\ mem'[n].left
       /\ \A w \in Addr : w < a \/ (n < w /\ (E => w # z)) => mem'[w] = mem[w]
  <2>1. E => mem'[n].size = T - b /\ ~mem'[n].self /\ mem'[n].left
    BY <1>8, <1>10
  <2>2. E => mem'[z] = [size |-> T - b, self |-> FALSE, left |-> FALSE]
    <3>1. E => mem'[z] = p[z]
      BY <1>6, <1>10, <1>14
    <3> QED BY <1>8, <3>1
  <2>3. ~E => mem'[n].size = mem[n].size /\ mem'[n].self = mem[n].self /\ mem'[n].left
    BY <1>8, <1>10
  <2>4. ASSUME NEW w \in Addr, w < a \/ (n < w /\ (E => w # z)) PROVE mem'[w] = mem[w]
    <3>1. w \in Int
      BY AddrFacts
    <3>2. mem'[w] = p[w] /\ w # a /\ w # n
      BY <1>6, <1>10, <1>14, <2>4, <3>1
    <3>3. E => w # z
      BY <1>6, <1>14, <2>4, <3>1
    <3> QED BY <1>8, <3>2, <3>3
  <2> QED BY <2>1, <2>2, <2>3, <2>4
<1>18. \A h \in Chunks \ {a} : /\ h \in Addr /\ h \in Int /\ mem[h].size \in Int
                               /\ mem'[h].size = mem[h].size /\ mem'[h].self = mem[h].self
                               /\ h # n => mem'[h] = mem[h]
                               /\ E => h # n
                               /\ h + mem[h].size <= a \/ r <= h
  <2> SUFFICES ASSUME NEW h \in Chunks \ {a}
               PROVE  /\ h \in Addr /\ h \in Int /\ mem[h].size \in Int
                      /\ mem'[h].size = mem[h].size /\ mem'[h].self = mem[h].self
                      /\ h # n => mem'[h] = mem[h]
                      /\ E => h # n
                      /\ h + mem[h].size <= a \/ r <= h
    OBVIOUS
  <2>1. h \in Addr /\ h \in Int /\ mem[h].size \in Int /\ mem[h].size >= 16
    BY ChunkFacts
  <2>2. h + mem[h].size <= a \/ r <= h
    BY <1>5, ChunksApart DEF r, T
  <2>3. E => h # n
    BY <1>6, <1>14, <2>1, <2>2
  <2>4. h # n => mem'[h] = mem[h]
    <3> SUFFICES ASSUME h # n PROVE mem'[h] = mem[h]
      OBVIOUS
    <3>1. h < a \/ (n < h /\ (E => h # z))
      BY <1>6, <1>14, <2>1, <2>2
    <3> QED BY <1>17, <2>1, <3>1
  <2>5. h = n => mem'[h].size = mem[h].size /\ mem'[h].self = mem[h].self
    BY <1>17, <2>3
  <2> QED BY <2>1, <2>2, <2>3, <2>4, <2>5
<1>19. ASSUME NEW c \in Chunks \ {a}, NEW w \in Addr, c < w, w < c + mem[c].size
       PROVE  mem'[w] = mem[w]
  <2>1. c \in Int /\ mem[c].size \in Int /\ w \in Int
    BY ChunkFacts, AddrFacts
  <2>2. c + mem[c].size <= a \/ r <= c
    BY <1>18
  <2>3. w < a \/ (n < w /\ (E => w # z))
    BY <1>6, <1>14, <1>19, <2>1, <2>2
  <2> QED BY <1>17, <2>3
<1>20. mem'[Guard].self /\ mem'[Guard].size = 0
  <2>1. mem[Guard].self /\ mem[Guard].size = 0 /\ Guard \in Addr /\ Guard \in Int
    BY TagFacts, AddrFacts, HeapBounds
  <2>2. CASE Guard = n
    <3>1. ~E
      BY <1>6, <1>14, <2>1, <2>2
    <3> QED BY <1>17, <2>1, <2>2, <3>1
  <2>3. CASE Guard # n
    <3>1. n < Guard /\ (E => Guard # z)
      BY <1>6, <1>14, <2>1, <2>3
    <3> QED BY <1>17, <2>1, <3>1
  <2> QED BY <2>2, <2>3
<1>21. DOMAIN live' = DOMAIN live \union {a} /\ live'[a] = request
       /\ \A c \in DOMAIN live : live'[c] = live[c]
  BY <1>2, <1>5 DEF Taken
<1>22. Free' = (Free \ {a}) \union (IF E THEN {n} ELSE {})
  BY <1>13, <1>15 DEF Free
<1>23. InUse' = InUse \union {a}
  BY <1>3, <1>21 DEF InUse
<1>24. Chunks' = Chunks \union (IF E THEN {n} ELSE {})
  <2>1. Chunks' = Free' \union InUse'
    BY DEF Chunks
  <2> QED BY <1>4, <1>22, <1>23, <2>1 DEF Chunks
<1>25. /\ \A c \in Chunks' : c = a \/ (E /\ c = n) \/ c \in Chunks \ {a}
       /\ \A c \in Free' : (E /\ c = n) \/ (c \in Free /\ c \in Chunks \ {a})
       /\ \A c \in InUse : c \in Chunks \ {a}
       /\ E => n \notin InUse'
  <2>1. \A c \in InUse : c \in Chunks \ {a}
    BY <1>5, TagFacts
  <2>2. E => n \notin InUse'
    BY <1>14, <1>18, <1>23, <2>1
  <2> QED BY <1>22, <1>24, <2>1, <2>2, TagFacts
<1>26. /\ Cardinality(Bytes(mem, InUse)) \in Nat
       /\ Cardinality(Bytes(mem', InUse')) = Cardinality(Bytes(mem, InUse)) + b
  <2>1. ASSUME NEW c \in InUse
        PROVE /\ c \in Int /\ mem[c].size \in Int /\ mem'[c].size = mem[c].size
              /\ c + mem[c].size <= a \/ a + b <= c
    <3>1. c \in Chunks \ {a}
      BY <1>25
    <3> QED BY <1>6, <1>14, <1>18, <3>1
  <2>2. a \in Int /\ b \in Int /\ b > 0 /\ HEAP_START <= a /\ a + b <= Guard
    BY <1>6, <1>8, <1>9, <1>14, HeapBounds
  <2>3. mem'[a].size = b
    BY <1>10
  <2>4. Cardinality(Bytes(mem, InUse)) \in Nat
        /\ Cardinality(Bytes(mem', InUse \union {a})) = Cardinality(Bytes(mem, InUse)) + b
    <3>1. Beside(mem, mem', InUse, a, b)
      BY <2>1, <2>2, <2>3 DEF Beside
    <3>2. Adds(mem, mem', InUse, a, b)
      BY <3>1, BytesAdd
    <3> QED BY <3>2 DEF Adds
  <2> QED BY <1>23, <2>4
<1>27. /\ CUR_ALLOC_SIZE \in Nat /\ CUR_ALLOC_SIZE' \in Nat
       /\ MAX_ALLOC_SIZE' \in Nat /\ CUR_ALLOC_SIZE' <= MAX_ALLOC_SIZE'
       /\ HIGH_WATER_MARK' \in Nat /\ HIGH_WATER_MARK \in Nat
       /\ HIGH_WATER_MARK <= HIGH_WATER_MARK' /\ n <= HIGH_WATER_MARK'
  <2>1. CUR_ALLOC_SIZE \in Nat /\ MAX_ALLOC_SIZE \in Nat /\ HIGH_WATER_MARK \in Nat
    BY DEF HeapInv, HeapTypeOK
  <2>2. CUR_ALLOC_SIZE' \in Nat
    BY <1>8, <1>9, <1>11, <2>1
  <2>3. n \in Nat
    BY <1>6, <1>14, HeapBounds
  <2>4. \A k, l \in Nat : Max({k, l}) \in Nat /\ k <= Max({k, l}) /\ l <= Max({k, l})
    BY MaxOfTwo
  <2>5. MAX_ALLOC_SIZE' \in Nat /\ CUR_ALLOC_SIZE' <= MAX_ALLOC_SIZE'
    BY <1>3, <2>1, <2>2, <2>4, Zenon
  <2>6. HIGH_WATER_MARK' \in Nat /\ HIGH_WATER_MARK <= HIGH_WATER_MARK' /\ n <= HIGH_WATER_MARK'
    BY <1>11, <2>1, <2>3, <2>4, Zenon
  <2> QED BY <2>1, <2>2, <2>5, <2>6
<1>28. HeapTypeOK'
  <2>1. {HIGH_WATER_MARK', CUR_ALLOC_SIZE', MAX_ALLOC_SIZE'} \subseteq Nat
    BY <1>27
  <2>2. CACHED' \in Addr \union {Null} /\ hung' \in BOOLEAN
    BY <1>3 DEF HeapInv, HeapTypeOK
  <2>3. DOMAIN live' \subseteq Addr /\ \A c \in DOMAIN live' : live'[c] \in Requests
    BY <1>6, <1>21 DEF HeapInv, HeapTypeOK
  <2> QED BY <1>10, <1>16, <2>1, <2>2, <2>3 DEF HeapTypeOK
<1>29. AllocSizeExact'
  <2>1. /\ CUR_ALLOC_SIZE = Cardinality(Bytes(mem, InUse))
        /\ \A c \in InUse : c + mem[c].size <= HIGH_WATER_MARK
    BY DEF HeapInv, HeapSound, AllocSizeExact, right
  <2>2. CUR_ALLOC_SIZE' = Cardinality(Bytes(mem', InUse'))
    BY <1>11, <1>26, <2>1
  <2>3. ASSUME NEW c \in InUse' PROVE c + mem'[c].size <= HIGH_WATER_MARK'
    <3>1. CASE c = a
      BY <1>10, <1>14, <1>27, <3>1
    <3>2. CASE c \in InUse
      <4>1. c \in Int /\ mem[c].size \in Int /\ mem'[c].size = mem[c].size
        BY <1>18, <1>25, <3>2
      <4> QED BY <1>27, <2>1, <3>2, <4>1
    <3> QED BY <1>23, <3>1, <3>2
  <2> QED BY <1>27, <2>2, <2>3 DEF AllocSizeExact, right
<1>30. PayloadIntact'
  <2> SUFFICES ASSUME NEW c \in DOMAIN live'
               PROVE  /\ (c + 4) % 8 = 0
                      /\ live'[c] <= mem'[c].size - HDR_SIZE
                      /\ \A w \in Payload(c, live'[c]) : mem'[w] = Junk
    BY DEF PayloadIntact
  <2>1. CASE c = a
    BY <1>1, <1>6, <1>8, <1>9, <1>10, <1>21, <2>1 DEF HDR_SIZE
  <2>2. CASE c \in DOMAIN live
    <3>1. c \in Chunks \ {a} /\ live'[c] = live[c]
      BY <1>21, <1>25, <2>2, LiveFacts
    <3>2. mem'[c].size = mem[c].size
      BY <1>18, <3>1
    <3>3. \A w \in Payload(c, live[c]) : mem'[w] = Junk
      BY <1>19, <2>2, <3>1, LiveFacts
    <3>4. live[c] <= mem[c].size - HDR_SIZE
      BY <2>2, LiveFacts DEF HDR_SIZE
    <3>5. (c + 4) % 8 = 0
      BY <2>2, LiveFacts
    <3> QED BY <3>1, <3>2, <3>3, <3>4, <3>5
  <2> QED BY <1>21, <2>1, <2>2
<1>31. ChunksTile'
  <2>1. (Free \intersect InUse)' = {}
    BY <1>5, <1>22, <1>23, <1>25, TagFacts
  <2>2. CACHED' \notin DOMAIN live'
    <3>1. CACHED \notin DOMAIN live
      BY TagFacts
    <3>2. CACHED # a
      BY <1>5, <1>6 DEF InUse
    <3> QED BY <1>3, <1>21, <3>1, <3>2
  <2>3. HEAP_START \in Chunks'
    BY <1>24, TagFacts
  <2>4. ASSUME NEW c \in Chunks'
        PROVE  mem'[c].size >= 16 /\ c + mem'[c].size \in Chunks' \union {Guard}
    <3>1. CASE c = a
      <4>1. c + mem'[c].size = n
        BY <1>10, <1>14, <3>1
      <4>2. n \in Chunks' \union {Guard}
        BY <1>6, <1>14, <1>24
      <4> QED BY <1>9, <1>10, <3>1, <4>1, <4>2
    <3>2. CASE E /\ c = n
      <4>1. c + mem'[c].size = r
        BY <1>14, <1>17, <3>2
      <4> QED BY <1>6, <1>14, <1>17, <1>24, <3>2, <4>1
    <3>3. CASE c \in Chunks \ {a}
      <4>1. mem'[c].size = mem[c].size /\ mem[c].size >= 16 /\ c + mem[c].size \in Chunks \union {Guard}
        BY <1>18, <3>3, ChunkFacts
      <4> QED BY <1>24, <4>1
    <3> QED BY <1>25, <3>1, <3>2, <3>3
  <2>5. ASSUME NEW c \in Chunks', NEW d \in Chunks', c < d
        PROVE  c + mem'[c].size <= d
    <3>1. c = a => mem'[c].size = b
      BY <1>10
    <3>2. E /\ c = n => c + mem'[c].size = r
      BY <1>14, <1>17
    <3>3. c \in Chunks \ {a} => /\ c \in Int /\ mem'[c].size = mem[c].size /\ mem[c].size \in Int
                                /\ c + mem[c].size <= a \/ r <= c
      BY <1>18
    <3>4. d \in Chunks \ {a} => /\ d \in Int /\ mem[d].size \in Int /\ mem[d].size >= 16
                                /\ d + mem[d].size <= a \/ r <= d
      BY <1>18, ChunkFacts
    <3>5. CASE c \in Chunks \ {a} /\ d \in Chunks \ {a}
      <4>1. c + mem[c].size <= d
        BY <2>5, <3>5 DEF HeapInv, HeapSound, ChunksTile, right
      <4> QED BY <3>3, <3>5, <4>1
    <3>6. CASE c \in Chunks \ {a} /\ (d = a \/ (E /\ d = n))
      BY <1>6, <1>14, <2>5, <3>3, <3>6
    <3>7. CASE c = a /\ d \in Chunks \ {a}
      BY <1>6, <1>8, <1>14, <2>5, <3>1, <3>4, <3>7
    <3>8. CASE c = a /\ E /\ d = n
      BY <1>14, <3>1, <3>8
    <3>9. CASE E /\ c = n /\ d \in Chunks \ {a}
      BY <1>6, <1>14, <2>5, <3>2, <3>4, <3>9
    <3>10. CASE c = d
      BY <1>6, <1>14, <2>5, <3>3, <3>10, <1>25
    <3>11. CASE E /\ c = n /\ d = a
      BY <1>6, <1>14, <2>5, <3>11
    <3> QED BY <1>25, <3>5, <3>6, <3>7, <3>8, <3>9, <3>10, <3>11
  <2> QED BY <2>1, <2>2, <2>3, <2>4, <2>5 DEF ChunksTile, right
<1>32. TagsTruthful'
  <2>1. ASSUME NEW c \in Chunks' PROVE mem'[c].self <=> c \in InUse'
    <3>1. CASE c = a
      BY <1>10, <1>23, <3>1
    <3>2. CASE E /\ c = n
      BY <1>17, <1>25, <3>2
    <3>3. CASE c \in Chunks \ {a}
      BY <1>18, <1>23, <3>3, TagFacts
    <3> QED BY <1>25, <3>1, <3>2, <3>3
  <2>2. mem'[HEAP_START].left
    <3>1. HEAP_START \in Chunks /\ mem[HEAP_START].left
      BY TagFacts
    <3>2. CASE HEAP_START = a
      BY <1>10, <3>2
    <3>3. CASE HEAP_START # a
      <4>1. HEAP_START # n
        BY <1>6, <1>14, HeapBounds
      <4> QED BY <1>18, <3>1, <3>3, <4>1
    <3> QED BY <3>2, <3>3
  <2>3. ASSUME NEW c \in Chunks' PROVE mem'[c + mem'[c].size].left <=> c \in InUse'
    <3>1. CASE c = a
      <4>1. c + mem'[c].size = n
        BY <1>10, <1>14, <3>1
      <4> QED BY <1>10, <1>23, <3>1, <4>1
    <3>2. CASE E /\ c = n
      <4>1. c + mem'[c].size = r
        BY <1>14, <1>17, <3>2
      <4>2. mem'[r] = mem[r]
        <5>1. n < r /\ r # z
          BY <1>14, <3>2
        <5> QED BY <1>6, <1>17, <5>1
      <4>3. ~mem[r].left
        BY <1>5, TagFacts DEF r, T
      <4> QED BY <1>25, <3>2, <4>1, <4>2, <4>3
    <3>3. CASE c \in Chunks \ {a}
      <4> DEFINE d == c + mem[c].size
      <4>1. mem'[c].size = mem[c].size /\ d \in Chunks \union {Guard} /\ d \in Addr /\ d \in Int
        BY <1>18, <3>3, ChunkFacts, AddrFacts
      <4>2. mem[d].left <=> c \in InUse
        BY <3>3, TagFacts
      <4>3. c \in InUse <=> c \in InUse'
        BY <1>23, <3>3
      <4>4. c \in Int /\ mem[c].size \in Int /\ mem[c].size >= 16 /\ (d <= a \/ r <= c)
        BY <1>18, <3>3, ChunkFacts
      <4>5. d < a \/ d = a \/ (n < d /\ (E => d # z))
        BY <1>6, <1>14, <4>1, <4>4
      <4>6. c + mem'[c].size = d
        BY <4>1
      <4> HIDE DEF d
      <4>7. CASE d = a
        <5>1. mem[a].left
          <6>1. c \in InUse
            <7>1. d \notin InUse
              BY <1>5, <4>7
            <7>2. c \notin Free
              <8>1. c + mem[c].size \in Free
                BY <1>4, <4>7 DEF d
              <8> QED BY <3>3, <8>1, TagFacts
            <7> QED BY <3>3, <7>2, TagFacts
          <6> QED BY <4>2, <4>7, <6>1
        <5> QED BY <1>10, <4>2, <4>3, <4>6, <4>7, <5>1
      <4>8. CASE d # a
        <5>1. mem'[d] = mem[d]
          BY <1>17, <4>1, <4>5, <4>8
        <5> QED BY <4>2, <4>3, <4>6, <5>1
      <4> QED BY <4>7, <4>8
    <3> QED BY <1>25, <3>1, <3>2, <3>3
  <2>4. ASSUME NEW c \in Free'
        PROVE  mem'[(c + mem'[c].size) - 4] = [size |-> mem'[c].size, self |-> FALSE, left |-> FALSE]
    <3>1. CASE E /\ c = n
      <4>1. (c + mem'[c].size) - 4 = z
        BY <1>14, <1>17, <3>1
      <4> QED BY <1>17, <3>1, <4>1
    <3>2. CASE c \in Free /\ c \in Chunks \ {a}
      <4> DEFINE d == (c + mem[c].size) - 4
      <4>1. mem'[c].size = mem[c].size
        BY <1>18, <3>2
      <4>2. d \in Addr /\ c < d /\ d < c + mem[c].size
        BY <3>2, ChunkFacts
      <4>3. mem[d] = [size |-> mem[c].size, self |-> FALSE, left |-> FALSE]
        BY <3>2, TagFacts
      <4> HIDE DEF d
      <4>4. mem'[d] = mem[d]
        BY <1>19, <3>2, <4>2
      <4>5. (c + mem'[c].size) - 4 = d
        BY <4>1 DEF d
      <4> QED BY <4>1, <4>3, <4>4, <4>5, Zenon
    <3> QED BY <1>25, <3>1, <3>2
  <2> QED BY <1>20, <2>1, <2>2, <2>3, <2>4 DEF TagsTruthful, right
<1>33. FreeChunksMerged'
  <2>1. ASSUME NEW c \in Free' PROVE c + mem'[c].size \notin Free'
    <3>1. CASE E /\ c = n
      <4>1. c + mem'[c].size = r
        BY <1>14, <1>17, <3>1
      <4>2. r \notin Free
        BY <1>4, TagFacts DEF r, T
      <4> QED BY <1>14, <1>25, <3>1, <4>1, <4>2
    <3>2. CASE c \in Free /\ c \in Chunks \ {a}
      <4>1. mem'[c].size = mem[c].size /\ c + mem[c].size \notin Free
        BY <1>18, <3>2, TagFacts
      <4>2. E => c + mem[c].size # n
        <5>1. c \in Int /\ mem[c].size \in Int /\ mem[c].size >= 16 /\ (c + mem[c].size <= a \/ r <= c)
          BY <1>18, <3>2, ChunkFacts
        <5> QED BY <1>6, <1>14, <5>1
      <4> QED BY <1>25, <4>1, <4>2
    <3> QED BY <1>25, <3>1, <3>2
  <2>2. ASSUME NEW i \in ListIndex, NEW c \in list'[i]
        PROVE  chunk_size_to_list_index(mem'[c].size) = i
    <3>1. CASE c \in list[i] \ {a}
      <4>1. c \in Chunks \ {a}
        BY <3>1 DEF Free, Chunks
      <4>2. mem'[c].size = mem[c].size
        BY <1>18, <4>1
      <4> QED BY <3>1, <4>2 DEF HeapInv, HeapSound, FreeChunksMerged
    <3>2. CASE E /\ i = x /\ c = n
      BY <1>17, <3>2 DEF x
    <3> QED BY <1>15, <3>1, <3>2
  <2> QED BY <2>1, <2>2 DEF FreeChunksMerged, right
<1>34. Aligned'
  <2> SUFFICES ASSUME NEW c \in Chunks' PROVE c % 8 = 4 /\ mem'[c].size % 8 = 0
    BY DEF Aligned
  <2>1. CASE c = a
    BY <1>6, <1>8, <1>10, <2>1
  <2>2. CASE E /\ c = n
    BY <1>14, <1>17, <2>2
  <2>3. CASE c \in Chunks \ {a}
    BY <1>18, <2>3, ChunkFacts
  <2> QED BY <1>25, <2>1, <2>2, <2>3
<1>35. Connected'
  <2> SUFFICES ASSUME NEW c \in Chunks' \ {HEAP_START} PROVE \E d \in Chunks' : d + mem'[d].size = c
    BY DEF Connected, right
  <2>1. a \in Chunks'
    BY <1>5, <1>24
  <2>2. CASE E /\ c = n
    BY <1>10, <1>14, <2>1, <2>2
  <2>3. CASE c \in Chunks
    <3>1. PICK d \in Chunks : d + mem[d].size = c
      BY <2>3, TagFacts
    <3>2. CASE d # a
      BY <1>18, <1>24, <3>1, <3>2
    <3>3. CASE d = a /\ E
      <4>1. c = r /\ n \in Chunks' /\ n + mem'[n].size = r
        BY <1>14, <1>17, <1>24, <3>1, <3>3 DEF r, T
      <4> QED BY <4>1
    <3>4. CASE d = a /\ ~E
      <4>1. c = r /\ a + mem'[a].size = r
        BY <1>10, <1>14, <3>1, <3>4 DEF r, T
      <4> QED BY <2>1, <4>1
    <3> QED BY <3>2, <3>3, <3>4
  <2> QED BY <1>24, <2>2, <2>3
<1> QED
  BY <1>28, <1>29, <1>30, <1>31, <1>32, <1>33, <1>34, <1>35 DEF HeapInv, HeapSound

(***************************************************************************)
(* The theorems about the heap.                                            *)
(***************************************************************************)
\* Every step of the heap keeps the invariant.
LEMMA HeapStepKeeps ==
    ASSUME HeapInv, [HeapNext]_heapvars
    PROVE  HeapInv'
<1>1. CASE UNCHANGED heapvars
  <2>1. UNCHANGED <<mem, list, CACHED, HIGH_WATER_MARK, CUR_ALLOC_SIZE, MAX_ALLOC_SIZE, live, hung>>
    BY <1>1 DEF heapvars
  <2>2. Free' = Free /\ InUse' = InUse /\ Chunks' = Chunks
    BY <2>1 DEF Free, InUse, Chunks
  <2> QED BY <2>1, <2>2 DEF HeapInv, HeapTypeOK, HeapSound, ChunksTile, TagsTruthful, FreeChunksMerged,
     AllocSizeExact, PayloadIntact, Aligned, Connected, right
<1>2. CASE HeapNext
  <2>1. ASSUME NEW request \in Requests,
               malloc_cached(request) \/ malloc_first_fit(request) \/ malloc_null(request)
        PROVE  HeapInv'
    BY <2>1, CachedKeeps, FirstFitKeeps, NullKeeps
  <2>2. ASSUME NEW a \in DOMAIN live, free_to_cache(a) \/ free_cached(a) PROVE HeapInv'
    BY <2>2, FreeToCacheKeeps, FreeCachedKeeps
  <2> QED BY <1>2, <2>1, <2>2 DEF HeapNext
<1> QED
  BY <1>1, <1>2

\* HeapInv holds of the heap of heap.rs at any time, for every size of the
\* memory, every set of requests and whatever users write: besides the two
\* properties below, that headers stay aligned and that every chunk but the
\* first has a left neighbour for a merge to find.
THEOREM HeapInvariant == HeapSpec => []HeapInv
<1>1. HeapInv /\ [HeapNext]_heapvars => HeapInv'
  BY HeapStepKeeps
<1> QED
  BY <1>1, HeapInitial, PTL DEF HeapSpec

\* After any sequence of mcu_malloc and mcu_free the chunks tile the heap, the
\* boundary tags are true, no two free chunks are adjacent, each is in the list
\* of its size, and CUR_ALLOC_SIZE counts exactly the bytes that are taken.
THEOREM HeapIsSound == HeapSpec => []HeapSound
<1>1. HeapInv => HeapSound
  BY DEF HeapInv
<1> QED
  BY <1>1, HeapInvariant, PTL

\* What mcu_malloc returned is aligned, large enough and not written to by the
\* allocator until it is freed, also when it was the cached chunk.
THEOREM PayloadStaysIntact == HeapSpec => []PayloadIntact
<1>1. HeapInv => PayloadIntact
  BY DEF HeapInv
<1> QED
  BY <1>1, HeapInvariant, PTL

-----------------------------------------------------------------------------
(***************************************************************************)
(* The spin locks.  First what the positions mean: where a call goes after *)
(* a condition, exactly the conditions up to there are in effect.          *)
(***************************************************************************)
\* An instruction of a call is not outside, and has the fields it was given.
LEMMA InstructionFields ==
    ASSUME NEW i, i # "outside", NEW n, NEW k, NEW l
    PROVE  /\ Instruction(i, n, k, l) # Outside
           /\ Instruction(i, n, k, l).op = i /\ Instruction(i, n, k, l).n = n
           /\ Instruction(i, n, k, l).by = k /\ Instruction(i, n, k, l).on = l
<1>1. Instruction(i, n, k, l).op = i /\ Outside.op = "outside"
  BY DEF Instruction, Outside
<1>2. /\ Instruction(i, n, k, l).n = n
      /\ Instruction(i, n, k, l).by = k /\ Instruction(i, n, k, l).on = l
  BY DEF Instruction
<1> QED
  BY <1>1, <1>2

\* The conditions of a lock.
LEMMA ConditionsType ==
    ASSUME NEW l \in Lock
    PROVE  /\ Len(Conditions[l]) \in Nat /\ DOMAIN Conditions[l] = 1 .. Len(Conditions[l])
           /\ \A j \in DOMAIN Conditions[l] : Conditions[l][j] \in Condition
<1>1. Conditions[l] \in Seq(Condition)
  BY SpinAssumption
<1> QED
  BY <1>1

\* An instruction for a condition of the kind that it needs is well placed.
LEMMA InstructionPlaced ==
    ASSUME NEW l \in Lock, NEW k \in Call \union {"drop"}, NEW n \in Nat, NEW i,
           \/ i = "is_locked" /\ n = 0
           \/ i = "die" /\ n = 0 /\ k = "lock_now_or_die"
           \/ i = "acquire" /\ n = Len(Conditions[l]) + 1
           \/ i \in {"suspend", "resume"} /\ n \in DOMAIN Conditions[l]
                                          /\ Conditions[l][n] \in Suspending
           \/ i \in {"mask", "unmask", "fetch_add", "fetch_sub"}
                  /\ n \in DOMAIN Conditions[l] /\ Conditions[l][n] \in Maskable,
           k = "lock_now_or_die" => l \in Uncontended
    PROVE  WellPlaced(Instruction(i, n, k, l))
<1> DEFINE p == Instruction(i, n, k, l)
<1>1. i # "outside"
  OBVIOUS
<1>2. p.op = i /\ p.n = n /\ p.by = k /\ p.on = l
  BY <1>1, InstructionFields
<1>3. p \in [op : {"is_locked", "acquire", "suspend", "resume", "mask", "unmask",
                   "fetch_add", "fetch_sub", "die"},
             n : Nat, by : Call \union {"drop"}, on : Lock]
  BY DEF Instruction
<1> HIDE DEF p
<1>4. WellPlaced(p)
  BY <1>2, <1>3 DEF WellPlaced
<1> QED
  BY <1>4 DEF p

\* What it means to be well placed, for a context in a call.
LEMMA PlacedInCall ==
    ASSUME NEW p, WellPlaced(p), p # Outside
    PROVE  /\ p.on \in Lock /\ p.n \in Nat /\ p.by \in Call \union {"drop"}
           /\ p.op \in {"is_locked", "acquire", "suspend", "resume", "mask", "unmask",
                        "fetch_add", "fetch_sub", "die"}
           /\ p = Instruction(p.op, p.n, p.by, p.on)
           /\ p.op \in {"is_locked", "die"} => p.n = 0
           /\ p.op = "acquire" => p.n = Len(Conditions[p.on]) + 1
           /\ p.op \notin {"is_locked", "die", "acquire"} => p.n \in DOMAIN Conditions[p.on]
           /\ p.op \in {"suspend", "resume"} => Conditions[p.on][p.n] \in Suspending
           /\ p.op \in {"mask", "unmask", "fetch_add", "fetch_sub"} =>
                  Conditions[p.on][p.n] \in Maskable
           /\ p.by = "lock_now_or_die" => p.on \in Uncontended
           /\ p.op = "die" => p.by = "lock_now_or_die"
  BY DEF WellPlaced, Instruction

\* Of a call about l that is at p, the first m conditions suspend the scheduler
\* where they do that, and the first n mask and are counted.
UpTo(p, l, m, n) ==
    /\ WellPlaced(p) /\ (p # Outside => p.on = l)
    /\ \A j : InForce(p, j, WhileSuspended, Suspending) <=>
                  j \in 1 .. m /\ Conditions[l][j] \in Suspending
    /\ \A h \in Maskable : \A j : InForce(p, j, {"fetch_sub"}, {h}) <=>
                                     j \in 1 .. n /\ Conditions[l][j] = h

\* Before the condition after the n-th is held, the first n are in effect.
LEMMA HoldPosition ==
    ASSUME NEW l \in Lock, NEW k \in Call \union {"drop"}, NEW n \in 0 .. Len(Conditions[l]),
           k = "lock_now_or_die" => l \in Uncontended
    PROVE  /\ UpTo(Hold(n + 1, k, l), l, n, n)
           /\ Hold(n + 1, k, l).op \notin {"fetch_add", "fetch_sub", "unmask", "resume", "die"}
           /\ Hold(n + 1, k, l) # Outside => Hold(n + 1, k, l).by = k
<1> DEFINE p == Hold(n + 1, k, l)
<1>0. /\ Len(Conditions[l]) \in Nat /\ DOMAIN Conditions[l] = 1 .. Len(Conditions[l])
      /\ \A j \in DOMAIN Conditions[l] : Conditions[l][j] \in Condition
  BY ConditionsType
<1>1. CASE n + 1 > Len(Conditions[l])
  <2>1. p = Instruction("acquire", n + 1, k, l) /\ n + 1 = Len(Conditions[l]) + 1
    BY <1>0, <1>1 DEF Hold
  <2>2. p # Outside /\ p.on = l /\ p.by = k /\ p.op = "acquire" /\ p.n = n + 1
    BY <2>1, InstructionFields
  <2>3. WellPlaced(p)
    <3>1. n + 1 \in Nat /\ n + 1 = Len(Conditions[l]) + 1
      BY <1>0, <2>1
    <3>2. WellPlaced(Instruction("acquire", n + 1, k, l))
      BY <3>1, InstructionPlaced
    <3> QED
      BY <2>1, <3>2
  <2> HIDE DEF p, UpTo
  <2>4. \A j, ops, H : "acquire" \notin ops =>
            (InForce(p, j, ops, H) <=> j \in 1 .. n /\ Conditions[l][j] \in H)
    BY <2>2, <2>1, <1>0 DEF InForce
  <2>5. QED
    BY <2>2, <2>3, <2>4 DEF p, UpTo, WhileSuspended
<1>2. CASE n + 1 <= Len(Conditions[l]) /\ Conditions[l][n + 1] \in Suspending
  <2>1. p = Instruction("suspend", n + 1, k, l)
    BY <1>0, <1>2 DEF Hold
  <2>2. p # Outside /\ p.on = l /\ p.by = k /\ p.op = "suspend" /\ p.n = n + 1
    BY <2>1, InstructionFields
  <2>. n + 1 \in Nat /\ n + 1 \in DOMAIN Conditions[l]
    BY <1>0, <1>2
  <2>3. WellPlaced(p)
    BY <2>1, <1>2, InstructionPlaced
  <2> HIDE DEF p, UpTo
  <2>4. \A j, ops, H : "suspend" \notin ops =>
            (InForce(p, j, ops, H) <=> j \in 1 .. n /\ Conditions[l][j] \in H)
    BY <2>2, <1>2, <1>0 DEF InForce
  <2>5. QED
    BY <2>2, <2>3, <2>4 DEF p, UpTo, WhileSuspended
<1>3. CASE n + 1 <= Len(Conditions[l]) /\ Conditions[l][n + 1] \notin Suspending
  <2>1. p = Instruction("mask", n + 1, k, l)
    BY <1>0, <1>3 DEF Hold
  <2>2. p # Outside /\ p.on = l /\ p.by = k /\ p.op = "mask" /\ p.n = n + 1
    BY <2>1, InstructionFields
  <2>3. Conditions[l][n + 1] \in Maskable
    BY <1>0, <1>3 DEF Maskable, Condition, Suspending
  <2>. n + 1 \in Nat /\ n + 1 \in DOMAIN Conditions[l]
    BY <1>0, <1>3
  <2>4. WellPlaced(p)
    BY <2>1, <2>3, InstructionPlaced
  <2> HIDE DEF p, UpTo
  <2>5. \A j : InForce(p, j, WhileSuspended, Suspending) <=>
                      j \in 1 .. n /\ Conditions[l][j] \in Suspending
    BY <2>2, <1>3, <1>0 DEF InForce
  <2>6. \A h \in Maskable : \A j : InForce(p, j, {"fetch_sub"}, {h}) <=>
                      j \in 1 .. n /\ Conditions[l][j] = h
    BY <2>2, <1>3, <1>0 DEF InForce
  <2>7. QED
    BY <2>2, <2>4, <2>5, <2>6 DEF p, UpTo
<1> QED
  BY <1>0, <1>1, <1>2, <1>3

\* When the n-th condition is the next to be released, the first n are in
\* effect.
LEMMA UnholdPosition ==
    ASSUME NEW l \in Lock, NEW k \in Call \union {"drop"}, NEW n \in 0 .. Len(Conditions[l]),
           k = "lock_now_or_die" => l \in Uncontended
    PROVE  /\ UpTo(Unhold(n, k, l), l, n, n)
           /\ Unhold(n, k, l).op \notin {"fetch_add", "unmask"}
           /\ Unhold(n, k, l) # Outside => Unhold(n, k, l).by = k
           /\ n = 0 /\ Unhold(n, k, l) # Outside => Unhold(n, k, l).op \in {"is_locked", "die"}
<1> DEFINE p == Unhold(n, k, l)
<1>0. /\ Len(Conditions[l]) \in Nat /\ DOMAIN Conditions[l] = 1 .. Len(Conditions[l])
      /\ \A j \in DOMAIN Conditions[l] : Conditions[l][j] \in Condition
  BY ConditionsType
<1>1. CASE n = 0 /\ k \notin {"lock", "lock_now_or_die"}
  <2>1. p = Outside
    BY <1>1 DEF Unhold, Refused
  <2>2. Outside.op = "outside"
    BY DEF Outside
  <2> HIDE DEF p
  <2>3. QED
    BY <2>1, <2>2, <1>1 DEF WellPlaced, InForce, p, UpTo
<1>2. CASE n = 0 /\ k = "lock"
  <2>1. p = Instruction("is_locked", 0, k, l)
    BY <1>2 DEF Unhold, Refused
  <2>2. p # Outside /\ p.on = l /\ p.by = k /\ p.op = "is_locked" /\ p.n = 0
    BY <2>1, InstructionFields
  <2>3. WellPlaced(p)
    BY <2>1, <1>2, InstructionPlaced
  <2> HIDE DEF p, UpTo
  <2>4. \A j, ops, H : "is_locked" \notin ops => ~InForce(p, j, ops, H)
    BY <2>2, <1>0 DEF InForce
  <2>5. QED
    BY <2>2, <2>3, <2>4, <1>2 DEF p, UpTo, WhileSuspended
<1>21. CASE n = 0 /\ k = "lock_now_or_die"
  <2>1. p = Instruction("die", 0, k, l)
    BY <1>21 DEF Unhold, Refused
  <2>2. p # Outside /\ p.on = l /\ p.by = k /\ p.op = "die" /\ p.n = 0
    BY <2>1, InstructionFields
  <2>3. WellPlaced(p)
    BY <2>1, <1>21, InstructionPlaced
  <2> HIDE DEF p, UpTo
  <2>4. \A j, ops, H : "die" \notin ops => ~InForce(p, j, ops, H)
    BY <2>2, <1>0 DEF InForce
  <2>5. QED
    BY <2>2, <2>3, <2>4, <1>21 DEF p, UpTo, WhileSuspended
<1>3. CASE n # 0 /\ Conditions[l][n] = "sched"
  <2>1. p = Instruction("resume", n, k, l)
    BY <1>3 DEF Unhold
  <2>2. p # Outside /\ p.on = l /\ p.by = k /\ p.op = "resume" /\ p.n = n
    BY <2>1, InstructionFields
  <2>. n \in Nat /\ n \in DOMAIN Conditions[l]
    BY <1>0, <1>3
  <2>3. WellPlaced(p)
    BY <2>1, <1>3, InstructionPlaced DEF Suspending
  <2>4. "sched" \notin Maskable
    BY SpinAssumption DEF Maskable
  <2> HIDE DEF p, UpTo
  <2>5. \A j : InForce(p, j, WhileSuspended, Suspending) <=>
                      j \in 1 .. n /\ Conditions[l][j] \in Suspending
    BY <2>2, <1>0 DEF InForce, WhileSuspended
  <2>6. \A h \in Maskable : \A j : InForce(p, j, {"fetch_sub"}, {h}) <=>
                      j \in 1 .. n /\ Conditions[l][j] = h
    BY <2>2, <2>4, <1>0, <1>3 DEF InForce
  <2>7. QED
    BY <2>2, <2>3, <2>5, <2>6, <1>3 DEF p, UpTo
<1>4. CASE n # 0 /\ Conditions[l][n] # "sched"
  <2>1. p = Instruction("fetch_sub", n, k, l)
    BY <1>4 DEF Unhold
  <2>2. p # Outside /\ p.on = l /\ p.by = k /\ p.op = "fetch_sub" /\ p.n = n
    BY <2>1, InstructionFields
  <2>3. Conditions[l][n] \in Maskable
    BY <1>0, <1>4 DEF Maskable, Condition
  <2>. n \in Nat /\ n \in DOMAIN Conditions[l]
    BY <1>0, <1>4
  <2>4. WellPlaced(p)
    BY <2>1, <2>3, InstructionPlaced
  <2> HIDE DEF p, UpTo
  <2>5. \A j, ops, H : "fetch_sub" \in ops =>
            (InForce(p, j, ops, H) <=> j \in 1 .. n /\ Conditions[l][j] \in H)
    BY <2>2, <1>0 DEF InForce
  <2>6. QED
    BY <2>2, <2>4, <2>5, <1>4 DEF p, UpTo, WhileSuspended
<1> QED
  BY <1>1, <1>2, <1>21, <1>3, <1>4

\* How many conditions are in effect at an instruction.
LEMMA PositionUpTo ==
    ASSUME NEW p, WellPlaced(p), p # Outside
    PROVE  /\ p.op \in {"is_locked", "die", "suspend", "acquire"} => UpTo(p, p.on, p.n - 1, p.n - 1)
           /\ p.op \in {"mask", "fetch_add", "unmask", "resume"} => UpTo(p, p.on, p.n, p.n - 1)
           /\ p.op = "fetch_sub" => UpTo(p, p.on, p.n, p.n)
<1>1. /\ p.on \in Lock /\ p.n \in Nat
      /\ p.op \in {"is_locked", "acquire", "suspend", "resume", "mask", "unmask",
                   "fetch_add", "fetch_sub", "die"}
      /\ p.op \in {"is_locked", "die"} => p.n = 0
      /\ p.op = "acquire" => p.n = Len(Conditions[p.on]) + 1
      /\ p.op \notin {"is_locked", "die", "acquire"} => p.n \in DOMAIN Conditions[p.on]
  BY PlacedInCall
<1>2. /\ Len(Conditions[p.on]) \in Nat /\ DOMAIN Conditions[p.on] = 1 .. Len(Conditions[p.on])
  BY <1>1, ConditionsType
<1>3. \A ops, H, j : p.op \notin ops =>
          (InForce(p, j, ops, H) <=> j \in 1 .. p.n - 1 /\ Conditions[p.on][j] \in H)
  BY <1>1, <1>2 DEF InForce
<1>4. \A ops, H, j : p.op \in ops /\ p.op \notin {"is_locked", "die", "acquire"} =>
          (InForce(p, j, ops, H) <=> j \in 1 .. p.n /\ Conditions[p.on][j] \in H)
  BY <1>1, <1>2 DEF InForce
<1>5. "is_locked" \notin WhileSuspended /\ "die" \notin WhileSuspended
      /\ "suspend" \notin WhileSuspended /\ "acquire" \notin WhileSuspended
  BY DEF WhileSuspended
<1>6. \A h, x : x \in {h} <=> x = h
  OBVIOUS
<1>7. CASE p.op \in {"is_locked", "die", "suspend", "acquire"}
  BY <1>3, <1>5, <1>6, <1>7 DEF UpTo
<1>8. CASE p.op \in {"mask", "fetch_add", "unmask", "resume"}
  BY <1>3, <1>4, <1>6, <1>8 DEF UpTo, WhileSuspended
<1>9. CASE p.op = "fetch_sub"
  BY <1>4, <1>6, <1>9 DEF UpTo, WhileSuspended
<1> QED
  BY <1>1, <1>7, <1>8, <1>9

\* A condition that does not suspend, or has no counter, does not matter there.
LEMMA UpToSkips ==
    ASSUME NEW p, NEW l, NEW m \in Nat, NEW n \in Nat
    PROVE  /\ Conditions[l][m] \notin Suspending /\ UpTo(p, l, m - 1, n) => UpTo(p, l, m, n)
           /\ Conditions[l][n] \notin Maskable /\ UpTo(p, l, m, n) => UpTo(p, l, m, n - 1)
<1>1. ASSUME Conditions[l][m] \notin Suspending, UpTo(p, l, m - 1, n) PROVE UpTo(p, l, m, n)
  <2>1. \A j : j \in 1 .. m /\ Conditions[l][j] \in Suspending <=>
                   j \in 1 .. m - 1 /\ Conditions[l][j] \in Suspending
    BY <1>1
  <2>2. QED
    BY <1>1, <2>1 DEF UpTo
<1>2. ASSUME Conditions[l][n] \notin Maskable, UpTo(p, l, m, n) PROVE UpTo(p, l, m, n - 1)
  <2>1. \A h \in Maskable : \A j : j \in 1 .. n /\ Conditions[l][j] = h <=>
                                     j \in 1 .. n - 1 /\ Conditions[l][j] = h
    BY <1>2
  <2>2. QED
    BY <1>2, <2>1 DEF UpTo
<1> QED
  BY <1>1, <1>2

-----------------------------------------------------------------------------
(***************************************************************************)
(* What follows from the invariant.                                        *)
(***************************************************************************)
\* The context on the CPU is the last of the stack and can preempt the others.
LEMMA CurrentOnStack ==
    ASSUME SpinTypeOK, StackOK
    PROVE  /\ Len(stack) \in Nat \ {0} /\ DOMAIN stack = 1 .. Len(stack)
           /\ Current = stack[Len(stack)] /\ Current \in Ctx
           /\ \A a \in DOMAIN stack : stack[a] \in Ctx
           /\ \A a \in DOMAIN stack : a < Len(stack) =>
                  stack[a] # Current /\ Preempts(Current, stack[a])
<1>1. stack \in Seq(Ctx) /\ stack # <<>>
  BY DEF SpinTypeOK, StackOK
<1>2. Len(stack) \in Nat \ {0} /\ DOMAIN stack = 1 .. Len(stack)
  BY <1>1
<1>3. Current = stack[Len(stack)] /\ \A a \in DOMAIN stack : stack[a] \in Ctx
  BY <1>1 DEF Current, Last
<1>4. Len(stack) \in DOMAIN stack
  BY <1>2
<1>5. \A a \in DOMAIN stack : a < Len(stack) => Preempts(Current, stack[a])
  BY <1>3, <1>4 DEF StackOK
<1> QED
  BY <1>2, <1>3, <1>4, <1>5 DEF Preempts

\* The guards of a context.
LEMMA GuardsType ==
    ASSUME SpinTypeOK, NEW c \in Ctx
    PROVE  guards[c] \subseteq Lock
  BY DEF SpinTypeOK

\* What a context has of conditions is of its locks.
LEMMA HasRange ==
    ASSUME SpinTypeOK, NEW c \in Ctx, NEW l, NEW j, NEW ops, NEW H, Has(c, l, j, ops, H)
    PROVE  /\ l \in Lock /\ j \in Nat /\ j \in DOMAIN Conditions[l] /\ Conditions[l][j] \in H
           /\ l \in Locks(c)
<1>1. CASE l \in guards[c] /\ j \in DOMAIN Conditions[l] /\ Conditions[l][j] \in H
  BY <1>1, GuardsType, ConditionsType DEF Locks
<1>2. CASE pos[c] # Outside /\ l = pos[c].on /\ InForce(pos[c], j, ops, H)
  <2>1. j \in DOMAIN Conditions[l] /\ Conditions[l][j] \in H /\ l \in Locks(c)
    BY <1>2 DEF InForce, Locks
  <2>2. l \in Lock
    BY <1>2, PlacedInCall DEF SpinTypeOK
  <2>3. QED
    BY <2>1, <2>2, ConditionsType
<1> QED
  BY <1>1, <1>2 DEF Has

\* As members of the sets that the counters count.
LEMMA ClaimsAreMembers ==
    ASSUME SpinTypeOK, NEW c \in Ctx, NEW l, NEW j
    PROVE  /\ Suspends(c, l, j) <=> <<c, l, j>> \in Suspensions
           /\ \A h : Masks(h, c, l, j) <=> <<c, l, j>> \in Maskings(h)
<1>1. /\ <<c, l, j>>[1] = c /\ <<c, l, j>>[2] = l /\ <<c, l, j>>[3] = j
  OBVIOUS
<1>2. Suspends(c, l, j) => l \in Lock /\ j \in Nat
  BY HasRange DEF Suspends
<1>3. \A h : Masks(h, c, l, j) => l \in Lock /\ j \in Nat
  BY HasRange DEF Masks
<1>4. <<c, l, j>> \in Suspensions <=> (l \in Lock /\ j \in Nat) /\ Suspends(c, l, j)
  BY <1>1 DEF Suspensions
<1>5. \A h : <<c, l, j>> \in Maskings(h) <=> (l \in Lock /\ j \in Nat) /\ Masks(h, c, l, j)
  BY <1>1 DEF Maskings
<1> QED
  BY <1>2, <1>3, <1>4, <1>5

\* Whoever suspends the scheduler is counted.
LEMMA SuspendsInEffect ==
    ASSUME SpinTypeOK, SuspensionsOK
    PROVE  /\ SUSPEND_CNT \in Nat
           /\ SUSPEND_CNT = 0 <=> \A c \in Ctx, l \in Lock, j \in Nat : ~Suspends(c, l, j)
<1>1. SUSPEND_CNT \in Nat /\ (SUSPEND_CNT = 0 <=> Suspensions = {})
  BY FS_CardinalityType, FS_EmptySet DEF SuspensionsOK
<1>2. Suspensions = {} => \A c \in Ctx, l \in Lock, j \in Nat : ~Suspends(c, l, j)
  BY ClaimsAreMembers
<1>3. ASSUME Suspensions # {} PROVE \E c \in Ctx, l \in Lock, j \in Nat : Suspends(c, l, j)
  <2>1. PICK x \in Suspensions : TRUE
    BY <1>3
  <2>2. x[1] \in Ctx /\ x[2] \in Lock /\ x[3] \in Nat /\ Suspends(x[1], x[2], x[3])
    BY <2>1 DEF Suspensions
  <2>3. QED
    BY <2>2
<1> QED
  BY <1>1, <1>2, <1>3

\* Unless it is torn, whatever somebody masks is masked, and so is what
\* somebody is about to count or has ceased to count.
LEMMA MasksInEffect ==
    ASSUME SpinTypeOK, MaskingsOK, NEW h \in Maskable, h \notin torn, NEW c \in Ctx
    PROVE  /\ \A l, j : Masks(h, c, l, j) => IsMasked(h)
           /\ Between(c, h) => IsMasked(h)
<1>1. Maskings(h) # {} \/ (\E d \in Ctx : Between(d, h)) => IsMasked(h)
  BY DEF MaskingsOK, MaskingOK
<1>2. \A l, j : Masks(h, c, l, j) => Maskings(h) # {}
  BY ClaimsAreMembers
<1> QED
  BY <1>1, <1>2

\* Masking all interrupts has no exception.
LEMMA AllInEffect ==
    ASSUME SpinTypeOK, MaskingsOK, NEW c \in Ctx
    PROVE  /\ \A l, j : Masks("all", c, l, j) => basepri
           /\ Between(c, "all") => basepri
<1>1. "all" \in Maskable /\ "all" \notin torn /\ (IsMasked("all") => basepri)
  BY SpinAssumption DEF SpinTypeOK, Maskable, IsMasked
<1> QED
  BY <1>1, MasksInEffect

\* A context has all the conditions of its guards.
LEMMA GuardHas ==
    ASSUME NEW c, NEW l \in guards[c], NEW H, HoldsOneOf(l, H), NEW ops
    PROVE  \E h \in H : \E j : Has(c, l, j, ops, {h})
<1>1. PICK j \in DOMAIN Conditions[l] : Conditions[l][j] \in H
  BY DEF HoldsOneOf
<1>2. Has(c, l, j, ops, {Conditions[l][j]})
  BY DEF Has
<1> QED
  BY <1>1, <1>2

\* A guard of a lock that suspends does so.
LEMMA GuardSuspends ==
    ASSUME SpinTypeOK, NEW c \in Ctx, NEW l \in guards[c], HoldsOneOf(l, Suspending)
    PROVE  l \in Lock /\ \E j \in Nat : Suspends(c, l, j)
<1>1. PICK j \in DOMAIN Conditions[l] : Conditions[l][j] \in Suspending
  BY DEF HoldsOneOf
<1>2. Suspends(c, l, j)
  BY <1>1 DEF Suspends, Has
<1> QED
  BY <1>2, HasRange DEF Suspends

\* A context uses the locks it has guards of and the one that it asks for.
LEMMA UsesItsLocks ==
    ASSUME SpinTypeOK, NestingOK, NEW c \in Ctx
    PROVE  /\ \A l \in guards[c] : Uses(c, l)
           /\ pos[c] # Outside => Uses(c, pos[c].on)
           /\ pos[c] # Outside /\ pos[c].by \in Call => <<guards[c], pos[c].on>> \in Nesting[c]
  BY DEF NestingOK, Locks

-----------------------------------------------------------------------------
(***************************************************************************)
(* The properties that need no discipline.                                 *)
(***************************************************************************)
\* What is masked through BASEPRI also suspends the scheduler.
LEMMA AllSuspends ==
    ASSUME SpinInv, basepri
    PROVE  SUSPEND_CNT > 0
<1> USE DEF SpinInv
<1>1. "all" \in Maskable /\ IsMasked("all")
  BY DEF Maskable, IsMasked
<1>2. Maskings("all") # {} \/ \E c \in Ctx : Between(c, "all")
  BY <1>1 DEF MaskingsOK, MaskingOK
<1>3. \E c \in Ctx, l \in Lock, j \in Nat : Suspends(c, l, j)
  <2>1. CASE Maskings("all") # {}
    <3>1. PICK x \in Maskings("all") : TRUE
      BY <2>1
    <3>2. x[1] \in Ctx /\ x[2] \in Lock /\ x[3] \in Nat /\ Masks("all", x[1], x[2], x[3])
      BY <3>1 DEF Maskings
    <3>3. Suspends(x[1], x[2], x[3])
      BY <3>2 DEF Masks, Suspends, Has, InForce, WhileSuspended, Suspending
    <3>4. QED
      BY <3>2, <3>3
  <2>2. CASE \E c \in Ctx : Between(c, "all")
    <3>1. PICK c \in Ctx : Between(c, "all")
      BY <2>2
    <3>2. pos[c] # Outside
      BY <3>1 DEF Between, Outside
    <3>3. pos[c].n \in DOMAIN Conditions[pos[c].on] /\ Conditions[pos[c].on][pos[c].n] = "all"
      BY <3>1, <3>2, PlacedInCall DEF SpinTypeOK, Between, Nth
    <3>4. InForce(pos[c], pos[c].n, WhileSuspended, Suspending)
      BY <3>1, <3>2, <3>3 DEF InForce, WhileSuspended, Suspending, Between
    <3>5. Suspends(c, pos[c].on, pos[c].n)
      BY <3>2, <3>4 DEF Has, Suspends
    <3>6. QED
      BY <3>1, <3>5, HasRange DEF Suspends
  <2>3. QED
    BY <1>2, <2>1, <2>2
<1> QED
  BY <1>3, SuspendsInEffect

\* The invariant implies that the conditions of every guard are in effect, but
\* for those that are torn.
LEMMA InvConditionsHeld == SpinInv => ConditionsHeld
<1> SUFFICES ASSUME SpinInv, NEW c \in Ctx, NEW l \in guards[c], NEW j \in DOMAIN Conditions[l]
             PROVE  InEffect(Conditions[l][j]) \/ Conditions[l][j] \in torn
  BY DEF ConditionsHeld
<1> USE DEF SpinInv
<1> DEFINE h == Conditions[l][j]
<1>1. h \in Condition
  BY GuardsType, ConditionsType
<1>2. h \in Suspending => SUSPEND_CNT > 0
  <2> SUFFICES ASSUME h \in Suspending PROVE SUSPEND_CNT > 0
    OBVIOUS
  <2>1. Suspends(c, l, j)
    BY DEF Suspends, Has
  <2>2. l \in Lock /\ j \in Nat
    BY <2>1, HasRange DEF Suspends
  <2>3. QED
    BY <2>1, <2>2, SuspendsInEffect
<1>3. h \in Maskable /\ h \notin torn => IsMasked(h)
  <2>1. Masks(h, c, l, j)
    BY DEF Masks, Has
  <2>2. QED
    BY <2>1, MasksInEffect
<1>4. torn \subseteq Irq
  BY DEF SpinTypeOK
<1> HIDE DEF h
<1>5. InEffect(h) \/ h \in torn
  BY <1>1, <1>2, <1>3, <1>4, SpinAssumption DEF InEffect, Condition, Suspending, Maskable, IsMasked
<1> QED
  BY <1>5 DEF h

\* It implies that nothing is left behind.
LEMMA InvNothingLeftBehind == SpinInv => NothingLeftBehind
<1> SUFFICES ASSUME SpinInv PROVE NothingLeftBehind
  OBVIOUS
<1> USE DEF SpinInv
<1> DEFINE Involved(H) == \E c \in Ctx : \E l \in Locks(c) : HoldsOneOf(l, H)
<1>1. ASSUME NEW c \in Ctx, NEW l, NEW j, NEW ops, NEW H, Has(c, l, j, ops, H) PROVE Involved(H)
  BY <1>1, HasRange DEF HoldsOneOf
<1>2. ASSUME ~Involved(Suspending) PROVE SUSPEND_CNT = 0
  <2>1. \A c \in Ctx, l \in Lock, j \in Nat : ~Suspends(c, l, j)
    BY <1>1, <1>2 DEF Suspends
  <2>2. QED
    BY <2>1, SuspendsInEffect
<1>3. ASSUME NEW h \in Maskable, ~Involved({h}) PROVE ~IsMasked(h) /\ mask_cnt[h] = 0
  <2>1. \A x \in Maskings(h) : FALSE
    BY <1>1, <1>3 DEF Maskings, Masks
  <2>2. ASSUME NEW c \in Ctx, Between(c, h) PROVE FALSE
    <3>1. pos[c] # Outside
      BY <2>2 DEF Between, Outside
    <3>2. pos[c].n \in DOMAIN Conditions[pos[c].on] /\ Conditions[pos[c].on][pos[c].n] = h
      BY <2>2, <3>1, PlacedInCall DEF SpinTypeOK, Between, Nth
    <3>3. HoldsOneOf(pos[c].on, {h}) /\ pos[c].on \in Locks(c)
      BY <3>1, <3>2 DEF HoldsOneOf, Locks
    <3>4. QED
      BY <1>3, <3>3
  <2>3. QED
    BY <2>1, <2>2, FS_EmptySet DEF MaskingsOK, MaskingOK
<1> QED
  BY <1>2, <1>3 DEF NothingLeftBehind
-----------------------------------------------------------------------------
(***************************************************************************)
(* The initial state, and what every step keeps of whom it does not        *)
(* concern.                                                                *)
(***************************************************************************)
\* The initial state satisfies the invariant.
LEMMA SpinInitInv == SpinInit => SpinInv
<1> SUFFICES ASSUME SpinInit PROVE SpinInv
  OBVIOUS
<1>1. PICK t \in Task : stack = <<t>>
  BY DEF SpinInit
<1>2. \A c \in Ctx : pos[c] = Outside /\ guards[c] = {}
  BY DEF SpinInit
<1>3. SpinTypeOK
  <2>1. stack \in Seq(Ctx)
    BY <1>1 DEF Ctx
  <2>2. guards \in [Ctx -> SUBSET Lock]
    BY DEF SpinInit
  <2>3. DOMAIN pos = Ctx /\ \A c \in Ctx : WellPlaced(pos[c])
    BY <1>2 DEF SpinInit, WellPlaced
  <2>4. raw_spin \subseteq Lock /\ masked \subseteq Irq /\ basepri \in BOOLEAN
    BY DEF SpinInit
  <2>5. mask_cnt \in [Maskable -> Int] /\ SUSPEND_CNT \in Int /\ torn \subseteq Irq
    BY DEF SpinInit
  <2>6. QED
    BY <2>1, <2>2, <2>3, <2>4, <2>5 DEF SpinTypeOK
<1>4. StackOK
  BY <1>1 DEF StackOK
<1>5. NestingOK /\ OwnersOK
  BY <1>2 DEF NestingOK, Locks, OwnersOK, SpinInit
<1>6. \A c \in Ctx : \A k, j, ops, H : ~Has(c, k, j, ops, H)
  BY <1>2 DEF Has, InForce
<1>7. SuspensionsOK
  <2>1. Suspensions = {}
    BY <1>6 DEF Suspensions, Suspends
  <2>2. QED
    BY <2>1, FS_EmptySet DEF SuspensionsOK, SpinInit
<1>8. MaskingsOK
  <2> SUFFICES ASSUME NEW h \in Maskable PROVE MaskingOK(h)
    BY DEF MaskingsOK
  <2>1. Maskings(h) = {}
    BY <1>6 DEF Maskings, Masks
  <2>2. \A c \in Ctx : pos[c].op = "outside"
    BY <1>2 DEF Outside
  <2>3. ~IsMasked(h) /\ mask_cnt[h] = 0
    BY DEF IsMasked, SpinInit
  <2>4. QED
    BY <2>1, <2>2, <2>3, FS_EmptySet DEF MaskingOK, Between
<1>9. BetweenAllOK
  BY <1>2 DEF BetweenAllOK, Between, Outside
<1>10. OffStackOK
  BY <1>2, <1>6 DEF OffStackOK, Suspends
<1> QED
  BY <1>3, <1>4, <1>5, <1>7, <1>8, <1>9, <1>10 DEF SpinInv

\* Whose position and guards stay keeps everything that is said of it.
LEMMA OthersKeep ==
    ASSUME NEW d \in Ctx, pos'[d] = pos[d], guards'[d] = guards[d]
    PROVE  /\ Locks(d)' = Locks(d)
           /\ \A k, j : Suspends(d, k, j)' <=> Suspends(d, k, j)
           /\ \A h, k, j : Masks(h, d, k, j)' <=> Masks(h, d, k, j)
           /\ \A h : Between(d, h)' <=> Between(d, h)
           /\ Nth(d)' = Nth(d)
<1>1. Locks(d)' = Locks(d) /\ Nth(d)' = Nth(d)
  BY DEF Locks, Nth
<1>2. \A h : Between(d, h)' <=> Between(d, h)
  BY <1>1 DEF Between
<1>3. \A k, j : Suspends(d, k, j)' <=> Suspends(d, k, j)
  BY DEF Suspends, Has
<1>4. \A h, k, j : Masks(h, d, k, j)' <=> Masks(h, d, k, j)
  BY DEF Masks, Has
<1> QED
  BY <1>1, <1>2, <1>3, <1>4

\* A step of the context on the CPU that stays there.
LEMMA FrameStep ==
    ASSUME SpinInv, stack' = stack,
           \A d \in Ctx : d # Current => pos'[d] = pos[d] /\ guards'[d] = guards[d]
    PROVE  StackOK' /\ BetweenAllOK' /\ OffStackOK'
<1> USE DEF SpinInv
<1>0. /\ Len(stack) \in Nat \ {0} /\ DOMAIN stack = 1 .. Len(stack)
      /\ Current = stack[Len(stack)] /\ Current \in Ctx
      /\ \A a \in DOMAIN stack : stack[a] \in Ctx
      /\ \A a \in DOMAIN stack : a < Len(stack) => stack[a] # Current
  BY CurrentOnStack
<1>1. StackOK'
  BY DEF StackOK
<1>2. BetweenAllOK'
  <2> SUFFICES ASSUME NEW d \in Ctx, Between(d, "all")', d # Current PROVE FALSE
    BY DEF BetweenAllOK, Current
  <2>1. Between(d, "all")
    BY OthersKeep
  <2>2. QED
    BY <2>1 DEF BetweenAllOK
<1>3. OffStackOK'
  <2> SUFFICES ASSUME NEW c \in Ctx, \A a \in DOMAIN stack : stack[a] # c
               PROVE  /\ c \in Irq => pos'[c] = Outside /\ guards'[c] = {}
                      /\ \A l \in Lock, j \in Nat : ~Suspends(c, l, j)'
    BY DEF OffStackOK
  <2>1. c # Current
    BY <1>0
  <2>2. pos'[c] = pos[c] /\ guards'[c] = guards[c]
    BY <2>1
  <2>3. \A k, j : Suspends(c, k, j)' <=> Suspends(c, k, j)
    BY <2>2, OthersKeep
  <2>4. QED
    BY <2>2, <2>3 DEF OffStackOK
<1> QED
  BY <1>1, <1>2, <1>3

\* The suspensions stay the same when those of every context do.
LEMMA SuspensionsStay ==
    ASSUME SuspensionsOK, SUSPEND_CNT' = SUSPEND_CNT,
           \A d \in Ctx, l \in Lock, j \in Nat : Suspends(d, l, j)' <=> Suspends(d, l, j)
    PROVE  SuspensionsOK'
<1>1. Suspensions' = Suspensions
  BY DEF Suspensions
<1> QED
  BY <1>1 DEF SuspensionsOK

\* One suspension more.
LEMMA SuspensionsGrow ==
    ASSUME SpinTypeOK, SuspensionsOK, SUSPEND_CNT' = SUSPEND_CNT + 1,
           NEW c \in Ctx, NEW m \in Lock, NEW n \in Nat, ~Suspends(c, m, n),
           \A d \in Ctx, l \in Lock, j \in Nat :
               Suspends(d, l, j)' <=> Suspends(d, l, j) \/ (d = c /\ l = m /\ j = n)
    PROVE  SuspensionsOK'
<1> DEFINE x == <<c, m, n>>
<1>1. x \notin Suspensions
  BY ClaimsAreMembers
<1>2. Suspensions' = Suspensions \union {x}
  <2>1. \A y \in Ctx \X Lock \X Nat : y = x <=> y[1] = c /\ y[2] = m /\ y[3] = n
    OBVIOUS
  <2>2. x \in Ctx \X Lock \X Nat
    OBVIOUS
  <2> HIDE DEF x
  <2>3. QED
    BY <2>1, <2>2 DEF Suspensions
<1> HIDE DEF x
<1> QED
  BY <1>1, <1>2, FS_AddElement, FS_CardinalityType DEF SuspensionsOK

\* One less.
LEMMA SuspensionsShrink ==
    ASSUME SpinTypeOK, SuspensionsOK, SUSPEND_CNT' = SUSPEND_CNT - 1,
           NEW c \in Ctx, NEW m \in Lock, NEW n \in Nat, Suspends(c, m, n),
           \A d \in Ctx, l \in Lock, j \in Nat :
               Suspends(d, l, j)' <=> Suspends(d, l, j) /\ ~(d = c /\ l = m /\ j = n)
    PROVE  SuspensionsOK'
<1> DEFINE x == <<c, m, n>>
<1>1. x \in Suspensions
  BY ClaimsAreMembers
<1>2. Suspensions' = Suspensions \ {x}
  <2>1. \A y \in Ctx \X Lock \X Nat : y = x <=> y[1] = c /\ y[2] = m /\ y[3] = n
    OBVIOUS
  <2> HIDE DEF x
  <2>2. QED
    BY <2>1 DEF Suspensions
<1> HIDE DEF x
<1> QED
  BY <1>1, <1>2, FS_RemoveElement, FS_CardinalityType DEF SuspensionsOK

\* The same for the maskings of one interrupt.
LEMMA MaskingsStay ==
    ASSUME NEW h, \A d \in Ctx, l \in Lock, j \in Nat : Masks(h, d, l, j)' <=> Masks(h, d, l, j)
    PROVE  Maskings(h)' = Maskings(h)
  BY DEF Maskings

\* One masking more.
LEMMA MaskingsGrow ==
    ASSUME NEW h, IsFiniteSet(Maskings(h)), mask_cnt[h] = Cardinality(Maskings(h)),
           mask_cnt'[h] = mask_cnt[h] + 1,
           NEW x, x \notin Maskings(h), Maskings(h)' = Maskings(h) \union {x}
    PROVE  /\ IsFiniteSet(Maskings(h)') /\ mask_cnt'[h] = Cardinality(Maskings(h)')
           /\ Maskings(h)' # {}
  BY FS_AddElement, FS_CardinalityType

\* One less: the counter was one exactly if none is left.
LEMMA MaskingsShrink ==
    ASSUME NEW h, IsFiniteSet(Maskings(h)), mask_cnt[h] = Cardinality(Maskings(h)),
           mask_cnt'[h] = mask_cnt[h] - 1,
           NEW x, x \in Maskings(h), Maskings(h)' = Maskings(h) \ {x}
    PROVE  /\ IsFiniteSet(Maskings(h)') /\ mask_cnt'[h] = Cardinality(Maskings(h)')
           /\ Maskings(h)' = {} <=> mask_cnt[h] = 1
           /\ Maskings(h) # {}
<1>1. /\ IsFiniteSet(Maskings(h)') /\ mask_cnt'[h] = Cardinality(Maskings(h)')
      /\ mask_cnt[h] \in Nat
  BY FS_RemoveElement, FS_CardinalityType
<1>2. Maskings(h)' = {} <=> mask_cnt[h] = 1
  BY <1>1, FS_EmptySet
<1> QED
  BY <1>1, <1>2

-----------------------------------------------------------------------------
(***************************************************************************)
(* The steps of a call that keep the guards.                               *)
(***************************************************************************)
\* Which condition j of lock k the guards g and a call about l have, if the call
\* has the first m.
SuspendingTo(g, l, m, k, j) ==
    \/ k \in g /\ j \in DOMAIN Conditions[k] /\ Conditions[k][j] \in Suspending
    \/ k = l /\ j \in 1 .. m /\ Conditions[l][j] \in Suspending
MaskingTo(h, g, l, m, k, j) ==
    \/ k \in g /\ j \in DOMAIN Conditions[k] /\ Conditions[k][j] = h
    \/ k = l /\ j \in 1 .. m /\ Conditions[l][j] = h

\* They are what a context has.
LEMMA SuspendsUpTo ==
    ASSUME NEW c, NEW l, NEW m, NEW n, UpTo(pos[c], l, m, n)
    PROVE  \A k, j : Suspends(c, k, j) <=> SuspendingTo(guards[c], l, m, k, j)
<1> DEFINE p == pos[c]
           g == guards[c]
<1>1. /\ \A j : InForce(p, j, WhileSuspended, Suspending) <=>
                  j \in 1 .. m /\ Conditions[l][j] \in Suspending
      /\ \A j : InForce(p, j, WhileSuspended, Suspending) => p # Outside /\ p.on = l
  BY DEF UpTo, InForce
<1>2. \A k, j : Suspends(c, k, j) <=>
           \/ k \in g /\ j \in DOMAIN Conditions[k] /\ Conditions[k][j] \in Suspending
           \/ p # Outside /\ k = p.on /\ InForce(p, j, WhileSuspended, Suspending)
  BY DEF Suspends, Has
<1> HIDE DEF p, g
<1>3. \A k, j : Suspends(c, k, j) <=> SuspendingTo(g, l, m, k, j)
  BY <1>1, <1>2 DEF SuspendingTo
<1> QED
  BY <1>3 DEF g

\* They are what a context has.
LEMMA MasksUpTo ==
    ASSUME NEW c, NEW l, NEW m, NEW n, UpTo(pos[c], l, m, n), NEW h \in Maskable
    PROVE  \A k, j : Masks(h, c, k, j) <=> MaskingTo(h, guards[c], l, n, k, j)
<1> DEFINE p == pos[c]
           g == guards[c]
           ops == {"fetch_sub"}
<1>1. /\ \A j : InForce(p, j, ops, {h}) <=> j \in 1 .. n /\ Conditions[l][j] = h
      /\ \A j : InForce(p, j, ops, {h}) => p # Outside /\ p.on = l
  BY DEF UpTo, InForce
<1>2. \A k, j : Masks(h, c, k, j) <=>
           \/ k \in g /\ j \in DOMAIN Conditions[k] /\ Conditions[k][j] = h
           \/ p # Outside /\ k = p.on /\ InForce(p, j, ops, {h})
  BY DEF Masks, Has
<1> HIDE DEF p, g, ops
<1>3. \A k, j : Masks(h, c, k, j) <=> MaskingTo(h, g, l, n, k, j)
  BY <1>1, <1>2 DEF MaskingTo
<1> QED
  BY <1>3 DEF g

\* The same after a step.
LEMMA SuspendsUpToNext ==
    ASSUME NEW c, NEW l, NEW m, NEW n, UpTo(pos'[c], l, m, n)
    PROVE  \A k, j : Suspends(c, k, j)' <=> SuspendingTo(guards'[c], l, m, k, j)
<1> DEFINE p == pos'[c]
           g == guards'[c]
<1>1. /\ \A j : InForce(p, j, WhileSuspended, Suspending) <=>
                  j \in 1 .. m /\ Conditions[l][j] \in Suspending
      /\ \A j : InForce(p, j, WhileSuspended, Suspending) => p # Outside /\ p.on = l
  BY DEF UpTo, InForce
<1>2. \A k, j : Suspends(c, k, j)' <=>
           \/ k \in g /\ j \in DOMAIN Conditions[k] /\ Conditions[k][j] \in Suspending
           \/ p # Outside /\ k = p.on /\ InForce(p, j, WhileSuspended, Suspending)
  BY DEF Suspends, Has
<1> HIDE DEF p, g
<1>3. \A k, j : Suspends(c, k, j)' <=> SuspendingTo(g, l, m, k, j)
  BY <1>1, <1>2 DEF SuspendingTo
<1> QED
  BY <1>3 DEF g

\* The same after a step.
LEMMA MasksUpToNext ==
    ASSUME NEW c, NEW l, NEW m, NEW n, UpTo(pos'[c], l, m, n), NEW h \in Maskable
    PROVE  \A k, j : Masks(h, c, k, j)' <=> MaskingTo(h, guards'[c], l, n, k, j)
<1> DEFINE p == pos'[c]
           g == guards'[c]
           ops == {"fetch_sub"}
<1>1. /\ \A j : InForce(p, j, ops, {h}) <=> j \in 1 .. n /\ Conditions[l][j] = h
      /\ \A j : InForce(p, j, ops, {h}) => p # Outside /\ p.on = l
  BY DEF UpTo, InForce
<1>2. \A k, j : Masks(h, c, k, j)' <=>
           \/ k \in g /\ j \in DOMAIN Conditions[k] /\ Conditions[k][j] = h
           \/ p # Outside /\ k = p.on /\ InForce(p, j, ops, {h})
  BY DEF Masks, Has
<1> HIDE DEF p, g, ops
<1>3. \A k, j : Masks(h, c, k, j)' <=> MaskingTo(h, g, l, n, k, j)
  BY <1>1, <1>2 DEF MaskingTo
<1> QED
  BY <1>3 DEF g

\* The scheduler is suspended by one condition more, or one less, when the call
\* of c goes from m to n conditions in effect.
LEMMA LevelSuspends ==
    ASSUME SpinTypeOK, SuspensionsOK, NEW c \in Ctx, guards' = guards,
           \A d \in Ctx : d # c => pos'[d] = pos[d],
           NEW l \in Lock, l \notin guards[c],
           NEW m \in 0 .. Len(Conditions[l]), NEW n \in 0 .. Len(Conditions[l]),
           NEW a, NEW b, UpTo(pos[c], l, m, a), UpTo(pos'[c], l, n, b),
           \/ n = m + 1 /\ Conditions[l][n] \in Suspending /\ SUSPEND_CNT' = SUSPEND_CNT + 1
           \/ m = n + 1 /\ Conditions[l][m] \in Suspending /\ SUSPEND_CNT' = SUSPEND_CNT - 1
    PROVE  SuspensionsOK'
<1> DEFINE F(j) == j \in 1 .. m /\ Conditions[l][j] \in Suspending
           G(j) == j \in 1 .. n /\ Conditions[l][j] \in Suspending
           E(k, j) == k \in guards[c] /\ j \in DOMAIN Conditions[k] /\ Conditions[k][j] \in Suspending
<1>0. Len(Conditions[l]) \in Nat
  BY ConditionsType
<1>1. \A d \in Ctx : d # c => \A k, j : Suspends(d, k, j)' <=> Suspends(d, k, j)
  BY OthersKeep
<1>2. \A k, j : Suspends(c, k, j) <=> E(k, j) \/ (k = l /\ F(j))
  <2>1. \A k, j : Suspends(c, k, j) <=> SuspendingTo(guards[c], l, m, k, j)
    BY SuspendsUpTo
  <2>2. QED
    BY <2>1 DEF SuspendingTo
<1>3. \A k, j : Suspends(c, k, j)' <=> E(k, j) \/ (k = l /\ G(j))
  <2>1. \A k, j : Suspends(c, k, j)' <=> SuspendingTo(guards[c], l, n, k, j)
    BY SuspendsUpToNext
  <2>2. QED
    BY <2>1 DEF SuspendingTo
<1>4. \A k, j : E(k, j) => k # l
  OBVIOUS
<1>5. m \in Nat /\ n \in Nat
  BY <1>0
<1> HIDE DEF E
<1>7. CASE n = m + 1 /\ Conditions[l][n] \in Suspending /\ SUSPEND_CNT' = SUSPEND_CNT + 1
  <2>1. (\A j : G(j) <=> F(j) \/ j = n) /\ ~F(n)
    BY <1>5, <1>7
  <2> HIDE DEF F, G
  <2>2. \A d \in Ctx, k \in Lock, j \in Nat :
            Suspends(d, k, j)' <=> Suspends(d, k, j) \/ (d = c /\ k = l /\ j = n)
    BY <1>1, <1>2, <1>3, <2>1
  <2>3. ~Suspends(c, l, n)
    BY <1>2, <1>4, <2>1
  <2>4. QED
    BY <1>5, <1>7, <2>2, <2>3, SuspensionsGrow
<1>8. CASE m = n + 1 /\ Conditions[l][m] \in Suspending /\ SUSPEND_CNT' = SUSPEND_CNT - 1
  <2>1. (\A j : G(j) <=> F(j) /\ j # m) /\ F(m)
    BY <1>5, <1>8
  <2> HIDE DEF F, G
  <2>2. \A d \in Ctx, k \in Lock, j \in Nat :
            Suspends(d, k, j)' <=> Suspends(d, k, j) /\ ~(d = c /\ k = l /\ j = m)
    BY <1>1, <1>2, <1>3, <1>4, <2>1
  <2>3. Suspends(c, l, m)
    BY <1>2, <2>1
  <2>4. QED
    BY <1>5, <1>8, <2>2, <2>3, SuspensionsShrink
<1> QED
  BY <1>7, <1>8

\* The same for the maskings of h.
LEMMA LevelMasks ==
    ASSUME SpinTypeOK, NEW h \in Maskable, IsFiniteSet(Maskings(h)), mask_cnt[h] = Cardinality(Maskings(h)),
           NEW c \in Ctx, guards' = guards,
           \A d \in Ctx : d # c => pos'[d] = pos[d],
           NEW l \in Lock, l \notin guards[c],
           NEW m \in 0 .. Len(Conditions[l]), NEW n \in 0 .. Len(Conditions[l]),
           NEW a, NEW b, UpTo(pos[c], l, a, m), UpTo(pos'[c], l, b, n)
    PROVE  /\ n = m + 1 /\ Conditions[l][n] = h /\ mask_cnt'[h] = mask_cnt[h] + 1 =>
                  /\ IsFiniteSet(Maskings(h)') /\ mask_cnt'[h] = Cardinality(Maskings(h)')
                  /\ Maskings(h)' # {}
           /\ m = n + 1 /\ Conditions[l][m] = h /\ mask_cnt'[h] = mask_cnt[h] - 1 =>
                  /\ IsFiniteSet(Maskings(h)') /\ mask_cnt'[h] = Cardinality(Maskings(h)')
                  /\ Maskings(h)' = {} <=> mask_cnt[h] = 1
                  /\ Maskings(h) # {}
<1> DEFINE F(j) == j \in 1 .. m /\ Conditions[l][j] = h
           G(j) == j \in 1 .. n /\ Conditions[l][j] = h
           E(k, j) == k \in guards[c] /\ j \in DOMAIN Conditions[k] /\ Conditions[k][j] = h
<1>0. Len(Conditions[l]) \in Nat
  BY ConditionsType
<1>1. \A d \in Ctx : d # c => \A k, j : Masks(h, d, k, j)' <=> Masks(h, d, k, j)
  BY OthersKeep
<1>2. \A k, j : Masks(h, c, k, j) <=> E(k, j) \/ (k = l /\ F(j))
  <2>1. \A k, j : Masks(h, c, k, j) <=> MaskingTo(h, guards[c], l, m, k, j)
    BY MasksUpTo
  <2>2. QED
    BY <2>1 DEF MaskingTo
<1>3. \A k, j : Masks(h, c, k, j)' <=> E(k, j) \/ (k = l /\ G(j))
  <2>1. \A k, j : Masks(h, c, k, j)' <=> MaskingTo(h, guards[c], l, n, k, j)
    BY MasksUpToNext
  <2>2. QED
    BY <2>1 DEF MaskingTo
<1>4. \A k, j : E(k, j) => k # l
  OBVIOUS
<1>5. m \in Nat /\ n \in Nat
  BY <1>0
<1> HIDE DEF E
<1>7. ASSUME n = m + 1, Conditions[l][n] = h, mask_cnt'[h] = mask_cnt[h] + 1
      PROVE  /\ IsFiniteSet(Maskings(h)') /\ mask_cnt'[h] = Cardinality(Maskings(h)')
             /\ Maskings(h)' # {}
  <2>1. (\A j : G(j) <=> F(j) \/ j = n) /\ ~F(n)
    BY <1>5, <1>7
  <2> HIDE DEF F, G
  <2>2. \A d \in Ctx, k \in Lock, j \in Nat :
            Masks(h, d, k, j)' <=> Masks(h, d, k, j) \/ (d = c /\ k = l /\ j = n)
    BY <1>1, <1>2, <1>3, <2>1
  <2>3. ~Masks(h, c, l, n)
    BY <1>2, <1>4, <2>1
  <2>4. <<c, l, n>> \notin Maskings(h)
    BY <2>3, ClaimsAreMembers
  <2>5. Maskings(h)' = Maskings(h) \union {<<c, l, n>>}
    <3> DEFINE x == <<c, l, n>>
    <3>1. x \in Ctx \X Lock \X Nat
      BY <1>5
    <3>2. \A y \in Ctx \X Lock \X Nat : y = x <=> y[1] = c /\ y[2] = l /\ y[3] = n
      BY <1>5
    <3> HIDE DEF x
    <3>3. Maskings(h)' = Maskings(h) \union {x}
      BY <2>2, <3>1, <3>2 DEF Maskings
    <3>4. QED
      BY <3>3 DEF x
  <2>6. QED
    BY <1>7, <2>4, <2>5, MaskingsGrow
<1>8. ASSUME m = n + 1, Conditions[l][m] = h, mask_cnt'[h] = mask_cnt[h] - 1
      PROVE  /\ IsFiniteSet(Maskings(h)') /\ mask_cnt'[h] = Cardinality(Maskings(h)')
             /\ Maskings(h)' = {} <=> mask_cnt[h] = 1
             /\ Maskings(h) # {}
  <2>1. (\A j : G(j) <=> F(j) /\ j # m) /\ F(m)
    BY <1>5, <1>8
  <2> HIDE DEF F, G
  <2>2. \A d \in Ctx, k \in Lock, j \in Nat :
            Masks(h, d, k, j)' <=> Masks(h, d, k, j) /\ ~(d = c /\ k = l /\ j = m)
    BY <1>1, <1>2, <1>3, <1>4, <2>1
  <2>3. Masks(h, c, l, m)
    BY <1>2, <2>1
  <2>4. <<c, l, m>> \in Maskings(h)
    BY <2>3, ClaimsAreMembers
  <2>5. Maskings(h)' = Maskings(h) \ {<<c, l, m>>}
    <3> DEFINE x == <<c, l, m>>
    <3>1. \A y \in Ctx \X Lock \X Nat : y = x <=> y[1] = c /\ y[2] = l /\ y[3] = m
      BY <1>5
    <3> HIDE DEF x
    <3>2. Maskings(h)' = Maskings(h) \ {x}
      BY <2>2, <3>1 DEF Maskings
    <3>3. QED
      BY <3>2 DEF x
  <2>6. QED
    BY <1>8, <2>4, <2>5, MaskingsShrink
<1> QED
  BY <1>7, <1>8

\* The suspensions stay when as many conditions of the call suspend.
LEMMA SameSuspensions ==
    ASSUME NEW c \in Ctx, guards' = guards, \A d \in Ctx : d # c => pos'[d] = pos[d],
           SuspensionsOK, SUSPEND_CNT' = SUSPEND_CNT,
           NEW l, NEW m, NEW a, NEW b, UpTo(pos[c], l, m, a), UpTo(pos'[c], l, m, b)
    PROVE  SuspensionsOK'
<1>1. \A k, j : /\ Suspends(c, k, j) <=> SuspendingTo(guards[c], l, m, k, j)
                /\ Suspends(c, k, j)' <=> SuspendingTo(guards[c], l, m, k, j)
  BY SuspendsUpTo, SuspendsUpToNext
<1>2. \A k, j : Suspends(c, k, j)' <=> Suspends(c, k, j)
  BY <1>1
<1>3. \A d \in Ctx, k \in Lock, j \in Nat : Suspends(d, k, j)' <=> Suspends(d, k, j)
  BY <1>2, OthersKeep
<1> QED
  BY <1>3, SuspensionsStay

\* The maskings stay when as many are counted.
LEMMA SameMaskings ==
    ASSUME NEW c \in Ctx, guards' = guards, \A d \in Ctx : d # c => pos'[d] = pos[d],
           NEW l, NEW n, NEW a, NEW b, UpTo(pos[c], l, a, n), UpTo(pos'[c], l, b, n)
    PROVE  \A h \in Maskable : Maskings(h)' = Maskings(h)
<1> SUFFICES ASSUME NEW h \in Maskable PROVE Maskings(h)' = Maskings(h)
  OBVIOUS
<1>1. \A k, j : /\ Masks(h, c, k, j) <=> MaskingTo(h, guards[c], l, n, k, j)
                /\ Masks(h, c, k, j)' <=> MaskingTo(h, guards[c], l, n, k, j)
  BY MasksUpTo, MasksUpToNext
<1>2. \A k, j : Masks(h, c, k, j)' <=> Masks(h, c, k, j)
  BY <1>1
<1>3. \A d \in Ctx, k \in Lock, j \in Nat : Masks(h, d, k, j)' <=> Masks(h, d, k, j)
  BY <1>2, OthersKeep
<1> QED
  BY <1>3, MaskingsStay

\* The maskings of h stay when it is not the condition that is counted, or not.
LEMMA OtherMaskings ==
    ASSUME NEW c \in Ctx, guards' = guards, \A d \in Ctx : d # c => pos'[d] = pos[d],
           NEW l, NEW n \in Nat, NEW a, NEW b,
           \/ UpTo(pos[c], l, a, n) /\ UpTo(pos'[c], l, b, n - 1)
           \/ UpTo(pos[c], l, a, n - 1) /\ UpTo(pos'[c], l, b, n),
           NEW h \in Maskable, h # Conditions[l][n]
    PROVE  Maskings(h)' = Maskings(h)
<1>0. \A k, j : MaskingTo(h, guards[c], l, n, k, j) <=> MaskingTo(h, guards[c], l, n - 1, k, j)
  BY DEF MaskingTo
<1>1. \A k, j : \/ /\ Masks(h, c, k, j) <=> MaskingTo(h, guards[c], l, n, k, j)
                   /\ Masks(h, c, k, j)' <=> MaskingTo(h, guards[c], l, n - 1, k, j)
                \/ /\ Masks(h, c, k, j) <=> MaskingTo(h, guards[c], l, n - 1, k, j)
                   /\ Masks(h, c, k, j)' <=> MaskingTo(h, guards[c], l, n, k, j)
  BY MasksUpTo, MasksUpToNext
<1>2. \A k, j : Masks(h, c, k, j)' <=> Masks(h, c, k, j)
  BY <1>0, <1>1
<1>3. \A d \in Ctx, k \in Lock, j \in Nat : Masks(h, d, k, j)' <=> Masks(h, d, k, j)
  BY <1>2, OthersKeep
<1> QED
  BY <1>3, MaskingsStay

\* A call goes on to p: the parts of the invariant that do not count.
LEMMA MoveStep ==
    ASSUME SpinInv, NEW c, c = Current, pos[c] # Outside,
           NEW p, WellPlaced(p), p # Outside => p.on = pos[c].on /\ p.by = pos[c].by,
           p # Outside /\ pos[c].on \in guards[c] => p.op \in {"is_locked", "die"},
           pos' = [pos EXCEPT ![c] = p],
           stack' = stack, guards' = guards, raw_spin' = raw_spin,
           masked' \subseteq Irq, basepri' \in BOOLEAN, torn' \subseteq Irq,
           mask_cnt' \in [Maskable -> Int], SUSPEND_CNT' \in Int
    PROVE  /\ c \in Ctx /\ pos'[c] = p /\ \A d \in Ctx : d # c => pos'[d] = pos[d]
           /\ SpinTypeOK' /\ StackOK' /\ NestingOK' /\ OwnersOK' /\ BetweenAllOK' /\ OffStackOK'
<1> USE DEF SpinInv
<1>1. c \in Ctx /\ DOMAIN pos = Ctx
  BY CurrentOnStack DEF SpinTypeOK
<1>2. pos'[c] = p /\ DOMAIN pos' = Ctx /\ \A d \in Ctx : d # c => pos'[d] = pos[d]
  BY <1>1
<1>3. SpinTypeOK'
  <2>1. \A d \in Ctx : WellPlaced(pos'[d])
    BY <1>2 DEF SpinTypeOK
  <2>2. QED
    BY <1>2, <2>1 DEF SpinTypeOK
<1>4. StackOK' /\ BetweenAllOK' /\ OffStackOK'
  BY <1>2, FrameStep
<1>5. NestingOK'
  <2>1. ASSUME NEW d \in Ctx, pos'[d] # Outside, pos'[d].by \in Call
        PROVE  <<guards[d], pos'[d].on>> \in Nesting[d]
    BY <1>2, <2>1 DEF NestingOK
  <2>2. \A d \in Ctx : Locks(d)' \subseteq Locks(d)
    BY <1>2 DEF Locks
  <2>3. QED
    BY <2>1, <2>2 DEF NestingOK
<1>6. OwnersOK'
  <2>1. ASSUME NEW d \in Ctx, pos'[d] # Outside, pos'[d].on \in guards[d]
        PROVE  pos'[d].op \in {"is_locked", "die"}
    BY <1>2, <2>1 DEF OwnersOK
  <2>2. QED
    BY <2>1 DEF OwnersOK
<1> QED
  BY <1>1, <1>2, <1>3, <1>4, <1>5, <1>6

\* What a step at a mask or counter makes of torn.
LEMMA TearStep ==
    ASSUME SpinInv, NEW c \in Ctx, c = Current, Nth(c) \in Maskable, Tear(c) \/ TearOrMend(c)
    PROVE  /\ torn' \subseteq Irq
           /\ \A h : h # Nth(c) => (h \in torn' <=> h \in torn)
           /\ \A h : h \in Range(stack) /\ h \in torn => h \in torn'
           /\ Nth(c) \notin torn' =>
                  /\ \A d \in Ctx : d # c => ~Between(d, Nth(c))
                  /\ Tear(c) => Nth(c) \notin torn
<1> DEFINE e == Nth(c)
<1>1. torn \subseteq Irq
  BY DEF SpinInv, SpinTypeOK
<1>2. e = "all" => ~Disturbs(c)
  BY DEF SpinInv, BetweenAllOK, Disturbs
<1>3. e \in Irq \/ e = "all"
  BY DEF Maskable
<1>4. ~Disturbs(c) => \A d \in Ctx : d # c => ~Between(d, e)
  BY DEF Disturbs
<1>5. /\ torn' = torn \/ torn' = torn \union {e} \/ torn' = torn \ {e}
      /\ torn' = torn \ {e} => torn' = torn \/ e \notin Range(stack)
      /\ Disturbs(c) => torn' = torn \union {e}
      /\ Tear(c) => torn \subseteq torn'
  BY DEF Tear, TearOrMend
<1> HIDE DEF e
<1>6. torn' \subseteq Irq
  BY <1>1, <1>2, <1>3, <1>5 DEF Tear, TearOrMend, e
<1>7. \A h : h \in Range(stack) /\ h \in torn => h \in torn'
  BY <1>5
<1>8. ASSUME e \notin torn' PROVE (\A d \in Ctx : d # c => ~Between(d, e)) /\ (Tear(c) => e \notin torn)
  BY <1>4, <1>5, <1>8
<1> QED
  BY <1>5, <1>6, <1>7, <1>8 DEF e

\* A step of c that does not concern the mask of h.
LEMMA MaskingKeeps ==
    ASSUME NEW h, MaskingOK(h), Maskings(h)' = Maskings(h), mask_cnt'[h] = mask_cnt[h],
           IsMasked(h)' <=> IsMasked(h), h \notin torn' => h \notin torn,
           NEW c \in Ctx, \A d \in Ctx : d # c => pos'[d] = pos[d],
           Between(c, h)' <=> Between(c, h),
           pos'[c].op = "unmask" /\ Nth(c)' = h => pos[c].op = "unmask" /\ Nth(c) = h
    PROVE  MaskingOK(h)'
<1>1. \A d \in Ctx : d # c => (Between(d, h)' <=> Between(d, h)) /\ Nth(d)' = Nth(d)
  BY DEF Between, Nth
<1>2. (\E d \in Ctx : Between(d, h)') <=> \E d \in Ctx : Between(d, h)
  BY <1>1
<1>3. ASSUME NEW d \in Ctx, pos'[d].op = "unmask", Nth(d)' = h
      PROVE  pos[d].op = "unmask" /\ Nth(d) = h
  BY <1>1, <1>3
<1>4. \A d \in Ctx : Between(d, h)' => Between(d, h)
  BY <1>1
<1> QED
  BY <1>2, <1>3, <1>4 DEF MaskingOK

\* A step of c from and to an instruction that is not between mask and counter.
LEMMA MaskingsKeep ==
    ASSUME SpinInv, NEW c \in Ctx, \A d \in Ctx : d # c => pos'[d] = pos[d],
           masked' = masked, basepri' = basepri, mask_cnt' = mask_cnt, torn' = torn,
           pos[c].op \notin {"fetch_add", "unmask"}, pos'[c].op \notin {"fetch_add", "unmask"},
           \A h \in Maskable : Maskings(h)' = Maskings(h)
    PROVE  MaskingsOK'
<1> SUFFICES ASSUME NEW h \in Maskable PROVE MaskingOK(h)'
  BY DEF MaskingsOK
<1>1. MaskingOK(h) /\ (IsMasked(h)' <=> IsMasked(h))
  BY DEF SpinInv, MaskingsOK, IsMasked
<1>2. ~Between(c, h)' /\ ~Between(c, h) /\ pos'[c].op # "unmask"
  BY DEF Between
<1> QED
  BY <1>1, <1>2, MaskingKeeps

\* What is known at an instruction.
LEMMA AtInstruction ==
    ASSUME SpinInv, NEW c, NEW i, Executes(c, i), i # "outside"
    PROVE  /\ c \in Ctx /\ c = Current /\ pos[c] # Outside /\ pos[c].op = i /\ WellPlaced(pos[c])
           /\ pos[c].on \in Lock /\ pos[c].by \in Call \union {"drop"} /\ pos[c].n \in Nat
           /\ Len(Conditions[pos[c].on]) \in Nat
           /\ i \notin {"is_locked", "die"} => pos[c].on \notin guards[c]
           /\ pos[c].by = "lock_now_or_die" => pos[c].on \in Uncontended
           /\ i \notin {"is_locked", "die", "acquire"} =>
                  /\ pos[c].n \in DOMAIN Conditions[pos[c].on]
                  /\ pos[c].n \in 0 .. Len(Conditions[pos[c].on])
                  /\ pos[c].n - 1 \in 0 .. Len(Conditions[pos[c].on])
<1>1. c \in Ctx /\ c = Current /\ pos[c].op = i
  BY CurrentOnStack DEF SpinInv, Executes
<1>2. WellPlaced(pos[c]) /\ pos[c] # Outside
  BY <1>1 DEF SpinInv, SpinTypeOK, Outside
<1>3. /\ pos[c].on \in Lock /\ pos[c].by \in Call \union {"drop"} /\ pos[c].n \in Nat
      /\ pos[c].by = "lock_now_or_die" => pos[c].on \in Uncontended
      /\ i \notin {"is_locked", "die", "acquire"} => pos[c].n \in DOMAIN Conditions[pos[c].on]
  BY <1>1, <1>2, PlacedInCall
<1>4. /\ Len(Conditions[pos[c].on]) \in Nat
      /\ DOMAIN Conditions[pos[c].on] = 1 .. Len(Conditions[pos[c].on])
  BY <1>3, ConditionsType
<1>5. i \notin {"is_locked", "die"} => pos[c].on \notin guards[c]
  BY <1>1, <1>2 DEF SpinInv, OwnersOK
<1> QED
  BY <1>1, <1>2, <1>3, <1>4, <1>5

\* The early return of try_lock, and its beginning.
LEMMA IsLockedInv ==
    ASSUME SpinInv, NEW c \in Ctx, is_locked(c) PROVE SpinInv'
<1> DEFINE l == pos[c].on
           k == pos[c].by
<1>0. /\ Executes(c, "is_locked") /\ UNCHANGED <<stack, guards, raw_spin>>
      /\ UNCHANGED <<masked, basepri, mask_cnt, SUSPEND_CNT, torn>>
  BY DEF is_locked, held
<1>1. /\ c = Current /\ pos[c].op = "is_locked" /\ pos[c] # Outside /\ WellPlaced(pos[c])
      /\ l \in Lock /\ k \in Call \union {"drop"} /\ Len(Conditions[l]) \in Nat
  BY <1>0, AtInstruction
<1>2. pos[c].n = 0 /\ (k = "lock_now_or_die" => l \in Uncontended)
  BY <1>1, PlacedInCall
<1>3. UpTo(pos[c], l, 0, 0)
  <2>1. UpTo(pos[c], l, 0 - 1, 0 - 1)
    BY <1>1, <1>2, PositionUpTo
  <2>2. \A j : j \in 1 .. 0 <=> j \in 1 .. 0 - 1
    OBVIOUS
  <2>3. QED
    BY <2>1, <2>2 DEF UpTo
<1>4. PICK q : /\ pos' = [pos EXCEPT ![c] = q] /\ UpTo(q, l, 0, 0)
               /\ q.op \notin {"fetch_add", "unmask"} /\ (q # Outside => q.by = k)
               /\ q # Outside /\ l \in guards[c] => q.op \in {"is_locked", "die"}
  <2>0. 0 \in 0 .. Len(Conditions[l])
    BY <1>1
  <2>1. CASE l \in raw_spin
    <3>1. pos' = [pos EXCEPT ![c] = Unhold(0, k, l)]
      BY <2>1 DEF is_locked, Continue, Unhold
    <3>2. QED
      BY <1>1, <1>2, <2>0, <3>1, UnholdPosition
  <2>2. CASE l \notin raw_spin
    <3>1. pos' = [pos EXCEPT ![c] = Hold(0 + 1, k, l)]
      BY <1>2, <2>2 DEF is_locked, HoldNext, Continue
    <3>2. l \notin guards[c]
      BY <2>2 DEF SpinInv, OwnersOK
    <3>3. /\ UpTo(Hold(0 + 1, k, l), l, 0, 0) /\ Hold(0 + 1, k, l).op \notin {"fetch_add", "unmask"}
          /\ Hold(0 + 1, k, l) # Outside => Hold(0 + 1, k, l).by = k
      <4>1. \A n \in 0 .. Len(Conditions[l]) :
                /\ UpTo(Hold(n + 1, k, l), l, n, n) /\ Hold(n + 1, k, l).op \notin {"fetch_add", "unmask"}
                /\ Hold(n + 1, k, l) # Outside => Hold(n + 1, k, l).by = k
        <5>1. l \in Lock /\ k \in Call \union {"drop"} /\ (k = "lock_now_or_die" => l \in Uncontended)
          BY <1>1, <1>2
        <5> HIDE DEF l, k
        <5>2. QED
          BY <5>1, HoldPosition
      <4>2. QED
        BY <2>0, <4>1
    <3>4. QED
      BY <3>1, <3>2, <3>3
  <2>3. QED
    BY <2>1, <2>2
<1>5. /\ pos'[c] = q /\ \A d \in Ctx : d # c => pos'[d] = pos[d]
      /\ SpinTypeOK' /\ StackOK' /\ NestingOK' /\ OwnersOK' /\ BetweenAllOK' /\ OffStackOK'
  BY <1>0, <1>1, <1>4, MoveStep DEF SpinInv, SpinTypeOK, UpTo
<1>6. SuspensionsOK'
  BY <1>0, <1>3, <1>4, <1>5, SameSuspensions DEF SpinInv
<1>7. \A h \in Maskable : Maskings(h)' = Maskings(h)
  BY <1>0, <1>3, <1>4, <1>5, SameMaskings
<1>8. MaskingsOK'
  BY <1>0, <1>1, <1>4, <1>5, <1>7, MaskingsKeep
<1> QED
  BY <1>5, <1>6, <1>8 DEF SpinInv

\* Suspending the scheduler.
LEMMA SuspendInv ==
    ASSUME SpinInv, NEW c \in Ctx, suspend(c) PROVE SpinInv'
<1> DEFINE l == pos[c].on
           k == pos[c].by
           n == pos[c].n
<1>0. /\ Executes(c, "suspend") /\ UNCHANGED <<stack, guards, raw_spin>>
      /\ UNCHANGED <<masked, basepri, mask_cnt, torn>> /\ SUSPEND_CNT' = SUSPEND_CNT + 1
  BY DEF suspend
<1>1. /\ c = Current /\ pos[c].op = "suspend" /\ pos[c] # Outside /\ WellPlaced(pos[c]) /\ l \notin guards[c]
      /\ l \in Lock /\ k \in Call \union {"drop"} /\ n \in Nat
      /\ n \in DOMAIN Conditions[l]
      /\ n \in 0 .. Len(Conditions[l]) /\ n - 1 \in 0 .. Len(Conditions[l])
  BY <1>0, AtInstruction
<1>2. /\ Conditions[l][n] \in Suspending
      /\ k = "lock_now_or_die" => l \in Uncontended
  BY <1>1, PlacedInCall
<1>3. UpTo(pos[c], l, n - 1, n - 1)
  BY <1>1, PositionUpTo
<1>4. PICK q : /\ pos' = [pos EXCEPT ![c] = q] /\ UpTo(q, l, n, n - 1)
               /\ q.op \notin {"fetch_add", "unmask"} /\ (q # Outside => q.by = pos[c].by)
  <2>1. CASE Nth(c) = "all"
    <3>1. pos' = [pos EXCEPT ![c] = Instruction("mask", n, k, l)]
      BY <2>1 DEF suspend, Proceed, Continue
    <3>2. /\ Instruction("mask", n, k, l) # Outside /\ Instruction("mask", n, k, l).op = "mask"
          /\ Instruction("mask", n, k, l).n = n /\ Instruction("mask", n, k, l).on = l
          /\ Instruction("mask", n, k, l).by = k
      BY InstructionFields
    <3>3. Conditions[l][n] \in Maskable
      BY <2>1 DEF Nth, Maskable
    <3>4. WellPlaced(Instruction("mask", n, k, l))
      BY <1>1, <1>2, <3>3, InstructionPlaced
    <3>5. UpTo(Instruction("mask", n, k, l), l, n, n - 1)
      BY <3>2, <3>4, PositionUpTo
    <3>6. QED
      BY <3>1, <3>2, <3>5
  <2>2. CASE Nth(c) # "all"
    <3>1. pos' = [pos EXCEPT ![c] = Hold(n + 1, k, l)]
      BY <2>2 DEF suspend, HoldNext, Continue
    <3>2. /\ UpTo(Hold(n + 1, k, l), l, n, n) /\ Hold(n + 1, k, l).op \notin {"fetch_add", "unmask"}
          /\ Hold(n + 1, k, l) # Outside => Hold(n + 1, k, l).by = k
      BY <1>1, <1>2, HoldPosition
    <3>3. Conditions[l][n] \notin Maskable
      BY <1>2, <2>2, SpinAssumption DEF Nth, Suspending, Maskable
    <3>4. UpTo(Hold(n + 1, k, l), l, n, n - 1)
      BY <1>1, <3>2, <3>3, UpToSkips
    <3>5. QED
      BY <3>1, <3>2, <3>4
  <2>3. QED
    BY <2>1, <2>2
<1>41. masked' \subseteq Irq /\ basepri' \in BOOLEAN /\ mask_cnt' \in [Maskable -> Int]
       /\ SUSPEND_CNT' \in Int
  BY <1>0 DEF SpinInv, SpinTypeOK
<1>42. stack' = stack /\ guards' = guards /\ raw_spin' = raw_spin /\ pos' = [pos EXCEPT ![c] = q]
  BY <1>0, <1>4
<1>43. WellPlaced(q) /\ (q # Outside => q.on = pos[c].on /\ q.by = pos[c].by)
  BY <1>4 DEF UpTo
<1>5. /\ pos'[c] = q /\ \A d \in Ctx : d # c => pos'[d] = pos[d]
      /\ SpinTypeOK' /\ StackOK' /\ NestingOK' /\ OwnersOK' /\ BetweenAllOK' /\ OffStackOK'
  BY <1>0, <1>1, <1>41, <1>42, <1>43, MoveStep DEF SpinInv, SpinTypeOK
<1>6. SuspensionsOK'
  <2>1. UpTo(pos'[c], l, n, n - 1)
    BY <1>4, <1>5
  <2>2. n = (n - 1) + 1
    BY <1>1
  <2> HIDE DEF l, n
  <2>3. QED
    BY <1>0, <1>1, <1>2, <1>3, <1>5, <2>1, <2>2, LevelSuspends DEF SpinInv
<1>7. \A h \in Maskable : Maskings(h)' = Maskings(h)
  BY <1>0, <1>3, <1>4, <1>5, SameMaskings
<1>8. MaskingsOK'
  BY <1>0, <1>1, <1>4, <1>5, <1>7, MaskingsKeep
<1> QED
  BY <1>5, <1>6, <1>8 DEF SpinInv

\* Resuming it.
LEMMA ResumeInv ==
    ASSUME SpinInv, NEW c \in Ctx, resume(c) PROVE SpinInv'
<1> DEFINE l == pos[c].on
           k == pos[c].by
           n == pos[c].n
           q == Unhold(n - 1, k, l)
<1>0. /\ Executes(c, "resume") /\ UNCHANGED <<stack, guards, raw_spin>>
      /\ UNCHANGED <<masked, basepri, mask_cnt, torn>> /\ SUSPEND_CNT' = SUSPEND_CNT - 1
      /\ pos' = [pos EXCEPT ![c] = q]
  BY DEF resume, UnholdNext, Continue
<1>1. /\ c = Current /\ pos[c].op = "resume" /\ pos[c] # Outside /\ WellPlaced(pos[c]) /\ l \notin guards[c]
      /\ l \in Lock /\ k \in Call \union {"drop"} /\ n \in Nat
      /\ n \in DOMAIN Conditions[l]
      /\ n \in 0 .. Len(Conditions[l]) /\ n - 1 \in 0 .. Len(Conditions[l])
  BY <1>0, AtInstruction
<1>2. /\ Conditions[l][n] \in Suspending /\ (k = "lock_now_or_die" => l \in Uncontended)
  BY <1>1, PlacedInCall
<1>3. UpTo(pos[c], l, n, n - 1)
  BY <1>1, PositionUpTo
<1>4. UpTo(q, l, n - 1, n - 1) /\ q.op \notin {"fetch_add", "unmask"} /\ (q # Outside => q.by = k)
  BY <1>1, <1>2, UnholdPosition
<1> HIDE DEF q
<1>41. masked' \subseteq Irq /\ basepri' \in BOOLEAN /\ mask_cnt' \in [Maskable -> Int]
       /\ SUSPEND_CNT' \in Int
  BY <1>0 DEF SpinInv, SpinTypeOK
<1>42. stack' = stack /\ guards' = guards /\ raw_spin' = raw_spin /\ pos' = [pos EXCEPT ![c] = q]
  BY <1>0, <1>4
<1>43. WellPlaced(q) /\ (q # Outside => q.on = pos[c].on /\ q.by = pos[c].by)
  BY <1>4 DEF UpTo
<1>5. /\ pos'[c] = q /\ \A d \in Ctx : d # c => pos'[d] = pos[d]
      /\ SpinTypeOK' /\ StackOK' /\ NestingOK' /\ OwnersOK' /\ BetweenAllOK' /\ OffStackOK'
  BY <1>0, <1>1, <1>41, <1>42, <1>43, MoveStep DEF SpinInv, SpinTypeOK
<1>6. SuspensionsOK'
  <2>1. UpTo(pos'[c], l, n - 1, n - 1)
    BY <1>4, <1>5
  <2>2. n = (n - 1) + 1
    BY <1>1
  <2> HIDE DEF l, n
  <2>3. QED
    BY <1>0, <1>1, <1>2, <1>3, <1>5, <2>1, <2>2, LevelSuspends DEF SpinInv
<1>7. \A h \in Maskable : Maskings(h)' = Maskings(h)
  BY <1>0, <1>3, <1>4, <1>5, SameMaskings
<1>8. MaskingsOK'
  BY <1>0, <1>1, <1>4, <1>5, <1>7, MaskingsKeep
<1> QED
  BY <1>5, <1>6, <1>8 DEF SpinInv

\* Masking, before it is counted.
LEMMA MaskInv ==
    ASSUME SpinInv, NEW c \in Ctx, mask(c) PROVE SpinInv'
<1> DEFINE l == pos[c].on
           k == pos[c].by
           n == pos[c].n
           q == Instruction("fetch_add", n, k, l)
           e == Nth(c)
<1>0. /\ Executes(c, "mask") /\ UNCHANGED <<stack, guards, raw_spin>>
      /\ UNCHANGED <<mask_cnt, SUSPEND_CNT>>
      /\ pos' = [pos EXCEPT ![c] = q]
      /\ IF e = "all" THEN basepri' = TRUE /\ masked' = masked
                      ELSE masked' = masked \union {e} /\ basepri' = basepri
      /\ TearOrMend(c)
  BY DEF mask, Proceed, Continue
<1>1. /\ c = Current /\ pos[c].op = "mask" /\ pos[c] # Outside /\ WellPlaced(pos[c]) /\ l \notin guards[c]
      /\ l \in Lock /\ k \in Call \union {"drop"} /\ n \in Nat
      /\ n \in DOMAIN Conditions[l]
  BY <1>0, AtInstruction
<1>2. /\ Conditions[l][n] \in Maskable
      /\ k = "lock_now_or_die" => l \in Uncontended
  BY <1>1, PlacedInCall
<1>3. UpTo(pos[c], l, n, n - 1)
  BY <1>1, PositionUpTo
<1>4. q # Outside /\ q.op = "fetch_add" /\ q.n = n /\ q.on = l /\ q.by = k
  BY InstructionFields
<1>5. WellPlaced(q)
  BY <1>1, <1>2, InstructionPlaced
<1> HIDE DEF q
<1>6. UpTo(q, l, n, n - 1)
  BY <1>4, <1>5, PositionUpTo
<1>7. masked' \subseteq Irq /\ basepri' \in BOOLEAN
  BY <1>0, <1>2 DEF SpinInv, SpinTypeOK, Maskable, Nth
<1>71. /\ torn' \subseteq Irq /\ \A h : h # e => (h \in torn' <=> h \in torn)
       /\ e \notin torn' => \A d \in Ctx : d # c => ~Between(d, e)
  BY <1>0, <1>1, <1>2, TearStep DEF Nth
<1>8. /\ pos'[c] = q /\ \A d \in Ctx : d # c => pos'[d] = pos[d]
      /\ SpinTypeOK' /\ StackOK' /\ NestingOK' /\ OwnersOK' /\ BetweenAllOK' /\ OffStackOK'
  BY <1>0, <1>1, <1>4, <1>5, <1>7, <1>71, MoveStep DEF SpinInv, SpinTypeOK
<1>9. SuspensionsOK'
  BY <1>0, <1>3, <1>6, <1>8, SameSuspensions DEF SpinInv
<1>10. \A h \in Maskable : Maskings(h)' = Maskings(h)
  BY <1>0, <1>3, <1>6, <1>8, SameMaskings
<1>11. Nth(c)' = e /\ pos'[c].op = "fetch_add"
  BY <1>4, <1>8 DEF Nth
<1>12. MaskingsOK'
  <2> SUFFICES ASSUME NEW h \in Maskable PROVE MaskingOK(h)'
    BY DEF MaskingsOK
  <2>1. MaskingOK(h)
    BY DEF SpinInv, MaskingsOK
  <2>2. CASE h # e
    <3>1. ~Between(c, h) /\ ~Between(c, h)'
      BY <1>1, <1>11, <2>2 DEF Between
    <3>2. IsMasked(h)' <=> IsMasked(h)
      BY <1>0, <2>2 DEF IsMasked
    <3>3. QED
      BY <1>0, <1>71, <1>8, <1>10, <1>11, <2>1, <2>2, <3>1, <3>2, MaskingKeeps
  <2>3. CASE h = e
    <3>1. IsMasked(h)'
      BY <1>0, <2>3 DEF IsMasked
    <3>2. Between(c, h)'
      BY <1>11, <2>3 DEF Between
    <3>3. ASSUME h \notin torn', NEW d \in Ctx, d # c PROVE ~Between(d, h)'
      BY <1>71, <1>8, <2>3, <3>3 DEF Between, Nth
    <3>4. ASSUME h \notin torn', NEW d \in Ctx PROVE ~(pos'[d].op = "unmask" /\ Nth(d)' = h)
      <4>1. pos'[d].op = "unmask" /\ Nth(d)' = h => Between(d, h)'
        BY DEF Between
      <4>2. QED
        BY <1>11, <3>3, <3>4, <4>1
    <3>5. QED
      BY <1>0, <1>10, <2>1, <3>1, <3>2, <3>3, <3>4 DEF MaskingOK
  <2>4. QED
    BY <2>2, <2>3
<1> QED
  BY <1>8, <1>9, <1>12 DEF SpinInv

\* Counting a mask.
LEMMA FetchAddInv ==
    ASSUME SpinInv, NEW c \in Ctx, fetch_add(c) PROVE SpinInv'
<1> DEFINE l == pos[c].on
           k == pos[c].by
           n == pos[c].n
           q == Hold(n + 1, k, l)
           e == Nth(c)
<1>0. /\ Executes(c, "fetch_add") /\ UNCHANGED <<stack, guards, raw_spin>>
      /\ UNCHANGED <<masked, basepri, SUSPEND_CNT>>
      /\ pos' = [pos EXCEPT ![c] = q]
      /\ mask_cnt' = [mask_cnt EXCEPT ![e] = @ + 1] /\ Tear(c)
  BY DEF fetch_add, HoldNext, Continue
<1>1. /\ c = Current /\ pos[c].op = "fetch_add" /\ pos[c] # Outside /\ WellPlaced(pos[c]) /\ l \notin guards[c]
      /\ l \in Lock /\ k \in Call \union {"drop"} /\ n \in Nat
      /\ n \in DOMAIN Conditions[l]
      /\ n \in 0 .. Len(Conditions[l]) /\ n - 1 \in 0 .. Len(Conditions[l])
  BY <1>0, AtInstruction
<1>2. /\ Conditions[l][n] \in Maskable /\ e = Conditions[l][n]
      /\ k = "lock_now_or_die" => l \in Uncontended
  BY <1>1, PlacedInCall DEF Nth
<1>3. UpTo(pos[c], l, n, n - 1)
  BY <1>1, PositionUpTo
<1>4. UpTo(q, l, n, n) /\ q.op \notin {"fetch_add", "unmask"} /\ (q # Outside => q.by = k)
  BY <1>1, <1>2, HoldPosition
<1> HIDE DEF q
<1>5. /\ mask_cnt' \in [Maskable -> Int] /\ mask_cnt'[e] = mask_cnt[e] + 1
      /\ \A h \in Maskable : h # e => mask_cnt'[h] = mask_cnt[h]
  BY <1>0, <1>2 DEF SpinInv, SpinTypeOK
<1>6. WellPlaced(q) /\ (q # Outside => q.on = pos[c].on /\ q.by = pos[c].by)
  BY <1>4 DEF UpTo
<1>61. /\ torn' \subseteq Irq /\ \A h : h # e => (h \in torn' <=> h \in torn)
       /\ e \notin torn' => e \notin torn /\ \A d \in Ctx : d # c => ~Between(d, e)
  BY <1>0, <1>1, <1>2, TearStep
<1>7. /\ pos'[c] = q /\ \A d \in Ctx : d # c => pos'[d] = pos[d]
      /\ SpinTypeOK' /\ StackOK' /\ NestingOK' /\ OwnersOK' /\ BetweenAllOK' /\ OffStackOK'
  <2>1. UNCHANGED <<masked, basepri, SUSPEND_CNT, stack, guards, raw_spin>>
        /\ pos' = [pos EXCEPT ![c] = q]
    BY <1>0
  <2>2. QED
    BY <1>1, <1>5, <1>6, <1>61, <2>1, MoveStep DEF SpinInv, SpinTypeOK
<1>8. SuspensionsOK'
  BY <1>0, <1>3, <1>4, <1>7, SameSuspensions DEF SpinInv
<1>9. UpTo(pos'[c], l, n, n) /\ pos'[c].op \notin {"fetch_add", "unmask"}
  BY <1>4, <1>7
<1>11. MaskingsOK'
  <2> SUFFICES ASSUME NEW h \in Maskable PROVE MaskingOK(h)'
    BY DEF MaskingsOK
  <2>1. MaskingOK(h)
    BY DEF SpinInv, MaskingsOK
  <2>2. IsMasked(h)' <=> IsMasked(h)
    BY <1>0 DEF IsMasked
  <2>3. ~Between(c, h)'
    BY <1>9 DEF Between
  <2>4. CASE h # e
    <3>1. ~Between(c, h)
      BY <2>4 DEF Between
    <3>2. Maskings(h)' = Maskings(h)
      <4>1. guards' = guards /\ h # Conditions[l][n] /\ n \in Nat
        BY <1>0, <1>1, <1>2, <2>4
      <4> HIDE DEF l, n
      <4>2. QED
        BY <1>3, <1>7, <1>9, <4>1, OtherMaskings
    <3>3. QED
      BY <1>5, <1>61, <1>7, <1>9, <2>1, <2>2, <2>3, <2>4, <3>1, <3>2, MaskingKeeps
  <2>5. CASE h = e
    <3>1. Between(c, h)
      BY <1>1, <2>5 DEF Between
    <3>2. h \notin torn' => IsMasked(h)
      BY <1>61, <2>1, <2>5, <3>1 DEF MaskingOK
    <3>3. /\ IsFiniteSet(Maskings(h)') /\ mask_cnt'[h] = Cardinality(Maskings(h)')
          /\ Maskings(h)' # {}
      <4>1. n = (n - 1) + 1 /\ Conditions[l][n] = h /\ mask_cnt'[h] = mask_cnt[h] + 1
        BY <1>1, <1>2, <1>5, <2>5
      <4>2. guards' = guards /\ IsFiniteSet(Maskings(h)) /\ mask_cnt[h] = Cardinality(Maskings(h))
        BY <1>0, <2>1 DEF MaskingOK
      <4> HIDE DEF l, n
      <4>3. QED
        BY <1>1, <1>3, <1>7, <1>9, <4>1, <4>2, LevelMasks DEF SpinInv
    <3>4. ASSUME h \notin torn', NEW d \in Ctx PROVE ~Between(d, h)'
      BY <1>61, <1>7, <2>3, <2>5, <3>4 DEF Between, Nth
    <3>5. ASSUME h \notin torn', NEW d \in Ctx PROVE ~(pos'[d].op = "unmask" /\ Nth(d)' = h)
      BY <3>4, <3>5 DEF Between
    <3>6. QED
      BY <2>2, <3>2, <3>3, <3>4, <3>5 DEF MaskingOK
  <2>6. QED
    BY <2>4, <2>5
<1> QED
  BY <1>7, <1>8, <1>11 DEF SpinInv

\* Where a call goes on when a condition is unmasked or need not be.
LEMMA UnmaskedPosition ==
    ASSUME SpinInv, NEW c \in Ctx, NEW i \in {"fetch_sub", "unmask"}, Executes(c, i), Unmasked(c)
    PROVE  \E q : /\ pos' = [pos EXCEPT ![c] = q] /\ UpTo(q, pos[c].on, pos[c].n, pos[c].n - 1)
                  /\ q.op \notin {"fetch_add", "unmask"} /\ (q # Outside => q.by = pos[c].by)
<1> DEFINE l == pos[c].on
           k == pos[c].by
           n == pos[c].n
<1>1. /\ c = Current /\ pos[c].op = i /\ pos[c] # Outside /\ WellPlaced(pos[c]) /\ l \notin guards[c]
      /\ l \in Lock /\ k \in Call \union {"drop"} /\ n \in Nat
      /\ n \in DOMAIN Conditions[l]
      /\ n \in 0 .. Len(Conditions[l]) /\ n - 1 \in 0 .. Len(Conditions[l])
  BY AtInstruction
<1>2. Conditions[l][n] \in Maskable /\ (k = "lock_now_or_die" => l \in Uncontended)
  BY <1>1, PlacedInCall
<1>3. CASE Nth(c) = "all"
  <2> DEFINE q == Instruction("resume", n, k, l)
  <2>1. pos' = [pos EXCEPT ![c] = q]
    BY <1>3 DEF Unmasked, Proceed, Continue
  <2>2. q # Outside /\ q.op = "resume" /\ q.n = n /\ q.on = l /\ q.by = k
    BY InstructionFields
  <2>3. Conditions[l][n] \in Suspending
    BY <1>3 DEF Nth, Suspending
  <2>4. WellPlaced(q)
    BY <1>1, <1>2, <2>3, InstructionPlaced
  <2> HIDE DEF q
  <2>5. UpTo(q, l, n, n - 1)
    BY <2>2, <2>4, PositionUpTo
  <2>6. QED
    BY <2>1, <2>2, <2>5
<1>4. CASE Nth(c) # "all"
  <2> DEFINE q == Unhold(n - 1, k, l)
  <2>1. pos' = [pos EXCEPT ![c] = q]
    BY <1>4 DEF Unmasked, UnholdNext, Continue
  <2>2. UpTo(q, l, n - 1, n - 1) /\ q.op \notin {"fetch_add", "unmask"} /\ (q # Outside => q.by = k)
    BY <1>1, <1>2, UnholdPosition
  <2>3. Conditions[l][n] \notin Suspending
    BY <1>2, <1>4, SpinAssumption DEF Nth, Suspending, Maskable
  <2>4. n - 1 \in Nat
    BY <1>1
  <2> HIDE DEF q
  <2>5. UpTo(q, l, n, n - 1)
    BY <1>1, <2>2, <2>3, <2>4, UpToSkips
  <2>6. QED
    BY <2>1, <2>2, <2>5
<1> QED
  BY <1>3, <1>4

\* Counting it back, before it is unmasked.
LEMMA FetchSubInv ==
    ASSUME SpinInv, NEW c \in Ctx, fetch_sub(c) PROVE SpinInv'
<1> DEFINE l == pos[c].on
           k == pos[c].by
           n == pos[c].n
           e == Nth(c)
<1>0. /\ Executes(c, "fetch_sub") /\ UNCHANGED <<stack, guards, raw_spin>>
      /\ UNCHANGED <<masked, basepri, SUSPEND_CNT>>
      /\ mask_cnt' = [mask_cnt EXCEPT ![e] = @ - 1]
      /\ IF mask_cnt[e] = 1 THEN Proceed(c, "unmask") ELSE Unmasked(c)
      /\ Tear(c)
  BY DEF fetch_sub
<1>1. /\ c = Current /\ pos[c].op = "fetch_sub" /\ pos[c] # Outside /\ WellPlaced(pos[c]) /\ l \notin guards[c]
      /\ l \in Lock /\ k \in Call \union {"drop"} /\ n \in Nat
      /\ n \in DOMAIN Conditions[l]
      /\ n \in 0 .. Len(Conditions[l]) /\ n - 1 \in 0 .. Len(Conditions[l])
  BY <1>0, AtInstruction
<1>2. /\ Conditions[l][n] \in Maskable /\ e = Conditions[l][n] /\ (k = "lock_now_or_die" => l \in Uncontended)
  BY <1>1, PlacedInCall DEF Nth
<1>3. UpTo(pos[c], l, n, n)
  BY <1>1, PositionUpTo
<1>4. PICK q : /\ pos' = [pos EXCEPT ![c] = q] /\ UpTo(q, l, n, n - 1)
               /\ q # Outside => q.by = pos[c].by
               /\ mask_cnt[e] = 1 => q.op = "unmask" /\ q.n = n /\ q.on = l /\ q.by = k
               /\ mask_cnt[e] # 1 => q.op \notin {"fetch_add", "unmask"}
  <2>1. CASE mask_cnt[e] = 1
    <3> DEFINE q == Instruction("unmask", n, k, l)
    <3>1. pos' = [pos EXCEPT ![c] = q]
      BY <1>0, <2>1 DEF Proceed, Continue
    <3>2. q # Outside /\ q.op = "unmask" /\ q.n = n /\ q.on = l /\ q.by = k
      BY InstructionFields
    <3>3. WellPlaced(q)
      BY <1>1, <1>2, InstructionPlaced
    <3> HIDE DEF q
    <3>4. UpTo(q, l, n, n - 1)
      BY <3>2, <3>3, PositionUpTo
    <3>5. QED
      BY <2>1, <3>1, <3>2, <3>4
  <2>2. CASE mask_cnt[e] # 1
    BY <1>0, <2>2, UnmaskedPosition
  <2>3. QED
    BY <2>1, <2>2
<1>5. /\ mask_cnt' \in [Maskable -> Int] /\ mask_cnt'[e] = mask_cnt[e] - 1
      /\ \A h \in Maskable : h # e => mask_cnt'[h] = mask_cnt[h]
  BY <1>0, <1>2 DEF SpinInv, SpinTypeOK
<1>6. WellPlaced(q) /\ (q # Outside => q.on = pos[c].on /\ q.by = pos[c].by)
  BY <1>4 DEF UpTo
<1>61. /\ torn' \subseteq Irq /\ \A h : h # e => (h \in torn' <=> h \in torn)
       /\ e \notin torn' => e \notin torn /\ \A d \in Ctx : d # c => ~Between(d, e)
  BY <1>0, <1>1, <1>2, TearStep
<1>7. /\ pos'[c] = q /\ \A d \in Ctx : d # c => pos'[d] = pos[d]
      /\ SpinTypeOK' /\ StackOK' /\ NestingOK' /\ OwnersOK' /\ BetweenAllOK' /\ OffStackOK'
  <2>1. UNCHANGED <<masked, basepri, SUSPEND_CNT, stack, guards, raw_spin>>
        /\ pos' = [pos EXCEPT ![c] = q]
    BY <1>0, <1>4
  <2>2. QED
    BY <1>1, <1>5, <1>6, <1>61, <2>1, MoveStep DEF SpinInv, SpinTypeOK
<1>8. SuspensionsOK'
  BY <1>0, <1>3, <1>4, <1>7, SameSuspensions DEF SpinInv
<1>9. UpTo(pos'[c], l, n, n - 1)
  BY <1>4, <1>7
<1>10. /\ mask_cnt[e] = 1 => pos'[c].op = "unmask" /\ Nth(c)' = e
       /\ mask_cnt[e] # 1 => pos'[c].op \notin {"fetch_add", "unmask"}
  BY <1>4, <1>7 DEF Nth
<1>11. MaskingsOK'
  <2> SUFFICES ASSUME NEW h \in Maskable PROVE MaskingOK(h)'
    BY DEF MaskingsOK
  <2>1. MaskingOK(h)
    BY DEF SpinInv, MaskingsOK
  <2>2. IsMasked(h)' <=> IsMasked(h)
    BY <1>0 DEF IsMasked
  <2>3. CASE h # e
    <3>1. ~Between(c, h) /\ ~Between(c, h)' /\ ~(pos'[c].op = "unmask" /\ Nth(c)' = h)
      BY <1>10, <2>3 DEF Between
    <3>2. Maskings(h)' = Maskings(h)
      <4>1. guards' = guards /\ h # Conditions[l][n] /\ n \in Nat
        BY <1>0, <1>1, <1>2, <2>3
      <4> HIDE DEF l, n
      <4>2. QED
        BY <1>3, <1>7, <1>9, <4>1, OtherMaskings
    <3>3. QED
      BY <1>5, <1>61, <1>7, <2>1, <2>2, <2>3, <3>1, <3>2, MaskingKeeps
  <2>4. CASE h = e
    <3>1. /\ IsFiniteSet(Maskings(h)') /\ mask_cnt'[h] = Cardinality(Maskings(h)')
          /\ Maskings(h)' = {} <=> mask_cnt[h] = 1
          /\ Maskings(h) # {}
      <4>1. n = (n - 1) + 1 /\ Conditions[l][n] = h /\ mask_cnt'[h] = mask_cnt[h] - 1
        BY <1>1, <1>2, <1>5, <2>4
      <4>2. guards' = guards /\ IsFiniteSet(Maskings(h)) /\ mask_cnt[h] = Cardinality(Maskings(h))
        BY <1>0, <2>1 DEF MaskingOK
      <4> HIDE DEF l, n
      <4>3. QED
        BY <1>1, <1>3, <1>7, <1>9, <4>1, <4>2, LevelMasks DEF SpinInv
    <3>2. h \notin torn' => IsMasked(h)'
      BY <1>61, <2>1, <2>2, <2>4, <3>1 DEF MaskingOK
    <3>3. mask_cnt[h] = 1 => Between(c, h)'
      BY <1>10, <2>4 DEF Between
    <3>4. ASSUME h \notin torn', NEW d \in Ctx, d # c PROVE ~Between(d, h)'
      BY <1>61, <1>7, <2>4, <3>4 DEF Between, Nth
    <3>5. ASSUME h \notin torn', NEW d \in Ctx, pos'[d].op = "unmask", Nth(d)' = h PROVE Maskings(h)' = {}
      <4>1. Between(d, h)'
        BY <3>5 DEF Between
      <4>2. d = c
        BY <3>4, <3>5, <4>1
      <4>3. QED
        BY <1>10, <2>4, <3>1, <3>5, <4>2
    <3>6. QED
      BY <2>1, <2>2, <3>1, <3>2, <3>3, <3>4, <3>5 DEF MaskingOK
  <2>5. QED
    BY <2>3, <2>4
<1> QED
  BY <1>7, <1>8, <1>11 DEF SpinInv

\* Unmasking.
LEMMA UnmaskInv ==
    ASSUME SpinInv, NEW c \in Ctx, unmask(c) PROVE SpinInv'
<1> DEFINE l == pos[c].on
           n == pos[c].n
           e == Nth(c)
<1>0. /\ Executes(c, "unmask") /\ UNCHANGED <<stack, guards, raw_spin>>
      /\ UNCHANGED <<mask_cnt, SUSPEND_CNT>>
      /\ IF e = "all" THEN basepri' = FALSE /\ masked' = masked
                      ELSE masked' = masked \ {e} /\ basepri' = basepri
      /\ Unmasked(c) /\ Tear(c)
  BY DEF unmask
<1>1. /\ c = Current /\ pos[c].op = "unmask" /\ pos[c] # Outside /\ WellPlaced(pos[c]) /\ l \notin guards[c]
      /\ l \in Lock /\ n \in Nat /\ n \in DOMAIN Conditions[l]
  BY <1>0, AtInstruction
<1>2. e \in Maskable
  BY <1>1, PlacedInCall DEF Nth
<1>3. UpTo(pos[c], l, n, n - 1)
  BY <1>1, PositionUpTo
<1>4. PICK q : /\ pos' = [pos EXCEPT ![c] = q] /\ UpTo(q, l, n, n - 1)
               /\ q.op \notin {"fetch_add", "unmask"} /\ (q # Outside => q.by = pos[c].by)
  BY <1>0, UnmaskedPosition
<1>5. masked' \subseteq Irq /\ basepri' \in BOOLEAN
  BY <1>0 DEF SpinInv, SpinTypeOK
<1>6. WellPlaced(q) /\ (q # Outside => q.on = pos[c].on /\ q.by = pos[c].by)
  BY <1>4 DEF UpTo
<1>61. /\ torn' \subseteq Irq /\ \A h : h # e => (h \in torn' <=> h \in torn)
       /\ e \notin torn' => e \notin torn /\ \A d \in Ctx : d # c => ~Between(d, e)
  BY <1>0, <1>1, <1>2, TearStep
<1>7. /\ pos'[c] = q /\ \A d \in Ctx : d # c => pos'[d] = pos[d]
      /\ SpinTypeOK' /\ StackOK' /\ NestingOK' /\ OwnersOK' /\ BetweenAllOK' /\ OffStackOK'
  <2>1. UNCHANGED <<mask_cnt, SUSPEND_CNT, stack, guards, raw_spin>>
        /\ pos' = [pos EXCEPT ![c] = q]
    BY <1>0, <1>4
  <2>2. QED
    BY <1>1, <1>5, <1>6, <1>61, <2>1, MoveStep DEF SpinInv, SpinTypeOK
<1>8. SuspensionsOK'
  BY <1>0, <1>3, <1>4, <1>7, SameSuspensions DEF SpinInv
<1>9. \A h \in Maskable : Maskings(h)' = Maskings(h)
  BY <1>0, <1>3, <1>4, <1>7, SameMaskings
<1>11. MaskingsOK'
  <2> SUFFICES ASSUME NEW h \in Maskable PROVE MaskingOK(h)'
    BY DEF MaskingsOK
  <2>1. MaskingOK(h)
    BY DEF SpinInv, MaskingsOK
  <2>2. ~Between(c, h)' /\ pos'[c].op # "unmask"
    BY <1>4, <1>7 DEF Between
  <2>3. CASE h # e
    <3>1. ~Between(c, h)
      BY <2>3 DEF Between
    <3>2. IsMasked(h)' <=> IsMasked(h)
      BY <1>0, <2>3 DEF IsMasked
    <3>3. QED
      BY <1>0, <1>61, <1>7, <1>9, <2>1, <2>2, <2>3, <3>1, <3>2, MaskingKeeps
  <2>4. CASE h = e
    <3>1. ~IsMasked(h)'
      BY <1>0, <2>4 DEF IsMasked
    <3>2. h \notin torn' => Maskings(h) = {}
      BY <1>1, <1>61, <2>1, <2>4 DEF MaskingOK
    <3>3. ASSUME h \notin torn', NEW d \in Ctx PROVE ~Between(d, h)'
      BY <1>61, <1>7, <2>2, <2>4, <3>3 DEF Between, Nth
    <3>4. ASSUME h \notin torn', NEW d \in Ctx PROVE ~(pos'[d].op = "unmask" /\ Nth(d)' = h)
      BY <3>3, <3>4 DEF Between
    <3>5. QED
      BY <1>0, <1>9, <2>1, <3>1, <3>2, <3>3, <3>4 DEF MaskingOK
  <2>5. QED
    BY <2>3, <2>4
<1> QED
  BY <1>7, <1>8, <1>11 DEF SpinInv

-----------------------------------------------------------------------------
(***************************************************************************)
(* The steps that change the guards.                                       *)
(***************************************************************************)
\* The guards g have the j-th condition of lock k.
SuspendingGuard(g, k, j) == k \in g /\ j \in DOMAIN Conditions[k] /\ Conditions[k][j] \in Suspending
MaskingGuard(h, g, k, j) == k \in g /\ j \in DOMAIN Conditions[k] /\ Conditions[k][j] = h

\* A guard has what a call about its lock has with all conditions in effect.
LEMMA GuardOfLock ==
    ASSUME NEW g, NEW l \in Lock
    PROVE  /\ \A k, j : SuspendingTo(g, l, Len(Conditions[l]), k, j) <=> SuspendingGuard(g \union {l}, k, j)
           /\ \A h, k, j : MaskingTo(h, g, l, Len(Conditions[l]), k, j) <=> MaskingGuard(h, g \union {l}, k, j)
<1>1. DOMAIN Conditions[l] = 1 .. Len(Conditions[l])
  BY ConditionsType
<1>2. ASSUME NEW k, NEW j
      PROVE  SuspendingTo(g, l, Len(Conditions[l]), k, j) <=> SuspendingGuard(g \union {l}, k, j)
  BY <1>1 DEF SuspendingTo, SuspendingGuard
<1>3. ASSUME NEW h, NEW k, NEW j
      PROVE  MaskingTo(h, g, l, Len(Conditions[l]), k, j) <=> MaskingGuard(h, g \union {l}, k, j)
  BY <1>1 DEF MaskingTo, MaskingGuard
<1> QED
  BY <1>2, <1>3

\* A call takes its lock, with all the conditions in effect, or a guard becomes
\* a call that has them still: nothing changes for the counters.
LEMMA GuardStep ==
    ASSUME SpinInv, NEW c \in Ctx, NEW l \in Lock, NEW g,
           \/ /\ guards[c] = g /\ UpTo(pos[c], l, Len(Conditions[l]), Len(Conditions[l]))
              /\ guards'[c] = g \union {l} /\ pos'[c] = Outside
           \/ /\ guards'[c] = g /\ UpTo(pos'[c], l, Len(Conditions[l]), Len(Conditions[l]))
              /\ guards[c] = g \union {l} /\ pos[c] = Outside,
           \A d \in Ctx : d # c => pos'[d] = pos[d] /\ guards'[d] = guards[d],
           pos[c].op \notin {"fetch_add", "unmask"}, pos'[c].op \notin {"fetch_add", "unmask"},
           masked' = masked, basepri' = basepri, mask_cnt' = mask_cnt,
           SUSPEND_CNT' = SUSPEND_CNT, torn' = torn
    PROVE  SuspensionsOK' /\ MaskingsOK'
<1> DEFINE N == Len(Conditions[l])
           G == g \union {l}
<1>1. /\ \A k, j : SuspendingTo(g, l, N, k, j) <=> SuspendingGuard(G, k, j)
      /\ \A h, k, j : MaskingTo(h, g, l, N, k, j) <=> MaskingGuard(h, G, k, j)
  BY GuardOfLock
<1> HIDE DEF G, N
<1>2. pos[c] = Outside /\ guards[c] = G =>
          /\ \A k, j : Suspends(c, k, j) <=> SuspendingGuard(G, k, j)
          /\ \A h, k, j : Masks(h, c, k, j) <=> MaskingGuard(h, G, k, j)
  BY DEF Suspends, Masks, Has, SuspendingGuard, MaskingGuard
<1>3. pos'[c] = Outside /\ guards'[c] = G =>
          /\ \A k, j : Suspends(c, k, j)' <=> SuspendingGuard(G, k, j)
          /\ \A h, k, j : Masks(h, c, k, j)' <=> MaskingGuard(h, G, k, j)
  BY DEF Suspends, Masks, Has, SuspendingGuard, MaskingGuard
<1>4. ASSUME UpTo(pos[c], l, N, N), guards[c] = g
      PROVE  /\ \A k, j : Suspends(c, k, j) <=> SuspendingGuard(G, k, j)
             /\ \A h \in Maskable : \A k, j : Masks(h, c, k, j) <=> MaskingGuard(h, G, k, j)
  <2>1. \A k, j : Suspends(c, k, j) <=> SuspendingTo(guards[c], l, N, k, j)
    BY <1>4, SuspendsUpTo
  <2>2. \A h \in Maskable : \A k, j : Masks(h, c, k, j) <=> MaskingTo(h, guards[c], l, N, k, j)
    BY <1>4, MasksUpTo
  <2>3. QED
    BY <1>1, <1>4, <2>1, <2>2
<1>5. ASSUME UpTo(pos'[c], l, N, N), guards'[c] = g
      PROVE  /\ \A k, j : Suspends(c, k, j)' <=> SuspendingGuard(G, k, j)
             /\ \A h \in Maskable : \A k, j : Masks(h, c, k, j)' <=> MaskingGuard(h, G, k, j)
  <2>1. \A k, j : Suspends(c, k, j)' <=> SuspendingTo(guards'[c], l, N, k, j)
    BY <1>5, SuspendsUpToNext
  <2>2. \A h \in Maskable : \A k, j : Masks(h, c, k, j)' <=> MaskingTo(h, guards'[c], l, N, k, j)
    BY <1>5, MasksUpToNext
  <2>3. QED
    BY <1>1, <1>5, <2>1, <2>2
<1>6. /\ \A k, j : Suspends(c, k, j)' <=> Suspends(c, k, j)
      /\ \A h \in Maskable : \A k, j : Masks(h, c, k, j)' <=> Masks(h, c, k, j)
  BY <1>2, <1>3, <1>4, <1>5 DEF N, G
<1>7. \A d \in Ctx, k \in Lock, j \in Nat : Suspends(d, k, j)' <=> Suspends(d, k, j)
  BY <1>6, OthersKeep
<1>8. \A h \in Maskable : \A d \in Ctx, k \in Lock, j \in Nat : Masks(h, d, k, j)' <=> Masks(h, d, k, j)
  BY <1>6, OthersKeep
<1>9. \A h \in Maskable : Maskings(h)' = Maskings(h)
  BY <1>8, MaskingsStay
<1>10. SuspensionsOK'
  BY <1>7, SuspensionsStay DEF SpinInv
<1>11. MaskingsOK'
  BY <1>9, MaskingsKeep
<1> QED
  BY <1>10, <1>11

\* Taking the lock, or giving the conditions back as somebody else has it.
LEMMA AcquireInv ==
    ASSUME SpinInv, NEW c \in Ctx, acquire(c) PROVE SpinInv'
<1> DEFINE l == pos[c].on
           k == pos[c].by
           N == Len(Conditions[l])
<1>0. /\ Executes(c, "acquire") /\ UNCHANGED stack
      /\ UNCHANGED <<masked, basepri, mask_cnt, SUSPEND_CNT, torn>>
  BY DEF acquire, held
<1>1. /\ c = Current /\ pos[c].op = "acquire" /\ pos[c] # Outside /\ WellPlaced(pos[c]) /\ l \notin guards[c]
      /\ l \in Lock /\ k \in Call \union {"drop"} /\ N \in Nat
  BY <1>0, AtInstruction
<1>2. pos[c].n = N + 1 /\ (k = "lock_now_or_die" => l \in Uncontended)
  BY <1>1, PlacedInCall
<1>3. UpTo(pos[c], l, N, N)
  <2>1. UpTo(pos[c], l, pos[c].n - 1, pos[c].n - 1)
    BY <1>1, PositionUpTo
  <2>2. pos[c].n - 1 = N
    BY <1>1, <1>2
  <2>3. QED
    BY <2>1, <2>2
<1>4. CASE l \in raw_spin
  <2> DEFINE q == Unhold(N, k, l)
  <2>1. UNCHANGED <<guards, raw_spin>> /\ pos' = [pos EXCEPT ![c] = q]
    <3>1. pos[c].n - 1 = N
      BY <1>1, <1>2
    <3>2. QED
      BY <1>4, <3>1 DEF acquire, UnholdNext, Continue
  <2>3. N \in 0 .. Len(Conditions[l])
    BY <1>1
  <2>4. UpTo(q, l, N, N) /\ q.op \notin {"fetch_add", "unmask"} /\ (q # Outside => q.by = k)
    BY <1>1, <1>2, <2>3, UnholdPosition
  <2> HIDE DEF q
  <2>5. /\ pos'[c] = q /\ \A d \in Ctx : d # c => pos'[d] = pos[d]
        /\ SpinTypeOK' /\ StackOK' /\ NestingOK' /\ OwnersOK' /\ BetweenAllOK' /\ OffStackOK'
    <3>1. WellPlaced(q) /\ (q # Outside => q.on = pos[c].on /\ q.by = pos[c].by)
      BY <2>4 DEF UpTo
    <3>2. QED
      BY <1>0, <1>1, <2>1, <3>1, MoveStep DEF SpinInv, SpinTypeOK
  <2>6. SuspensionsOK'
    BY <1>0, <1>3, <2>1, <2>4, <2>5, SameSuspensions DEF SpinInv
  <2>7. \A h \in Maskable : Maskings(h)' = Maskings(h)
    BY <1>3, <2>1, <2>4, <2>5, SameMaskings
  <2>8. MaskingsOK'
    BY <1>0, <1>1, <2>4, <2>5, <2>7, MaskingsKeep
  <2>9. QED
    BY <2>5, <2>6, <2>8 DEF SpinInv
<1>5. CASE l \notin raw_spin
  <2> DEFINE g == guards[c]
  <2>1. /\ raw_spin' = raw_spin \union {l} /\ guards' = [guards EXCEPT ![c] = g \union {l}]
        /\ pos' = [pos EXCEPT ![c] = Outside]
    BY <1>5 DEF acquire, Continue
  <2>2. g \subseteq Lock /\ guards \in [Ctx -> SUBSET Lock] /\ DOMAIN pos = Ctx
    BY GuardsType DEF SpinInv, SpinTypeOK
  <2>3. /\ guards'[c] = g \union {l} /\ pos'[c] = Outside
        /\ \A d \in Ctx : d # c => pos'[d] = pos[d] /\ guards'[d] = guards[d]
    BY <2>1, <2>2
  <2>5. SpinTypeOK'
    <3>1. WellPlaced(Outside)
      BY DEF WellPlaced
    <3>2. \A d \in Ctx : WellPlaced(pos'[d])
      BY <2>3, <3>1 DEF SpinInv, SpinTypeOK
    <3>3. guards' \in [Ctx -> SUBSET Lock] /\ DOMAIN pos' = Ctx
      BY <1>1, <2>1, <2>2
    <3>4. raw_spin' \subseteq Lock
      BY <1>1, <2>1 DEF SpinInv, SpinTypeOK
    <3>5. QED
      BY <1>0, <3>2, <3>3, <3>4 DEF SpinInv, SpinTypeOK
  <2>6. StackOK' /\ BetweenAllOK' /\ OffStackOK'
    BY <1>0, <1>1, <2>3, FrameStep
  <2>7. NestingOK'
    <3>1. Uses(c, l)
      BY <1>1, UsesItsLocks DEF SpinInv
    <3>2. \A d \in Ctx : Locks(d)' \subseteq Locks(d) \union (IF d = c THEN {l} ELSE {})
      BY <2>3 DEF Locks
    <3>3. QED
      BY <2>3, <3>1, <3>2 DEF SpinInv, NestingOK
  <2> HIDE DEF l
  <2>8. OwnersOK'
    <3>1. ASSUME NEW x \in raw_spin' PROVE \E d \in Ctx : x \in guards'[d]
      <4>1. CASE x = l
        BY <2>3, <4>1
      <4>2. CASE x # l
        <5>1. PICK d \in Ctx : x \in guards[d]
          BY <2>1, <4>2 DEF SpinInv, OwnersOK
        <5>2. x \in guards'[d]
          BY <2>3, <5>1
        <5>3. QED
          BY <5>2
      <4>3. QED
        BY <4>1, <4>2
    <3>2. \A d \in Ctx : guards'[d] \subseteq raw_spin'
      BY <2>1, <2>3 DEF SpinInv, OwnersOK
    <3>3. \A d \in Ctx : l \notin guards[d]
      BY <1>5 DEF SpinInv, OwnersOK
    <3>4. \A d, e \in Ctx : d # e => guards'[d] \intersect guards'[e] = {}
      BY <2>3, <3>3 DEF SpinInv, OwnersOK
    <3>5. \A d \in Ctx : pos'[d] # Outside /\ pos'[d].on \in guards'[d] =>
                             pos'[d].op \in {"is_locked", "die"}
      BY <2>3 DEF SpinInv, OwnersOK
    <3>6. QED
      BY <3>1, <3>2, <3>4, <3>5 DEF OwnersOK
  <2>9. SuspensionsOK' /\ MaskingsOK'
    <3>1. pos'[c].op \notin {"fetch_add", "unmask"}
      BY <2>3 DEF Outside
    <3>2. guards[c] = g
      OBVIOUS
    <3> HIDE DEF N, g
    <3>3. UpTo(pos[c], l, Len(Conditions[l]), Len(Conditions[l]))
      BY <1>3 DEF N
    <3>4. QED
      BY <1>0, <1>1, <2>3, <3>1, <3>2, <3>3, GuardStep
  <2>10. QED
    BY <2>5, <2>6, <2>7, <2>8, <2>9 DEF SpinInv
<1> QED
  BY <1>4, <1>5

\* Dropping a guard: the lock first.
LEMMA DropInv ==
    ASSUME SpinInv, NEW c \in Ctx, drop(c) PROVE SpinInv'
<1>0. PICK l \in guards[c] :
          /\ raw_spin' = raw_spin \ {l} /\ guards' = [guards EXCEPT ![c] = @ \ {l}]
          /\ pos' = [pos EXCEPT ![c] = Unhold(Len(Conditions[l]), "drop", l)]
  BY DEF drop, Continue
<1> DEFINE g == guards[c] \ {l}
           N == Len(Conditions[l])
           q == Unhold(N, "drop", l)
<1>1. /\ c = Current /\ pos[c] = Outside
      /\ UNCHANGED <<stack, masked, basepri, mask_cnt, SUSPEND_CNT, torn>>
      /\ guards' = [guards EXCEPT ![c] = g] /\ pos' = [pos EXCEPT ![c] = q]
  BY <1>0 DEF drop, held
<1>2. guards \in [Ctx -> SUBSET Lock] /\ DOMAIN pos = Ctx
  BY DEF SpinInv, SpinTypeOK
<1>3. g \subseteq Lock /\ l \in Lock /\ guards[c] = g \union {l} /\ l \notin g
  BY <1>0, <1>2
<1>4. UpTo(q, l, N, N) /\ q.op \notin {"fetch_add", "unmask"} /\ (q # Outside => q.by = "drop")
  <2>1. N \in 0 .. Len(Conditions[l])
    BY <1>3, ConditionsType
  <2>2. QED
    BY <1>3, <2>1, UnholdPosition
<1> HIDE DEF q, g, N
<1>5. /\ guards'[c] = g /\ pos'[c] = q
      /\ \A d \in Ctx : d # c => pos'[d] = pos[d] /\ guards'[d] = guards[d]
  BY <1>1, <1>2
<1>6. SpinTypeOK'
  <2>1. \A d \in Ctx : WellPlaced(pos'[d])
    BY <1>4, <1>5 DEF SpinInv, SpinTypeOK, UpTo
  <2>2. guards' \in [Ctx -> SUBSET Lock] /\ DOMAIN pos' = Ctx
    BY <1>1, <1>2, <1>3
  <2>3. QED
    BY <1>0, <1>1, <2>1, <2>2 DEF SpinInv, SpinTypeOK
<1>7. StackOK' /\ BetweenAllOK' /\ OffStackOK'
  BY <1>1, <1>5, FrameStep
<1>8. NestingOK'
  <2>1. q # Outside => q.by \notin Call
    BY <1>4 DEF Call
  <2>2. \A d \in Ctx : Locks(d)' \subseteq Locks(d)
    BY <1>1, <1>3, <1>4, <1>5 DEF Locks, UpTo
  <2>3. QED
    BY <1>5, <2>1, <2>2 DEF SpinInv, NestingOK
<1>9. OwnersOK'
  <2>1. q # Outside => q.on = l
    BY <1>4 DEF UpTo
  <2>2. \A d \in Ctx : d # c => l \notin guards[d]
    BY <1>0 DEF SpinInv, OwnersOK
  <2>3. \A x \in raw_spin' : \E d \in Ctx : x \in guards'[d]
    <3> SUFFICES ASSUME NEW x \in raw_spin' PROVE \E d \in Ctx : x \in guards'[d]
      OBVIOUS
    <3>1. PICK d \in Ctx : x \in guards[d]
      BY <1>0 DEF SpinInv, OwnersOK
    <3>2. x \in guards'[d]
      BY <1>0, <1>3, <1>5, <3>1
    <3>3. QED
      BY <3>2
  <2>4. \A d \in Ctx : guards'[d] \subseteq raw_spin'
    BY <1>0, <1>3, <1>5, <2>2 DEF SpinInv, OwnersOK
  <2>5. \A d, e \in Ctx : d # e => guards'[d] \intersect guards'[e] = {}
    BY <1>3, <1>5 DEF SpinInv, OwnersOK
  <2>6. \A d \in Ctx : pos'[d] # Outside /\ pos'[d].on \in guards'[d] =>
                           pos'[d].op \in {"is_locked", "die"}
    BY <1>3, <1>5, <2>1 DEF SpinInv, OwnersOK
  <2>7. QED
    BY <2>3, <2>4, <2>5, <2>6 DEF OwnersOK
<1>10. SuspensionsOK' /\ MaskingsOK'
  <2>1. pos[c].op \notin {"fetch_add", "unmask"}
    BY <1>1 DEF Outside
  <2>2. UpTo(pos'[c], l, Len(Conditions[l]), Len(Conditions[l])) /\ pos'[c].op \notin {"fetch_add", "unmask"}
    BY <1>4, <1>5 DEF N
  <2>3. QED
    BY <1>1, <1>3, <1>5, <2>1, <2>2, GuardStep
<1> QED
  BY <1>6, <1>7, <1>8, <1>9, <1>10 DEF SpinInv

\* A call begins.
LEMMA BeginInv ==
    ASSUME SpinInv, NEW c \in Ctx, begin(c) PROVE SpinInv'
<1>0. /\ c = Current /\ pos[c] = Outside
      /\ UNCHANGED <<stack, guards, raw_spin, masked, basepri, mask_cnt, SUSPEND_CNT, torn>>
  BY DEF begin, held
<1>1. PICK l \in Lock, k \in Call :
          /\ <<guards[c], l>> \in Nesting[c]
          /\ k = "lock_now_or_die" => l \in Uncontended
          /\ pos' = [pos EXCEPT ![c] = Instruction("is_locked", 0, k, l)]
  BY DEF begin, Continue
<1> DEFINE q == Instruction("is_locked", 0, k, l)
<1>2. q # Outside /\ q.op = "is_locked" /\ q.n = 0 /\ q.on = l
  BY InstructionFields
<1>3. WellPlaced(q)
  BY <1>1, InstructionPlaced
<1>4. pos' = [pos EXCEPT ![c] = q]
  BY <1>1
<1> HIDE DEF q
<1>5. DOMAIN pos = Ctx /\ pos'[c] = q /\ DOMAIN pos' = Ctx /\ \A d \in Ctx : d # c => pos'[d] = pos[d]
  BY <1>4 DEF SpinInv, SpinTypeOK
<1>6. SpinTypeOK'
  <2>1. \A d \in Ctx : WellPlaced(pos'[d])
    BY <1>3, <1>5 DEF SpinInv, SpinTypeOK
  <2>2. QED
    BY <1>0, <1>5, <2>1 DEF SpinInv, SpinTypeOK
<1>7. StackOK' /\ BetweenAllOK' /\ OffStackOK'
  BY <1>0, <1>5, FrameStep
<1>8. NestingOK'
  <2>1. q.by = k
    BY InstructionFields DEF q
  <2>2. Uses(c, l)
    BY <1>1, GuardsType DEF SpinInv, Uses
  <2>3. \A d \in Ctx : Locks(d)' \subseteq Locks(d) \union (IF d = c THEN {l} ELSE {})
    BY <1>0, <1>2, <1>5 DEF Locks
  <2>4. QED
    BY <1>0, <1>1, <1>2, <1>5, <2>1, <2>2, <2>3 DEF SpinInv, NestingOK
<1>9. OwnersOK'
  BY <1>0, <1>2, <1>5 DEF SpinInv, OwnersOK
<1>10. \A j, ops, H : ~InForce(pos[c], j, ops, H)
  BY <1>0 DEF InForce
<1>11. \A j, ops, H : "is_locked" \notin ops => ~InForce(pos'[c], j, ops, H)
  <2>1. DOMAIN Conditions[l] = 1 .. Len(Conditions[l]) /\ Len(Conditions[l]) \in Nat
    BY ConditionsType
  <2>2. QED
    BY <1>2, <1>5, <2>1 DEF InForce
<1>12. "is_locked" \notin WhileSuspended
  BY DEF WhileSuspended
<1>13. \A d \in Ctx, m \in Lock, j \in Nat : Suspends(d, m, j)' <=> Suspends(d, m, j)
  <2>1. \A m, j : Suspends(c, m, j)' <=> Suspends(c, m, j)
    BY <1>0, <1>10, <1>11, <1>12 DEF Suspends, Has
  <2>2. QED
    BY <1>0, <1>5, <2>1, OthersKeep
<1>14. \A h \in Maskable : Maskings(h)' = Maskings(h)
  <2> SUFFICES ASSUME NEW h \in Maskable PROVE Maskings(h)' = Maskings(h)
    OBVIOUS
  <2>1. \A m, j : Masks(h, c, m, j)' <=> Masks(h, c, m, j)
    BY <1>0, <1>10, <1>11 DEF Masks, Has
  <2>2. \A d \in Ctx, m \in Lock, j \in Nat : Masks(h, d, m, j)' <=> Masks(h, d, m, j)
    BY <1>0, <1>5, <2>1, OthersKeep
  <2>3. QED
    BY <2>2, MaskingsStay
<1>15. SuspensionsOK'
  BY <1>0, <1>13, SuspensionsStay DEF SpinInv
<1>16. MaskingsOK'
  <2>1. pos[c].op \notin {"fetch_add", "unmask"} /\ pos'[c].op \notin {"fetch_add", "unmask"}
    BY <1>0, <1>2, <1>5 DEF Outside
  <2>2. QED
    BY <1>0, <1>5, <1>14, <2>1, MaskingsKeep
<1> QED
  BY <1>6, <1>7, <1>8, <1>9, <1>15, <1>16 DEF SpinInv

-----------------------------------------------------------------------------
(***************************************************************************)
(* Who runs.                                                               *)
(***************************************************************************)
\* What does not depend on who runs.
LEMMA RunsStep ==
    ASSUME SpinInv, stack' \in Seq(Ctx), UNCHANGED <<pos, guards, raw_spin, held, torn>>
    PROVE  SpinTypeOK' /\ NestingOK' /\ OwnersOK' /\ SuspensionsOK' /\ MaskingsOK'
<1>0. UNCHANGED <<pos, guards, raw_spin>> /\ UNCHANGED <<masked, basepri, mask_cnt, SUSPEND_CNT, torn>>
  BY DEF held
<1>1. SpinTypeOK'
  BY <1>0 DEF SpinInv, SpinTypeOK
<1>2. \A d \in Ctx : Locks(d)' = Locks(d)
  BY <1>0 DEF Locks
<1>3. NestingOK' /\ OwnersOK'
  BY <1>0, <1>2 DEF SpinInv, NestingOK, OwnersOK
<1>4. \A d \in Ctx, k \in Lock, j \in Nat : Suspends(d, k, j)' <=> Suspends(d, k, j)
  BY <1>0, OthersKeep
<1>5. SuspensionsOK'
  BY <1>0, <1>4, SuspensionsStay DEF SpinInv
<1>6. MaskingsOK'
  <2> SUFFICES ASSUME NEW h \in Maskable PROVE MaskingOK(h)'
    BY DEF MaskingsOK
  <2>1. \A d \in Ctx, k \in Lock, j \in Nat : Masks(h, d, k, j)' <=> Masks(h, d, k, j)
    BY <1>0, OthersKeep
  <2>2. Maskings(h)' = Maskings(h)
    BY <2>1, MaskingsStay
  <2>3. \A d \in Ctx : (Between(d, h)' <=> Between(d, h)) /\ Nth(d)' = Nth(d)
    BY <1>0, OthersKeep
  <2>4. IsMasked(h)' <=> IsMasked(h)
    BY <1>0 DEF IsMasked
  <2>5. QED
    BY <1>0, <2>2, <2>3, <2>4 DEF SpinInv, MaskingsOK, MaskingOK
<1> QED
  BY <1>1, <1>3, <1>5, <1>6

\* An interrupt arrives.
LEMMA InterruptInv ==
    ASSUME SpinInv, NEW i \in Irq, interrupt(i) PROVE SpinInv'
<1> DEFINE L == Len(stack)
<1>0. /\ L \in Nat \ {0} /\ DOMAIN stack = 1 .. L /\ Current = stack[L] /\ Current \in Ctx
      /\ \A a \in DOMAIN stack : stack[a] \in Ctx
      /\ \A a \in DOMAIN stack : a < L => Preempts(Current, stack[a])
  BY CurrentOnStack DEF SpinInv
<1>1. /\ i \notin masked /\ ~basepri /\ i \notin Range(stack)
      /\ Current \in Irq => Urgency[i] > Urgency[Current]
      /\ stack' = Append(stack, i) /\ UNCHANGED <<pos, guards, raw_spin, held, torn>>
  BY DEF interrupt
<1>2. stack \in Seq(Ctx) /\ i \in Ctx
  BY DEF SpinInv, SpinTypeOK, Ctx
<1>3. /\ stack' \in Seq(Ctx) /\ DOMAIN stack' = 1 .. L + 1 /\ stack'[L + 1] = i
      /\ \A a \in DOMAIN stack : stack'[a] = stack[a]
  BY <1>1, <1>2
<1>4. \A a \in DOMAIN stack : stack[a] # i
  BY <1>1 DEF Range
<1> HIDE DEF L
<1>5. ASSUME NEW a \in DOMAIN stack PROVE Preempts(i, stack[a])
  <2>1. CASE a = L
    BY <1>0, <1>1, <1>4, <2>1 DEF Preempts
  <2>2. CASE a # L
    <3>1. a < L /\ L > 1 /\ L \in DOMAIN stack
      BY <1>0, <2>2
    <3>2. Current \in Irq
      BY <1>0, <3>1 DEF SpinInv, StackOK
    <3>3. stack[a] \in Irq => Urgency[Current] > Urgency[stack[a]]
      BY <1>0, <3>1 DEF Preempts
    <3>4. \A x \in Irq : Urgency[x] \in Nat
      BY SpinAssumption
    <3>5. stack[a] \in Irq => Urgency[i] > Urgency[stack[a]]
      BY <1>1, <3>2, <3>3, <3>4
    <3>6. QED
      BY <1>4, <3>5 DEF Preempts
  <2>3. QED
    BY <2>1, <2>2
<1>6. \A b \in DOMAIN stack' : b \in DOMAIN stack \/ b = L + 1
  BY <1>0, <1>3
<1>7. \A a, b \in DOMAIN stack' : a < b => a \in DOMAIN stack /\ (b \in DOMAIN stack \/ b = L + 1)
  BY <1>0, <1>3
<1>8. 1 \in DOMAIN stack /\ L + 1 \in DOMAIN stack'
  BY <1>0, <1>3
<1>9. StackOK'
  <2>1. stack' # <<>> /\ stack'[1] \in Task
    BY <1>1, <1>2, <1>3, <1>8 DEF SpinInv, StackOK
  <2>2. \A b \in DOMAIN stack' : b > 1 => stack'[b] \in Irq
    BY <1>3, <1>6 DEF SpinInv, StackOK
  <2>3. \A a, b \in DOMAIN stack' : a < b => Preempts(stack'[b], stack'[a])
    BY <1>3, <1>5, <1>7 DEF SpinInv, StackOK
  <2>4. QED
    BY <2>1, <2>2, <2>3 DEF StackOK
<1>10. BetweenAllOK'
  <2>1. \A c \in Ctx : ~Between(c, "all")
    BY <1>1, AllInEffect DEF SpinInv
  <2>2. \A c \in Ctx : ~Between(c, "all")'
    BY <1>1, <2>1, OthersKeep
  <2>3. QED
    BY <2>2 DEF BetweenAllOK
<1>11. OffStackOK'
  <2> SUFFICES ASSUME NEW c \in Ctx, \A a \in DOMAIN stack' : stack'[a] # c
               PROVE  /\ c \in Irq => pos[c] = Outside /\ guards[c] = {}
                      /\ \A l \in Lock, j \in Nat : ~Suspends(c, l, j)
    BY <1>1, OthersKeep DEF OffStackOK
  <2>1. \A a \in DOMAIN stack : stack[a] # c
    BY <1>0, <1>3
  <2>2. QED
    BY <2>1 DEF SpinInv, OffStackOK
<1> QED
  BY <1>1, <1>3, <1>9, <1>10, <1>11, RunsStep DEF SpinInv

\* A handler returns.
LEMMA ReturnInv ==
    ASSUME SpinInv, NEW i \in Irq, return(i) PROVE SpinInv'
<1> DEFINE L == Len(stack)
<1>0. /\ L \in Nat \ {0} /\ DOMAIN stack = 1 .. L /\ Current = stack[L]
  BY CurrentOnStack DEF SpinInv
<1>1. /\ i = Current /\ pos[i] = Outside /\ guards[i] = {}
      /\ stack' = Front(stack) /\ UNCHANGED <<pos, guards, raw_spin, held, torn>>
  BY DEF return
<1>2. stack \in Seq(Ctx) /\ stack[1] \in Task
  BY DEF SpinInv, SpinTypeOK, StackOK
<1>3. L > 1
  BY <1>0, <1>1, <1>2, SpinAssumption
<1>4. /\ stack' \in Seq(Ctx) /\ DOMAIN stack' = 1 .. L - 1 /\ stack' # <<>>
      /\ \A a \in DOMAIN stack' : a \in DOMAIN stack /\ stack'[a] = stack[a]
  <2>1. stack' = SubSeq(stack, 1, L - 1) /\ L - 1 \in 1 .. L
    BY <1>0, <1>1, <1>3 DEF Front
  <2>2. /\ stack' \in Seq(Ctx) /\ Len(stack') = L - 1
        /\ \A a \in 1 .. L - 1 : stack'[a] = stack[a]
    BY <1>0, <1>2, <2>1
  <2>3. DOMAIN stack' = 1 .. L - 1
    BY <2>2
  <2>4. stack' # <<>>
    <3>1. Len(stack') # 0
      BY <1>0, <1>3, <2>2
    <3>2. QED
      BY <3>1
  <2>5. \A a \in DOMAIN stack' : a \in DOMAIN stack
    BY <1>0, <2>1, <2>3
  <2>6. QED
    BY <2>2, <2>3, <2>4, <2>5
<1> HIDE DEF L
<1>5. StackOK'
  <2>1. stack'[1] \in Task
    BY <1>0, <1>2, <1>3, <1>4
  <2>2. QED
    BY <1>4, <2>1 DEF SpinInv, StackOK
<1>6. BetweenAllOK'
  <2>1. \A c \in Ctx : ~Between(c, "all")
    BY <1>1 DEF SpinInv, BetweenAllOK, Between, Outside
  <2>2. \A c \in Ctx : ~Between(c, "all")'
    BY <1>1, <2>1, OthersKeep
  <2>3. QED
    BY <2>2 DEF BetweenAllOK
<1>7. OffStackOK'
  <2> SUFFICES ASSUME NEW c \in Ctx, \A a \in DOMAIN stack' : stack'[a] # c
               PROVE  /\ c \in Irq => pos[c] = Outside /\ guards[c] = {}
                      /\ \A l \in Lock, j \in Nat : ~Suspends(c, l, j)
    BY <1>1, OthersKeep DEF OffStackOK
  <2>1. CASE c = i
    BY <1>1, <2>1 DEF Suspends, Has, InForce
  <2>2. CASE c # i
    <3>1. \A a \in DOMAIN stack : a = L \/ a \in DOMAIN stack'
      BY <1>0, <1>4
    <3>2. \A a \in DOMAIN stack : stack[a] # c
      BY <1>0, <1>1, <1>4, <2>2, <3>1
    <3>3. QED
      BY <3>2 DEF SpinInv, OffStackOK
  <2>3. QED
    BY <2>1, <2>2
<1> QED
  BY <1>1, <1>4, <1>5, <1>6, <1>7, RunsStep DEF SpinInv

\* Another task is switched to.
LEMMA SwitchInv ==
    ASSUME SpinInv, NEW t \in Task, switch(t) PROVE SpinInv'
<1>0. /\ DOMAIN stack = 1 .. Len(stack) /\ Len(stack) = 1 /\ SUSPEND_CNT = 0 /\ ~basepri
      /\ stack' = <<t>> /\ UNCHANGED <<pos, guards, raw_spin, held, torn>>
  BY CurrentOnStack DEF SpinInv, switch
<1>1. /\ stack' \in Seq(Ctx) /\ DOMAIN stack' = {1} /\ stack'[1] = t /\ stack' # <<>>
  BY <1>0 DEF Ctx
<1>2. StackOK'
  BY <1>1 DEF StackOK
<1>21. BetweenAllOK'
  <2>1. \A c \in Ctx : ~Between(c, "all")
    BY <1>0, AllInEffect DEF SpinInv
  <2>2. \A c \in Ctx : ~Between(c, "all")'
    BY <1>0, <2>1, OthersKeep
  <2>3. QED
    BY <2>2 DEF BetweenAllOK
<1>3. \A c \in Ctx, l \in Lock, j \in Nat : ~Suspends(c, l, j)
  BY <1>0, SuspendsInEffect DEF SpinInv
<1>4. OffStackOK'
  <2> SUFFICES ASSUME NEW c \in Ctx, c \in Irq PROVE pos[c] = Outside /\ guards[c] = {}
    BY <1>0, <1>3, OthersKeep DEF OffStackOK
  <2>1. \A a \in DOMAIN stack : stack[a] # c
    BY <1>0, SpinAssumption DEF SpinInv, StackOK
  <2>2. QED
    BY <2>1 DEF SpinInv, OffStackOK
<1> QED
  BY <1>0, <1>1, <1>2, <1>21, <1>4, RunsStep DEF SpinInv

-----------------------------------------------------------------------------
\* Every step keeps the invariant.
LEMMA SpinNextInv ==
    ASSUME SpinInv, [SpinNext]_spinvars PROVE SpinInv'
<1>1. CASE UNCHANGED spinvars
  <2>1. stack' = stack /\ UNCHANGED <<pos, guards, raw_spin, held, torn>>
    BY <1>1 DEF spinvars
  <2>2. stack' \in Seq(Ctx)
    BY <2>1 DEF SpinInv, SpinTypeOK
  <2>3. StackOK' /\ BetweenAllOK' /\ OffStackOK'
    BY <2>1, FrameStep
  <2>4. QED
    BY <2>1, <2>2, <2>3, RunsStep DEF SpinInv
<1>2. ASSUME NEW c \in Ctx, begin(c) \/ execute(c) \/ drop(c) PROVE SpinInv'
  BY <1>2, BeginInv, DropInv, IsLockedInv, SuspendInv, MaskInv, FetchAddInv, AcquireInv,
     FetchSubInv, UnmaskInv, ResumeInv DEF execute
<1>3. ASSUME NEW i \in Irq, interrupt(i) \/ return(i) PROVE SpinInv'
  BY <1>3, InterruptInv, ReturnInv
<1>4. ASSUME NEW t \in Task, switch(t) PROVE SpinInv'
  BY <1>4, SwitchInv
<1> QED
  BY <1>1, <1>2, <1>3, <1>4 DEF SpinNext

\* The invariant of spin_lock.rs and mask.rs, for any tasks, interrupts and
\* locks and however these are used: each counter is the number of guards and
\* calls that hold the condition, nothing is masked that nobody holds, and what
\* somebody holds is masked unless two contexts have been between the mask and
\* the counter of one interrupt at once.
THEOREM SpinInvariance == SpinSpec => []SpinInv
<1>1. SpinInit => SpinInv
  BY SpinInitInv
<1>2. SpinInv /\ [SpinNext]_spinvars => SpinInv'
  BY SpinNextInv
<1> QED
  BY <1>1, <1>2, PTL DEF SpinSpec

\* While a SpinGeneric guard exists, the scheduler is suspended and the
\* interrupts are masked as its lock promises, but for an interrupt that is
\* torn.
THEOREM HeldConditionsInEffect == SpinSpec => []ConditionsHeld
<1>1. SpinInv => ConditionsHeld
  BY InvConditionsHeld
<1> QED
  BY <1>1, SpinInvariance, PTL

\* What no guard and no call is about is neither masked, suspended nor counted,
\* whether mask and counter came apart before or not.
THEOREM EverythingGivenBack == SpinSpec => []NothingLeftBehind
<1>1. SpinInv => NothingLeftBehind
  BY InvNothingLeftBehind
<1> QED
  BY <1>1, SpinInvariance, PTL

-----------------------------------------------------------------------------
(***************************************************************************)
(* What the discipline adds: who spins, and for whom.                      *)
(***************************************************************************)
\* A lock that the context on the CPU asks for and finds taken.  Of a handler,
\* the interrupt is torn; a task finds it with one that was switched out, and
\* that suspends nothing.
LEMMA TakenByAnother ==
    ASSUME SpinInv, InterruptedOK, Discipline, NEW c, c = Current, pos[c] # Outside,
           pos[c].by \in Call, pos[c].on \in raw_spin
    PROVE  /\ pos[c].on \notin guards[c]
           /\ c \in Irq => c \in torn /\ ~HoldsOneOf(pos[c].on, {"all"})
           /\ c \in Task => ~HoldsOneOf(pos[c].on, Suspending) /\ Len(stack) = 1
<1> USE DEF SpinInv
<1> DEFINE l == pos[c].on
<1>0. /\ Len(stack) \in Nat \ {0} /\ DOMAIN stack = 1 .. Len(stack)
      /\ c = stack[Len(stack)] /\ c \in Ctx
      /\ Len(stack) \in DOMAIN stack
  BY CurrentOnStack
<1>1. Uses(c, l) /\ l \in Lock /\ <<guards[c], l>> \in Nesting[c]
  BY <1>0, UsesItsLocks, PlacedInCall DEF SpinTypeOK
<1>2. l \notin guards[c]
  <2>1. guards[c] \in SUBSET Lock
    BY <1>0, GuardsType
  <2>2. QED
    BY <1>0, <1>1, <2>1 DEF Discipline, NestingOrder
<1>3. PICK d \in Ctx : l \in guards[d]
  BY DEF OwnersOK
<1>4. d # c
  BY <1>2, <1>3
<1> HIDE DEF l
<1>5. ASSUME c \in Irq PROVE c \in torn /\ ~HoldsOneOf(l, {"all"})
  <2>1. Len(stack) > 1
    BY <1>0, <1>5, SpinAssumption DEF StackOK
  <2>2. ~Over(d, Len(stack))
    BY <1>0, <1>4 DEF Over
  <2>3. QED
    BY <1>0, <1>1, <1>3, <2>1, <2>2 DEF InterruptedOK
<1>6. ASSUME c \in Task PROVE ~HoldsOneOf(l, Suspending) /\ Len(stack) = 1
  <2>1. Len(stack) = 1
    BY <1>0, <1>6, SpinAssumption DEF StackOK
  <2>2. \A a \in DOMAIN stack : stack[a] # d
    BY <1>0, <1>4, <2>1
  <2>3. \A m \in Lock, j \in Nat : ~Suspends(d, m, j)
    BY <1>3, <2>2 DEF OffStackOK
  <2>4. QED
    BY <1>3, <2>1, <2>3, GuardSuspends
<1> QED
  BY <1>2, <1>5, <1>6 DEF l

\* What is taken with lock_now_or_die is not found taken.
LEMMA NeverTakenNow ==
    ASSUME SpinInv, InterruptedOK, Discipline, NEW c, c = Current, pos[c] # Outside,
           pos[c].by = "lock_now_or_die"
    PROVE  pos[c].on \notin raw_spin
<1> SUFFICES ASSUME pos[c].on \in raw_spin PROVE FALSE
  OBVIOUS
<1> DEFINE l == pos[c].on
<1>1. c \in Ctx
  BY CurrentOnStack DEF SpinInv
<1>2. l \in Uncontended /\ Uses(c, l)
  BY <1>1, UsesItsLocks, PlacedInCall DEF SpinInv, SpinTypeOK
<1>3. /\ c \in Irq => ~HoldsOneOf(l, {"all"})
      /\ c \in Task => ~HoldsOneOf(l, Suspending)
  BY TakenByAnother DEF Call
<1> HIDE DEF l
<1> QED
  BY <1>1, <1>2, <1>3 DEF Discipline, NoContention, Ctx

\* The invariant implies that no spinner keeps the owner of the lock from
\* running, unless it is a handler whose interrupt is torn.
LEMMA InvSpinnersCanProceed == DisciplineInv /\ Discipline => SpinnersCanProceed
<1> SUFFICES ASSUME DisciplineInv, Discipline PROVE SpinnersCanProceed
  OBVIOUS
<1> USE DEF DisciplineInv, SpinInv
<1> DEFINE c == Current
<1>0. /\ Len(stack) \in Nat \ {0} /\ DOMAIN stack = 1 .. Len(stack)
      /\ c = stack[Len(stack)] /\ c \in Ctx
  BY CurrentOnStack
<1> HIDE DEF c
<1>1. pos[c].op # "die"
  <2> SUFFICES ASSUME pos[c].op = "die" PROVE FALSE
    OBVIOUS
  <2>1. pos[c] # Outside
    BY DEF Outside
  <2>2. pos[c].by = "lock_now_or_die"
    BY <1>0, <2>1, PlacedInCall DEF SpinTypeOK
  <2>3. QED
    BY <1>0, <2>1, <2>2 DEF NowOK
<1>2. ASSUME pos[c].op = "is_locked", pos[c].on \in raw_spin, pos[c].by = "lock"
      PROVE  \/ /\ c \in Task /\ SUSPEND_CNT = 0 /\ ~basepri
                /\ pos[c].on \notin guards[c]
             \/ c \in torn
  <2>0. pos[c] # Outside
    BY <1>2 DEF Outside
  <2>1. /\ pos[c].on \notin guards[c]
        /\ c \in Irq => c \in torn
        /\ c \in Task => ~HoldsOneOf(pos[c].on, Suspending) /\ Len(stack) = 1
    BY <2>0, <1>2, TakenByAnother DEF c, Call
  <2> SUFFICES ASSUME c \in Task PROVE SUSPEND_CNT = 0 /\ ~basepri
    BY <1>0, <2>1 DEF Ctx
  <2>2. ASSUME NEW d \in Ctx, NEW q \in Lock, NEW j \in Nat, Suspends(d, q, j)
        PROVE  FALSE
    <3>1. d = c
      BY <2>1, <2>2, <1>0 DEF OffStackOK
    <3>2. CASE q \in guards[c] /\ j \in DOMAIN Conditions[q] /\ Conditions[q][j] \in Suspending
      <4>1. <<guards[c], pos[c].on>> \in Nesting[c] /\ pos[c].on \in Lock
        BY <1>0, <1>2, <2>0, UsesItsLocks, PlacedInCall DEF SpinTypeOK, Call
      <4>2. HoldsOneOf(q, Suspending) /\ guards[c] \in SUBSET Lock
        BY <1>0, <3>2, GuardsType DEF HoldsOneOf
      <4>3. QED
        BY <1>0, <2>1, <3>2, <4>1, <4>2 DEF Discipline, NestingOrder
    <3>3. CASE InForce(pos[c], j, WhileSuspended, Suspending)
      <4>1. pos[c].n = 0
        BY <1>0, <1>2, <2>0, PlacedInCall DEF SpinTypeOK
      <4>2. QED
        BY <1>2, <3>3, <4>1 DEF InForce, WhileSuspended
    <3>4. QED
      BY <2>2, <3>1, <3>2, <3>3 DEF Suspends, Has
  <2>3. SUSPEND_CNT = 0
    BY <2>2, SuspendsInEffect
  <2>4. QED
    BY <2>3, AllSuspends DEF SpinTypeOK
<1> QED
  BY <1>1, <1>2 DEF SpinnersCanProceed, Executes, c

\* An interrupt finds nobody with a lock of its own but when it is torn.
LEMMA InterruptFinds ==
    ASSUME SpinInv, Discipline, NEW i \in Irq, i \notin masked, ~basepri,
           NEW c \in Ctx, Preempts(i, c), NEW l \in guards[c], Uses(i, l)
    PROVE  i \in torn /\ ~HoldsOneOf(l, {"all"})
<1> USE DEF SpinInv
<1>1. l \in Lock /\ Uses(c, l)
  BY GuardsType, UsesItsLocks
<1>2. HoldsOneOf(l, {i, "all"})
  BY <1>1 DEF Discipline, SharedWithHandlers
<1>3. ~HoldsOneOf(l, {"all"})
  <2> DEFINE A == {"all"}
             ops == {"fetch_sub"}
  <2> SUFFICES ASSUME HoldsOneOf(l, A) PROVE FALSE
    OBVIOUS
  <2> HIDE DEF A, ops
  <2>1. PICK h \in A : \E j : Has(c, l, j, ops, {h})
    BY GuardHas
  <2>2. PICK j : Has(c, l, j, ops, {h})
    BY <2>1
  <2>3. Masks("all", c, l, j)
    BY <2>2 DEF A, ops, Masks
  <2>4. QED
    BY <2>3, AllInEffect
<1>4. PICK j \in DOMAIN Conditions[l] : Conditions[l][j] = i
  BY <1>2, <1>3 DEF HoldsOneOf
<1>5. Masks(i, c, l, j)
  BY <1>4 DEF Masks, Has
<1>6. i \in Maskable /\ ~IsMasked(i)
  BY SpinAssumption DEF Maskable, IsMasked
<1> QED
  BY <1>3, <1>5, <1>6, MasksInEffect

\* A step of the context on the CPU changes its guards alone, and the interrupt
\* of a handler that runs stays torn.
LEMMA InterruptedFrame ==
    ASSUME SpinInv, InterruptedOK, stack' = stack,
           \A d \in Ctx : d # Current => guards'[d] = guards[d],
           \A h : h \in Range(stack) /\ h \in torn => h \in torn'
    PROVE  InterruptedOK'
<1>0. /\ Len(stack) \in Nat \ {0} /\ DOMAIN stack = 1 .. Len(stack)
      /\ Current = stack[Len(stack)]
  BY CurrentOnStack DEF SpinInv
<1> SUFFICES ASSUME NEW b \in DOMAIN stack, NEW c \in Ctx, b > 1, ~Over(c, b),
                    NEW l \in guards'[c], Uses(stack[b], l)
             PROVE  stack[b] \in torn' /\ ~HoldsOneOf(l, {"all"})
  BY DEF InterruptedOK, Over
<1>1. c # Current
  BY <1>0 DEF Over
<1>2. l \in guards[c]
  BY <1>1
<1>3. stack[b] \in torn /\ ~HoldsOneOf(l, {"all"})
  BY <1>2 DEF InterruptedOK
<1>4. stack[b] \in Range(stack)
  BY DEF Range
<1> QED
  BY <1>3, <1>4

\* The instructions of lock_now_or_die go on to others that it may be at.
LEMMA NowStep ==
    ASSUME NowOK, NEW c \in Ctx, NEW q, pos' = [pos EXCEPT ![c] = q], DOMAIN pos = Ctx,
           q # Outside /\ q.by = "lock_now_or_die" =>
               q.op \notin {"die", "fetch_sub", "unmask", "resume"}
    PROVE  NowOK'
<1>1. pos'[c] = q /\ \A d \in Ctx : d # c => pos'[d] = pos[d]
  OBVIOUS
<1> QED
  BY <1>1 DEF NowOK

\* A call goes on with the same lock and for the same caller.
LEMMA NextBy ==
    ASSUME NEW c, execute(c)
    PROVE  \E q : pos' = [pos EXCEPT ![c] = q] /\ (q # Outside => q.by = pos[c].by)
<1> DEFINE l == pos[c].on
           k == pos[c].by
<1>1. \A i, n : Instruction(i, n, k, l).by = k
  BY DEF Instruction
<1>2. Refused(k, l) # Outside => Refused(k, l).by = k
  BY <1>1 DEF Refused
<1>3. \A n : Hold(n, k, l).by = k
  BY <1>1 DEF Hold
<1>4. \A n : Unhold(n, k, l) # Outside => Unhold(n, k, l).by = k
  BY <1>1, <1>2 DEF Unhold
<1>5. \/ \E i, n : pos' = [pos EXCEPT ![c] = Instruction(i, n, k, l)]
      \/ pos' = [pos EXCEPT ![c] = Refused(k, l)]
      \/ \E n : pos' = [pos EXCEPT ![c] = Hold(n, k, l)]
      \/ \E n : pos' = [pos EXCEPT ![c] = Unhold(n, k, l)]
      \/ pos' = [pos EXCEPT ![c] = Outside]
  BY DEF execute, is_locked, suspend, mask, fetch_add, acquire, fetch_sub, unmask, resume,
         HoldNext, UnholdNext, Unmasked, Proceed, Continue
<1> HIDE DEF l, k
<1>6. \E q : pos' = [pos EXCEPT ![c] = q] /\ (q # Outside => q.by = k)
  BY <1>1, <1>2, <1>3, <1>4, <1>5
<1> QED
  BY <1>6 DEF k

\* Where the call of a context goes, it is at none of the instructions that
\* release, unless it is past acquire or finds its lock taken.
LEMMA NowExecutes ==
    ASSUME SpinInv, InterruptedOK, NowOK, Discipline, NEW c \in Ctx, execute(c)
    PROVE  NowOK'
<1> DEFINE l == pos[c].on
           k == pos[c].by
           n == pos[c].n
<1>0. c = Current /\ pos[c] # Outside /\ DOMAIN pos = Ctx
  BY CurrentOnStack DEF execute, is_locked, suspend, mask, fetch_add, acquire, fetch_sub, unmask,
                        resume, Executes, Outside, SpinInv, SpinTypeOK
<1>1. CASE k # "lock_now_or_die"
  <2>1. PICK q : pos' = [pos EXCEPT ![c] = q] /\ (q # Outside => q.by = k)
    BY NextBy
  <2>2. QED
    BY <1>0, <1>1, <2>1, NowStep
<1>2. CASE k = "lock_now_or_die"
  <2>1. l \notin raw_spin
    BY <1>0, <1>2, NeverTakenNow
  <2>2. pos[c].op \notin {"die", "fetch_sub", "unmask", "resume"}
    BY <1>0, <1>2 DEF NowOK
  <2>3. is_locked(c) \/ suspend(c) \/ mask(c) \/ fetch_add(c) \/ acquire(c)
    BY <2>2 DEF execute, fetch_sub, unmask, resume, Executes
  <2>4. \/ pos' = [pos EXCEPT ![c] = Hold(n + 1, k, l)]
        \/ \E i \in {"mask", "fetch_add"} : pos' = [pos EXCEPT ![c] = Instruction(i, n, k, l)]
        \/ pos' = [pos EXCEPT ![c] = Outside]
    BY <2>1, <2>3 DEF is_locked, suspend, mask, fetch_add, acquire, HoldNext, Proceed, Continue
  <2>5. Hold(n + 1, k, l).op \in {"acquire", "suspend", "mask"}
    BY InstructionFields DEF Hold
  <2>6. \A i \in {"mask", "fetch_add"} : Instruction(i, n, k, l).op = i
    BY InstructionFields
  <2> HIDE DEF l, k, n
  <2>7. QED
    BY <1>0, <2>4, <2>5, <2>6, NowStep
<1> QED
  BY <1>1, <1>2

\* A step of the context on the CPU.
LEMMA OwnStepDiscipline ==
    ASSUME DisciplineInv, Discipline, NEW c \in Ctx, begin(c) \/ execute(c) \/ drop(c)
    PROVE  InterruptedOK' /\ NowOK'
<1> USE DEF DisciplineInv
<1>0. c = Current /\ stack' = stack /\ DOMAIN pos = Ctx
  BY DEF begin, drop, execute, is_locked, suspend, mask, fetch_add, acquire, fetch_sub, unmask,
         resume, Executes, SpinInv, SpinTypeOK
<1>1. \A d \in Ctx : d # Current => guards'[d] = guards[d]
  <2>1. guards \in [Ctx -> SUBSET Lock]
    BY DEF SpinInv, SpinTypeOK
  <2>2. guards' = guards \/ \E g : guards' = [guards EXCEPT ![c] = g]
    BY DEF begin, drop, execute, is_locked, suspend, mask, fetch_add, acquire, fetch_sub, unmask, resume
  <2>3. QED
    BY <1>0, <2>1, <2>2
<1>2. \A h : h \in Range(stack) /\ h \in torn => h \in torn'
  <2>1. torn' = torn \/ mask(c) \/ fetch_add(c) \/ fetch_sub(c) \/ unmask(c)
    BY DEF begin, drop, execute, is_locked, suspend, acquire, resume
  <2>2. ASSUME mask(c) \/ fetch_add(c) \/ fetch_sub(c) \/ unmask(c)
        PROVE  Nth(c) \in Maskable /\ (Tear(c) \/ TearOrMend(c))
    <3>1. /\ pos[c].op \in {"mask", "fetch_add", "fetch_sub", "unmask"}
          /\ Tear(c) \/ TearOrMend(c)
      BY <2>2 DEF mask, fetch_add, fetch_sub, unmask, Executes
    <3>2. pos[c] # Outside
      BY <3>1 DEF Outside
    <3>3. QED
      BY <3>1, <3>2, PlacedInCall DEF SpinInv, SpinTypeOK, Nth
  <2>3. QED
    BY <1>0, <2>1, <2>2, TearStep
<1>3. InterruptedOK'
  BY <1>0, <1>1, <1>2, InterruptedFrame
<1>4. CASE begin(c)
  <2>1. PICK l \in Lock, k \in Call : pos' = [pos EXCEPT ![c] = Instruction("is_locked", 0, k, l)]
    BY <1>4 DEF begin, Continue
  <2>2. Instruction("is_locked", 0, k, l).op = "is_locked"
    BY InstructionFields
  <2>3. QED
    BY <1>0, <1>3, <2>1, <2>2, NowStep
<1>5. CASE drop(c)
  <2>1. PICK l \in guards[c] : pos' = [pos EXCEPT ![c] = Unhold(Len(Conditions[l]), "drop", l)]
    BY <1>5 DEF drop, Continue
  <2>2. LET q == Unhold(Len(Conditions[l]), "drop", l) IN q # Outside => q.by # "lock_now_or_die"
    <3>1. \A i, n : Instruction(i, n, "drop", l).by = "drop"
      BY DEF Instruction
    <3>2. QED
      BY <3>1 DEF Unhold, Refused
  <2>3. QED
    BY <1>0, <1>3, <2>1, <2>2, NowStep
<1>6. CASE execute(c)
  BY <1>3, <1>6, NowExecutes
<1> QED
  BY <1>4, <1>5, <1>6

\* An interrupt arrives.
LEMMA InterruptDiscipline ==
    ASSUME DisciplineInv, Discipline, NEW i \in Irq, interrupt(i)
    PROVE  InterruptedOK' /\ NowOK'
<1> USE DEF DisciplineInv
<1> DEFINE L == Len(stack)
<1>0. /\ L \in Nat \ {0} /\ DOMAIN stack = 1 .. L /\ stack \in Seq(Ctx)
  BY CurrentOnStack DEF SpinInv, SpinTypeOK
<1>1. /\ i \notin masked /\ ~basepri /\ stack' = Append(stack, i)
      /\ UNCHANGED <<pos, guards, torn>>
  BY DEF interrupt
<1>2. /\ DOMAIN stack' = 1 .. L + 1 /\ Len(stack') = L + 1 /\ stack'[L + 1] = i
      /\ \A a \in DOMAIN stack : stack'[a] = stack[a]
  BY <1>0, <1>1
<1>3. StackOK'
  BY InterruptInv DEF SpinInv
<1> HIDE DEF L
<1>4. ASSUME NEW c \in Ctx, c # i, guards[c] # {} PROVE Preempts(i, c)
  <2>1. CASE \E a \in DOMAIN stack : stack[a] = c
    <3>1. PICK a \in DOMAIN stack : stack[a] = c
      BY <2>1
    <3>2. a \in DOMAIN stack' /\ L + 1 \in DOMAIN stack' /\ a < L + 1
      BY <1>0, <1>2
    <3>3. QED
      BY <1>2, <1>3, <3>1, <3>2 DEF StackOK
  <2>2. CASE \A a \in DOMAIN stack : stack[a] # c
    BY <1>4, <2>2 DEF SpinInv, OffStackOK, Preempts
  <2>3. QED
    BY <2>1, <2>2
<1>5. InterruptedOK'
  <2> SUFFICES ASSUME NEW b \in DOMAIN stack', NEW c \in Ctx, b > 1, ~Over(c, b)',
                      NEW l \in guards[c], Uses(stack'[b], l)
               PROVE  stack'[b] \in torn /\ ~HoldsOneOf(l, {"all"})
    BY <1>1 DEF InterruptedOK
  <2>1. \A a \in b .. L + 1 : stack'[a] # c
    BY <1>2 DEF Over
  <2>2. CASE b = L + 1
    <3>1. stack'[b] = i /\ c # i
      BY <1>0, <1>2, <2>1, <2>2
    <3>2. QED
      BY <1>1, <1>4, <3>1, InterruptFinds
  <2>3. CASE b # L + 1
    <3>1. b \in DOMAIN stack /\ stack'[b] = stack[b]
      BY <1>0, <1>2, <2>3
    <3>2. \A a \in b .. L : stack[a] # c
      BY <1>0, <1>2, <2>1, <3>1
    <3>3. ~Over(c, b)
      BY <3>2 DEF Over, L
    <3>4. QED
      BY <3>1, <3>3 DEF InterruptedOK
  <2>4. QED
    BY <2>2, <2>3
<1> QED
  BY <1>1, <1>5 DEF NowOK

\* A handler returns.
LEMMA ReturnDiscipline ==
    ASSUME DisciplineInv, NEW i \in Irq, return(i)
    PROVE  InterruptedOK' /\ NowOK'
<1> USE DEF DisciplineInv
<1> DEFINE L == Len(stack)
<1>0. /\ L \in Nat \ {0} /\ DOMAIN stack = 1 .. L /\ Current = stack[L] /\ stack \in Seq(Ctx)
  BY CurrentOnStack DEF SpinInv, SpinTypeOK
<1>1. /\ i = Current /\ guards[i] = {} /\ stack' = Front(stack)
      /\ UNCHANGED <<pos, guards, torn>>
  BY DEF return
<1>2. stack[1] \in Task /\ L > 1
  BY <1>0, <1>1, SpinAssumption DEF SpinInv, StackOK
<1>3. stack' = SubSeq(stack, 1, L - 1) /\ L - 1 \in 1 .. L
  BY <1>0, <1>1, <1>2 DEF Front
<1>4. /\ DOMAIN stack' = 1 .. L - 1 /\ Len(stack') = L - 1
      /\ \A a \in 1 .. L - 1 : stack'[a] = stack[a]
  BY <1>0, <1>3
<1> HIDE DEF L
<1>5. InterruptedOK'
  <2> SUFFICES ASSUME NEW b \in DOMAIN stack', NEW c \in Ctx, b > 1, ~Over(c, b)',
                      NEW l \in guards[c], Uses(stack'[b], l)
               PROVE  stack'[b] \in torn /\ ~HoldsOneOf(l, {"all"})
    BY <1>1 DEF InterruptedOK
  <2>1. \A a \in b .. L - 1 : stack'[a] # c
    BY <1>4 DEF Over
  <2>2. c # stack[L]
    BY <1>0, <1>1
  <2>3. b \in DOMAIN stack /\ stack'[b] = stack[b]
    BY <1>0, <1>4
  <2>4. \A a \in b .. L : stack[a] # c
    BY <1>0, <1>4, <2>1, <2>2, <2>3
  <2>5. ~Over(c, b)
    BY <2>4 DEF Over, L
  <2>6. QED
    BY <2>3, <2>5 DEF InterruptedOK
<1> QED
  BY <1>1, <1>5 DEF NowOK

\* Under the discipline every step keeps the second invariant.
LEMMA DisciplineNext ==
    ASSUME DisciplineInv, Discipline, [SpinNext]_spinvars PROVE DisciplineInv'
<1> SUFFICES InterruptedOK' /\ NowOK'
  BY SpinNextInv DEF DisciplineInv
<1>1. CASE UNCHANGED spinvars
  BY <1>1 DEF DisciplineInv, InterruptedOK, NowOK, Over, spinvars
<1>2. ASSUME NEW c \in Ctx, begin(c) \/ execute(c) \/ drop(c) PROVE InterruptedOK' /\ NowOK'
  BY <1>2, OwnStepDiscipline
<1>3. ASSUME NEW i \in Irq, interrupt(i) \/ return(i) PROVE InterruptedOK' /\ NowOK'
  BY <1>3, InterruptDiscipline, ReturnDiscipline
<1>4. ASSUME NEW t \in Task, switch(t) PROVE InterruptedOK' /\ NowOK'
  <2>1. stack' = <<t>> /\ UNCHANGED <<pos, guards, torn>>
    BY <1>4 DEF switch
  <2>2. DOMAIN stack' = {1}
    BY <2>1
  <2>3. QED
    BY <2>1, <2>2 DEF DisciplineInv, InterruptedOK, NowOK
<1> QED
  BY <1>1, <1>2, <1>3, <1>4 DEF SpinNext

\* If locks are nested in order, those shared with a handler mask its interrupt
\* and lock_now_or_die is not used for contended ones, a context that spins in
\* lock can be left for the owner of the lock, unless it is a handler whose
\* interrupt is torn, and lock_now_or_die does not find its lock taken.
THEOREM SpinnersProceed ==
    ASSUME Discipline PROVE SpinSpec => []SpinnersCanProceed
<1>1. SpinInit => DisciplineInv
  <2> SUFFICES ASSUME SpinInit PROVE DisciplineInv
    OBVIOUS
  <2>1. DOMAIN stack = {1}
    BY DEF SpinInit
  <2>2. \A c \in Ctx : pos[c] = Outside
    BY DEF SpinInit
  <2>3. QED
    BY <2>1, <2>2, SpinInitInv DEF DisciplineInv, InterruptedOK, NowOK
<1>2. DisciplineInv /\ [SpinNext]_spinvars => DisciplineInv'
  BY DisciplineNext
<1>3. DisciplineInv => SpinnersCanProceed
  BY InvSpinnersCanProceed
<1> QED
  BY <1>1, <1>2, <1>3, PTL DEF SpinSpec
=============================================================================
