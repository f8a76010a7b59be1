--------------------------- MODULE SpinlockProofs ---------------------------
(***************************************************************************)
(* Proofs about the big kernel lock for any set of CPUs: mutual exclusion, *)
(* no false panic of holding(), and that Spinlock implements Mutex.  All   *)
(* three follow from the inductive invariant IInv.                         *)
(***************************************************************************)
EXTENDS Spinlock, TLAPS

\* IInv holds when the kernel boots: the lock is free, nobody is inside.
LEMMA InitIInv == Init => IInv
BY NoCpuAssumption DEF Init, IInv, TypeOK, MutualExclusion, Holders, Inside, Pcs,
                       OwnerRecorded, NoFalsePanic

\* Every instruction of spin_lock() and spin_unlock() preserves IInv.
LEMMA NextIInv == IInv /\ [Next]_vars => IInv'
<1> SUFFICES ASSUME IInv, [Next]_vars PROVE IInv'
  OBVIOUS
<1> USE NoCpuAssumption DEF IInv, TypeOK, MutualExclusion, OwnerRecorded, NoFalsePanic,
                            Holders, Inside, Pcs, Goto
<1>1. ASSUME NEW c \in Cpus, Enter(c) PROVE IInv'
  BY <1>1 DEF Enter
<1>2. ASSUME NEW c \in Cpus, LockReadLocked(c) PROVE IInv'
  BY <1>2 DEF LockReadLocked
<1>3. ASSUME NEW c \in Cpus, LockReadCpu(c) PROVE IInv'
  BY <1>3 DEF LockReadCpu
<1>4. ASSUME NEW c \in Cpus, Xchg(c) PROVE IInv'
  BY <1>4 DEF Xchg
<1>5. ASSUME NEW c \in Cpus, Record(c) PROVE IInv'
  BY <1>5 DEF Record
<1>6. ASSUME NEW c \in Cpus, Leave(c) PROVE IInv'
  BY <1>6 DEF Leave
<1>7. ASSUME NEW c \in Cpus, UnlockReadLocked(c) PROVE IInv'
  BY <1>7 DEF UnlockReadLocked
<1>8. ASSUME NEW c \in Cpus, UnlockReadCpu(c) PROVE IInv'
  BY <1>8 DEF UnlockReadCpu
<1>9. ASSUME NEW c \in Cpus, Forget(c) PROVE IInv'
  BY <1>9 DEF Forget
<1>10. ASSUME NEW c \in Cpus, Release(c) PROVE IInv'
  BY <1>10 DEF Release
<1>11. ASSUME UNCHANGED vars PROVE IInv'
  BY <1>11 DEF vars
<1> QED
  BY <1>1, <1>2, <1>3, <1>4, <1>5, <1>6, <1>7, <1>8, <1>9, <1>10, <1>11 DEF Next, Step

\* At most one CPU is ever inside the kernel (spin_lock(), kern/spinlock.c:73).
THEOREM LockExcludes == Spec => []MutualExclusion
<1>1. IInv => MutualExclusion
  BY DEF IInv
<1> QED
  BY InitIInv, NextIInv, <1>1, PTL DEF Spec

\* holding() never fires a panic in a kernel that locks and unlocks in turn
\* (kern/spinlock.c:65, 111).
THEOREM LockNeverPanics == Spec => []NoFalsePanic
<1>1. IInv => NoFalsePanic
  BY DEF IInv
<1> QED
  BY InitIInv, NextIInv, <1>1, PTL DEF Spec

\* The lock with its two words implements the abstract lock: the winning xchg
\* acquires it, the releasing one frees it, and every other step stutters.
THEOREM LockImplementsMutex == Spec => MutexSpec
<1>1. Init => M!Init
  BY DEF Init, M!Init, Holders, Inside
<1>2. IInv /\ [Next]_vars => [M!Next]_Holders
  <2> SUFFICES ASSUME IInv, [Next]_vars, Holders' # Holders PROVE M!Next
    OBVIOUS
  <2> USE DEF IInv, TypeOK, MutualExclusion, Holders, Inside, Goto, Pcs
  <2>1. PICK c \in Cpus : Enter(c) \/ Step(c)
    BY DEF Next, vars
  <2>2. CASE Xchg(c)
    <3>1. locked = 0
      BY <2>2 DEF Xchg
    <3>2. M!Acquire(c)
      BY <2>2, <3>1 DEF Xchg, M!Acquire
    <3> QED
      BY <3>2 DEF M!Next
  <2>3. CASE Release(c)
    <3>1. M!Release(c)
      BY <2>3 DEF Release, M!Release
    <3> QED
      BY <3>1 DEF M!Next
  <2>4. CASE ~Xchg(c) /\ ~Release(c)
    BY <2>1, <2>4 DEF Step, Enter, LockReadLocked, LockReadCpu, Record, Leave,
                      UnlockReadLocked, UnlockReadCpu, Forget, NoFalsePanic,
                      OwnerRecorded
  <2> QED
    BY <2>2, <2>3, <2>4
<1> QED
  BY <1>1, <1>2, InitIInv, NextIInv, PTL DEF Spec, MutexSpec, M!Spec
=============================================================================
