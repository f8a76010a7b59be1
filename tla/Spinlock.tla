------------------------------ MODULE Spinlock ------------------------------
(***************************************************************************)
(* The big kernel lock of the JOS kernel, kern/spinlock.c compiled with    *)
(* DEBUG_SPINLOCK (kern/spinlock.h defines it): every access to the lock's *)
(* two words is a step of its own, because the other CPUs run between any  *)
(* two of them.  holding() reads `locked' and then `cpu'; neither read is  *)
(* protected by anything.                                                  *)
(*                                                                         *)
(* x86 keeps one CPU's own stores in order and holding() only asks whether *)
(* the owner is the CPU that asks, so sequential consistency loses         *)
(* nothing here.                                                           *)
(***************************************************************************)
EXTENDS Naturals

CONSTANTS Cpus,    \* the started CPUs (struct CpuInfo)
          NoCpu    \* the null pointer lk->cpu holds while the lock is free

ASSUME NoCpuAssumption == NoCpu \notin Cpus

VARIABLES locked,  \* lk->locked: 0 or 1
          cpu,     \* lk->cpu: who took the lock, for debugging
          pc       \* the next instruction of each CPU

vars == <<locked, cpu, pc>>

-----------------------------------------------------------------------------
(* spin_lock(): "lock" reads lk->locked, "lockcpu" reads lk->cpu, "spin"   *)
(* is the xchg loop, "record" stores lk->cpu; "cs" is the kernel code.     *)
(* spin_unlock(): "unlock" and "unlockcpu" are holding() again, "forget"   *)
(* clears lk->cpu, "release" is the xchg.                                  *)

Inside == {"record", "cs", "unlock", "unlockcpu", "forget", "release"}
Pcs == Inside \cup {"user", "lock", "lockcpu", "spin", "panic"}

Goto(c, l) == pc' = [pc EXCEPT ![c] = l]

\* kernel_lock is a zeroed global; no CPU is in the kernel.
Init == /\ locked = 0
        /\ cpu = NoCpu
        /\ pc = [c \in Cpus |-> "user"]

\* lock_kernel(): a CPU enters the kernel.
Enter(c) == /\ pc[c] = "user"
            /\ Goto(c, "lock")
            /\ UNCHANGED <<locked, cpu>>

\* The first read of holding(), on the way in: && stops at a free lock.
LockReadLocked(c) == /\ pc[c] = "lock"
                     /\ Goto(c, IF locked = 1 THEN "lockcpu" ELSE "spin")
                     /\ UNCHANGED <<locked, cpu>>

\* The second read of holding(): panic("... already holding").
LockReadCpu(c) == /\ pc[c] = "lockcpu"
                  /\ Goto(c, IF cpu = c THEN "panic" ELSE "spin")
                  /\ UNCHANGED <<locked, cpu>>

\* Mutant of Xchg: while (lk->cpu && xchg(...)), which trusts the debug word.
XchgTestsOwner(c) == /\ pc[c] = "spin"
                     /\ locked' = 1
                     /\ Goto(c, IF locked = 0 \/ cpu = NoCpu THEN "record" ELSE "spin")
                     /\ UNCHANGED cpu

\* One turn of while (xchg(&lk->locked, 1) != 0).
Xchg(c) == /\ pc[c] = "spin"
           /\ locked' = 1
           /\ Goto(c, IF locked = 0 THEN "record" ELSE "spin")
           /\ UNCHANGED cpu

\* lk->cpu = thiscpu
Record(c) == /\ pc[c] = "record"
             /\ cpu' = c
             /\ Goto(c, "cs")
             /\ UNCHANGED locked

\* unlock_kernel(): the kernel's work is done.
Leave(c) == /\ pc[c] = "cs"
            /\ Goto(c, "unlock")
            /\ UNCHANGED <<locked, cpu>>

\* holding() on the way out; a CPU that is not the holder panics.
UnlockReadLocked(c) == /\ pc[c] = "unlock"
                       /\ Goto(c, IF locked = 1 THEN "unlockcpu" ELSE "panic")
                       /\ UNCHANGED <<locked, cpu>>

UnlockReadCpu(c) == /\ pc[c] = "unlockcpu"
                    /\ Goto(c, IF cpu = c THEN "forget" ELSE "panic")
                    /\ UNCHANGED <<locked, cpu>>

\* Mutant of Forget: both words are cleared, and then the xchg frees again.
ForgetAndFree(c) == /\ pc[c] = "forget"
                    /\ cpu' = NoCpu
                    /\ locked' = 0
                    /\ Goto(c, "release")

\* lk->cpu = 0
Forget(c) == /\ pc[c] = "forget"
             /\ cpu' = NoCpu
             /\ Goto(c, "release")
             /\ UNCHANGED locked

\* Mutant of Release: xchg(&lk->locked, 1).
ReleaseNothing(c) == /\ pc[c] = "release"
                     /\ Goto(c, "user")
                     /\ UNCHANGED <<locked, cpu>>

\* xchg(&lk->locked, 0)
Release(c) == /\ pc[c] = "release"
              /\ locked' = 0
              /\ Goto(c, "user")
              /\ UNCHANGED cpu

\* What a CPU does once it has called lock_kernel() or unlock_kernel().
Step(c) == \/ LockReadLocked(c) \/ LockReadCpu(c) \/ Xchg(c) \/ Record(c)
           \/ Leave(c)
           \/ UnlockReadLocked(c) \/ UnlockReadCpu(c) \/ Forget(c) \/ Release(c)

Next == \E c \in Cpus : Enter(c) \/ Step(c)

Spec == Init /\ [][Next]_vars

\* A CPU that is in the kernel keeps executing instructions; whether a CPU
\* ever enters it is up to its user program and its timer.
FairSpec == Spec /\ \A c \in Cpus : WF_vars(Step(c))

-----------------------------------------------------------------------------
TypeOK == /\ locked \in {0, 1}
          /\ cpu \in Cpus \cup {NoCpu}
          /\ pc \in [Cpus -> Pcs]

\* The CPUs that have won the xchg and not yet given the lock back.
Holders == {c \in Cpus : pc[c] \in Inside}

\* spin_lock() lets at most one CPU into the kernel, and locked = 1 exactly
\* while somebody is there (kern/spinlock.c:73, 123).
MutualExclusion == /\ \A c, d \in Holders : c = d
                   /\ locked = 1 <=> Holders # {}

\* The unprotected reads of holding() never mistake another CPU's hand-over
\* for this CPU's own lock: neither of the two panics of kern/spinlock.c
\* (65 and 111) fires in a kernel that locks and unlocks in turn.
NoFalsePanic == \A c \in Cpus : pc[c] # "panic"

\* If CPUs spin, some CPU gets in: the lock is never lost.  (One given CPU
\* may lose every race; xchg is not fair.)
SomeoneGetsIn == (\E c \in Cpus : pc[c] = "spin") ~> (\E c \in Cpus : pc[c] = "cs")

-----------------------------------------------------------------------------
\* The debug word agrees with the code: it names c only while c is between
\* its two stores to it.
OwnerRecorded == \A c \in Cpus :
    cpu = c <=> pc[c] \in {"cs", "unlock", "unlockcpu", "forget"}

\* The inductive invariant of the proofs in SpinlockProofs.
IInv == TypeOK /\ MutualExclusion /\ OwnerRecorded /\ NoFalsePanic

\* Spinlock implements Mutex: a CPU holds the abstract lock from its winning
\* xchg to its releasing one.
M == INSTANCE Mutex WITH holders <- Holders
MutexSpec == M!Spec
=============================================================================
