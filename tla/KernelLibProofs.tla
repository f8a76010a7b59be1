-------------------------- MODULE KernelLibProofs --------------------------
(***************************************************************************)
(* Proofs about the kernel, for any number of CPUs, slots and              *)
(* environments.                                                           *)
(*                                                                         *)
(* Under any user program (Kernel): the types, the big kernel lock         *)
(* discipline, the current environment and the HALTED protocol.  These     *)
(* four are inductive together: a CPU that is woken takes the lock because *)
(* it is marked HALTED, it is in the kernel because it holds the lock, and *)
(* there it may use curenv because it trapped from an environment.         *)
(*                                                                         *)
(* Under library programs (KernelLib): no environment is on two CPUs,      *)
(* zombies are reaped by the CPU they ran on, receivers stay blocked until *)
(* a message comes, and the free list is exact (LibInv).  With these every *)
(* step is a step in the life of one environment, or none (Environments).  *)
(***************************************************************************)
EXTENDS KernelLib, FiniteSetTheorems, TLAPS

KInv == TypeOK /\ KernelLockInv /\ CurenvInv /\ HaltedInv

USE SizeAssumption, SchedAssumption

\* Basic facts about the constants.
LEMMA Constants == /\ bootcpu \in Cpus
                   /\ NoEnv \notin Envs /\ NoCpu \notin Cpus
                   /\ Envs \subseteq Int /\ Cpus \subseteq Int
                   /\ ZeroId \in EnvIds
BY DEF bootcpu, Cpus, Envs, NoEnv, NoCpu, ZeroId, EnvIds

\* i386_init() enters with the lock and every slot free.
LEMMA InitKInv == Init => KInv
<1> SUFFICES ASSUME Init PROVE KInv
  OBVIOUS
<1> USE Constants DEF Init
<1>1. TypeOK
  <2>1. env_free_list \in Seq(Envs)
    BY DEF Envs
  <2>2. switches \in 0 .. BoostPeriod - 1
    OBVIOUS
  <2>3. env_cpunum \in [Envs -> Cpus]
    BY DEF Cpus
  <2> QED
    BY <2>1, <2>2, <2>3 DEF TypeOK, CpuStatuses, Pcs, InKernel, Statuses
<1>2. KernelLockInv
  BY DEF KernelLockInv, InKernel
<1>3. CurenvInv
  BY DEF CurenvInv
<1>4. HaltedInv
  BY DEF HaltedInv
<1> QED
  BY <1>1, <1>2, <1>3, <1>4 DEF KInv

\* The id of a new environment is an id of its slot.
LEMMA NextIdType == ASSUME TypeOK, NEW e \in Envs PROVE NextId(e) \in EnvIds
<1>1. env_id[e] \in Envs \X (0 .. GenMax)
  BY DEF TypeOK, EnvIds
<1>2. env_id[e][2] \in 0 .. GenMax
  BY <1>1
<1> QED
  BY <1>2 DEF NextId, EnvIds

\* env_alloc() keeps the types.
LEMMA EnvAllocType ==
    ASSUME TypeOK, NEW e \in Envs, NEW p \in EnvIds, NEW s \in Statuses, EnvAlloc(e, p, s)
    PROVE  /\ env_free_list' \in Seq(Envs)
           /\ env_pgdir' \in [Envs -> BOOLEAN]
           /\ env_id' \in [Envs -> EnvIds]
           /\ env_parent_id' \in [Envs -> EnvIds]
           /\ env_status' \in [Envs -> Statuses]
           /\ env_priority' \in [Envs -> Int]
           /\ env_ipc_recving' \in [Envs -> BOOLEAN]
<1>1. env_free_list' \in Seq(Envs)
  BY DEF TypeOK, EnvAlloc
<1>2. env_id' \in [Envs -> EnvIds]
  BY NextIdType DEF TypeOK, EnvAlloc
<1> QED
  BY <1>1, <1>2 DEF TypeOK, EnvAlloc

\* env_free() keeps the types, and this CPU ends in the scheduler without an
\* environment, or at the end of its trap, or has panicked.
LEMMA EnvFreeType ==
    ASSUME TypeOK, NEW c \in Cpus, NEW e \in Envs, EnvFree(c, e)
    PROVE  /\ env_free_list' \in Seq(Envs)
           /\ env_pgdir' \in [Envs -> BOOLEAN]
           /\ env_status' \in [Envs -> Statuses]
           /\ curenv' \in [Cpus -> Envs \cup {NoEnv}]
           /\ \A d \in Cpus \ {c} : curenv'[d] = curenv[d]
           /\ \E l \in {"yield", "ret", "panic"} : pc' = [pc EXCEPT ![c] = l]
<1>1. <<e>> \o env_free_list \in Seq(Envs)
  BY DEF TypeOK
<1> QED
  BY <1>1 DEF TypeOK, EnvFree, Goto, Statuses

\* So does env_destroy().
LEMMA EnvDestroyType ==
    ASSUME TypeOK, NEW c \in Cpus, NEW e \in Envs, EnvDestroy(c, e)
    PROVE  /\ env_free_list' \in Seq(Envs)
           /\ env_pgdir' \in [Envs -> BOOLEAN]
           /\ env_status' \in [Envs -> Statuses]
           /\ curenv' \in [Cpus -> Envs \cup {NoEnv}]
           /\ \A d \in Cpus \ {c} : curenv'[d] = curenv[d]
           /\ \E l \in {"yield", "ret", "panic"} : pc' = [pc EXCEPT ![c] = l]
<1>1. CASE env_status[e] = "RUNNING" /\ curenv[c] # e
  BY <1>1 DEF TypeOK, EnvDestroy, Goto, Statuses
<1>2. CASE ~(env_status[e] = "RUNNING" /\ curenv[c] # e)
  <2>1. EnvFree(c, e)
    BY <1>2 DEF EnvDestroy
  <2> QED
    BY <2>1, EnvFreeType
<1> QED
  BY <1>1, <1>2

-----------------------------------------------------------------------------
(* How the steps of one CPU move it.                                       *)

\* A handler that stays in the kernel keeps the lock discipline, the current
\* environments of the other CPUs and the HALTED protocol.
LEMMA StaysInKernel ==
    ASSUME KInv, NEW c \in Cpus, pc[c] \in InKernel, NEW l \in InKernel \ {"trap"},
           pc' = [pc EXCEPT ![c] = l], lock' = lock, cpu_status' = cpu_status,
           \A d \in Cpus \ {c} : curenv'[d] = curenv[d]
    PROVE  /\ KernelLockInv' /\ CurenvInv' /\ HaltedInv'
           /\ pc' \in [Cpus -> Pcs]
<1> USE DEF KInv, TypeOK, InKernel, Pcs
<1>1. KernelLockInv'
  BY DEF KernelLockInv
<1>2. CurenvInv'
  BY DEF CurenvInv
<1>3. HaltedInv'
  BY DEF HaltedInv
<1> QED
  BY <1>1, <1>2, <1>3

\* env_run() leaves the kernel, with e current, or panics in it.
LEMMA EnvRunStep ==
    ASSUME KInv, NEW c \in Cpus, pc[c] \in InKernel, NEW e \in Envs, EnvRun(c, e),
           cpu_status' = cpu_status
    PROVE  /\ KernelLockInv' /\ CurenvInv' /\ HaltedInv'
           /\ lock' \in Cpus \cup {NoCpu}
           /\ pc' \in [Cpus -> Pcs]
           /\ curenv' \in [Cpus -> Envs \cup {NoEnv}]
           /\ env_status' \in [Envs -> Statuses]
<1> USE Constants DEF KInv, TypeOK, InKernel, Pcs, EnvRun, Unlock, Goto
<1>1. lock = c
  BY DEF KernelLockInv
<1>2. \/ lock' = NoCpu /\ pc' = [pc EXCEPT ![c] = "leave"]
      \/ lock' = lock /\ pc' = [pc EXCEPT ![c] = "panic"]
  BY <1>1
<1>3. KernelLockInv'
  BY <1>1, <1>2 DEF KernelLockInv
<1>4. CurenvInv'
  BY <1>2 DEF CurenvInv
<1>5. HaltedInv'
  BY <1>2 DEF HaltedInv
<1>6. env_status' \in [Envs -> Statuses]
  BY DEF Switched, Statuses
<1> QED
  BY <1>2, <1>3, <1>4, <1>5, <1>6

\* The scheduler only changes priorities to integers.
LEMMA AgedType == ASSUME TypeOK, NEW c \in Cpus PROVE Aged(c) \in [Envs -> Int]
<1>1. Boosted \in [Envs -> Int]
  BY DEF TypeOK, Boosted
<1> QED
  BY <1>1 DEF Aged

\* A trap that is dispatched has a current environment, and a lock.
LEMMA DispatchCurrent ==
    ASSUME KInv, NEW c \in Cpus, pc[c] = "trap" PROVE curenv[c] \in Envs /\ lock = c
BY DEF KInv, TypeOK, CurenvInv, KernelLockInv, InKernel

\* envid2env() finds an environment or none.
LEMMA Envid2EnvType ==
    ASSUME KInv, NEW c \in Cpus, pc[c] = "trap", NEW id \in EnvIds, NEW b \in BOOLEAN,
           Envid2Env(c, id, b) # NoEnv
    PROVE  Envid2Env(c, id, b) \in Envs
<1>1. id[1] \in Envs
  BY DEF EnvIds
<1> QED
  BY <1>1, DispatchCurrent DEF Envid2Env

-----------------------------------------------------------------------------
(* One lemma per part of the kernel: its actions keep KInv.                *)

\* i386_init(), boot_aps() and mp_main().
LEMMA BootKInv ==
    ASSUME KInv, \/ EnvCreate \/ EnvCreatePanics \/ BootDone
                 \/ \E c \in Cpus : BootAp(c) \/ MpMain(c)
    PROVE  KInv'
<1> USE Constants
<1>1. CASE EnvCreate
  <2>1. PICK e \in Envs : EnvAlloc(e, ZeroId, "RUNNABLE")
    BY <1>1 DEF EnvCreate
  <2>2. /\ UNCHANGED <<cpuVars, env_cpunum, switches>>
    BY <1>1 DEF EnvCreate
  <2>3. TypeOK'
    BY <2>1, <2>2, EnvAllocType DEF KInv, TypeOK, cpuVars, Statuses
  <2> QED
    BY <2>2, <2>3 DEF KInv, cpuVars, KernelLockInv, CurenvInv, HaltedInv
<1>2. CASE BootDone
  <2>1. pc[bootcpu] \in InKernel
    BY <1>2 DEF BootDone, StartedAp, InKernel
  <2>2. KernelLockInv' /\ CurenvInv' /\ HaltedInv' /\ pc' \in [Cpus -> Pcs]
    BY <1>2, <2>1, StaysInKernel DEF BootDone, Goto, InKernel
  <2> QED
    BY <1>2, <2>2 DEF BootDone, KInv, TypeOK, allocVars, schedVars
<1>3. ASSUME NEW c \in Cpus, BootAp(c) PROVE KInv'
  <2>1. pc' \in [Cpus -> Pcs]
    BY <1>3 DEF BootAp, Goto, KInv, TypeOK, Pcs
  <2>2. KernelLockInv' /\ CurenvInv' /\ HaltedInv'
    BY <1>3 DEF BootAp, Goto, KInv, TypeOK, InKernel, KernelLockInv, CurenvInv, HaltedInv
  <2> QED
    BY <1>3, <2>1, <2>2 DEF BootAp, KInv, TypeOK, allocVars, schedVars
<1>4. ASSUME NEW c \in Cpus, MpMain(c) PROVE KInv'
  <2>1. pc' \in [Cpus -> Pcs] /\ cpu_status' \in [Cpus -> CpuStatuses]
    BY <1>4 DEF MpMain, Goto, KInv, TypeOK, Pcs, CpuStatuses
  <2>2. KernelLockInv' /\ CurenvInv' /\ HaltedInv'
    BY <1>4 DEF MpMain, Goto, KInv, TypeOK, InKernel, KernelLockInv, CurenvInv, HaltedInv
  <2> QED
    BY <1>4, <2>1, <2>2 DEF MpMain, KInv, TypeOK, allocVars, schedVars
<1>5. CASE EnvCreatePanics
  <2>1. pc[bootcpu] \in InKernel
    BY <1>5 DEF EnvCreatePanics, StartedAp, InKernel
  <2>2. KernelLockInv' /\ CurenvInv' /\ HaltedInv' /\ pc' \in [Cpus -> Pcs]
    BY <1>5, <2>1, StaysInKernel DEF EnvCreatePanics, Goto, InKernel
  <2> QED
    BY <1>5, <2>2 DEF EnvCreatePanics, KInv, TypeOK, allocVars, schedVars
<1> QED
  BY <1>1, <1>2, <1>3, <1>4, <1>5

\* trap() up to the dispatch, and the end of env_run().
LEMMA TrapKInv ==
    ASSUME KInv, NEW c \in Cpus,
           TrapUser(c) \/ TrapHalted(c) \/ Acquire(c) \/ Resume(c)
    PROVE  KInv'
<1> USE Constants DEF KInv, TypeOK, allocVars, schedVars, Goto
<1>1. CASE TrapUser(c)
  <2>1. pc' \in [Cpus -> Pcs] /\ cpu_status' \in [Cpus -> CpuStatuses]
    BY <1>1 DEF TrapUser, Pcs, CpuStatuses
  <2>2. KernelLockInv' /\ CurenvInv' /\ HaltedInv'
    BY <1>1, SMTT(30) DEF TrapUser, InKernel, KernelLockInv, CurenvInv, HaltedInv
  <2> QED
    BY <1>1, <2>1, <2>2 DEF TrapUser
<1>2. CASE TrapHalted(c)
  <2>1. cpu_status[c] = "HALTED"
    BY <1>2 DEF TrapHalted, HaltedInv
  <2>2. pc' \in [Cpus -> Pcs] /\ cpu_status' \in [Cpus -> CpuStatuses]
    BY <1>2, <2>1, SMTT(30) DEF TrapHalted, Pcs, CpuStatuses
  <2>3. KernelLockInv' /\ CurenvInv' /\ HaltedInv'
    BY <1>2, <2>1, SMTT(30) DEF TrapHalted, InKernel, KernelLockInv, CurenvInv, HaltedInv
  <2> QED
    BY <1>2, <2>2, <2>3 DEF TrapHalted
<1>3. CASE Acquire(c)
  <2>1. pc' \in [Cpus -> Pcs]
    BY <1>3 DEF Acquire, Pcs, InKernel
  <2>2. KernelLockInv'
    BY <1>3 DEF Acquire, InKernel, KernelLockInv
  <2>3. CurenvInv' /\ HaltedInv'
    BY <1>3 DEF Acquire, CurenvInv, HaltedInv
  <2> QED
    BY <1>3, <2>1, <2>2, <2>3 DEF Acquire
<1>4. CASE Resume(c)
  <2>1. pc' \in [Cpus -> Pcs] /\ env_cpunum' \in [Envs -> Cpus]
    BY <1>4 DEF Resume, Pcs
  <2>2. KernelLockInv' /\ CurenvInv' /\ HaltedInv'
    BY <1>4 DEF Resume, InKernel, KernelLockInv, CurenvInv, HaltedInv
  <2> QED
    BY <1>4, <2>1, <2>2 DEF Resume
<1> QED
  BY <1>1, <1>2, <1>3, <1>4

\* trap() from the dispatch on: the handlers of trap.c.
LEMMA HandlerKInv ==
    ASSUME KInv, NEW c \in Cpus,
           Reap(c) \/ Fault(c) \/ Timer(c) \/ TrapReturn(c) \/ StackOverflow(c)
    PROVE  KInv'
<1> USE Constants DEF KInv, allocVars, schedVars
<1>1. CASE Reap(c)
  <2>1. pc[c] \in InKernel /\ curenv[c] \in Envs
    BY <1>1, DispatchCurrent DEF Reap, InKernel
  <2>2. EnvFree(c, curenv[c])
    BY <1>1 DEF Reap
  <2>3. PICK l \in {"yield", "ret", "panic"} : pc' = [pc EXCEPT ![c] = l]
    BY <2>1, <2>2, EnvFreeType
  <2>4. KernelLockInv' /\ CurenvInv' /\ HaltedInv' /\ pc' \in [Cpus -> Pcs]
    BY <1>1, <2>1, <2>2, <2>3, EnvFreeType, StaysInKernel DEF Reap, InKernel
  <2> QED
    BY <1>1, <2>1, <2>2, <2>4, EnvFreeType DEF Reap, TypeOK
<1>2. CASE Fault(c)
  <2>1. pc[c] \in InKernel /\ curenv[c] \in Envs
    BY <1>2, DispatchCurrent DEF Fault, Dispatch, InKernel
  <2>2. EnvDestroy(c, curenv[c])
    BY <1>2 DEF Fault
  <2>3. PICK l \in {"yield", "ret", "panic"} : pc' = [pc EXCEPT ![c] = l]
    BY <2>1, <2>2, EnvDestroyType
  <2>4. KernelLockInv' /\ CurenvInv' /\ HaltedInv' /\ pc' \in [Cpus -> Pcs]
    BY <1>2, <2>1, <2>2, <2>3, EnvDestroyType, StaysInKernel DEF Fault, InKernel
  <2> QED
    BY <1>2, <2>1, <2>2, <2>4, EnvDestroyType DEF Fault, TypeOK
<1>3. CASE Timer(c)
  <2>1. KernelLockInv' /\ CurenvInv' /\ HaltedInv' /\ pc' \in [Cpus -> Pcs]
    BY <1>3, StaysInKernel DEF Timer, Dispatch, Goto, InKernel
  <2> QED
    BY <1>3, <2>1 DEF Timer, TypeOK
<1>4. CASE TrapReturn(c) /\ curenv[c] # NoEnv /\ env_status[curenv[c]] = "RUNNING"
  <2>1. pc[c] \in InKernel /\ curenv[c] \in Envs
    BY <1>4 DEF TrapReturn, InKernel, TypeOK
  <2>2. EnvRun(c, curenv[c]) /\ cpu_status' = cpu_status
    BY <1>4 DEF TrapReturn
  <2> QED
    BY <1>4, <2>1, <2>2, EnvRunStep DEF TrapReturn, TypeOK
<1>5. CASE TrapReturn(c) /\ ~(curenv[c] # NoEnv /\ env_status[curenv[c]] = "RUNNING")
  <2>1. KernelLockInv' /\ CurenvInv' /\ HaltedInv' /\ pc' \in [Cpus -> Pcs]
    BY <1>5, StaysInKernel DEF TrapReturn, Goto, InKernel
  <2> QED
    BY <1>5, <2>1 DEF TrapReturn, TypeOK
<1>6. CASE StackOverflow(c)
  <2>1. KernelLockInv' /\ CurenvInv' /\ HaltedInv' /\ pc' \in [Cpus -> Pcs]
    BY <1>6, StaysInKernel DEF StackOverflow, Dispatch, Goto, InKernel
  <2> QED
    BY <1>6, <2>1 DEF StackOverflow, TypeOK
<1> QED
  BY <1>1, <1>2, <1>3, <1>4, <1>5, <1>6

\* sched_yield() and sched_halt().
LEMMA SchedKInv == ASSUME KInv, NEW c \in Cpus, Sched(c) PROVE KInv'
<1> USE Constants DEF KInv, allocVars, schedVars
<1>1. pc[c] = "yield" /\ pc[c] \in InKernel /\ lock = c
  BY DEF Sched, SchedPick, SchedKeep, SchedHalt, SchedMonitor, SchedScan, SchedOverrun,
         NoneFound, InKernel, KernelLockInv
<1>2. CASE SchedPick(c)
  <2>1. PICK e \in Envs : EnvRun(c, e)
    BY <1>2 DEF SchedPick
  <2>2. cpu_status' = cpu_status
    BY <1>2 DEF SchedPick
  <2>3. switches' \in 0 .. BoostPeriod - 1
    BY <1>2 DEF SchedPick, TypeOK
  <2> QED
    BY <1>1, <1>2, <2>1, <2>2, <2>3, EnvRunStep, AgedType DEF SchedPick, TypeOK
<1>3. CASE SchedKeep(c)
  <2>1. curenv[c] \in Envs
    BY <1>3 DEF SchedKeep, Keeps, TypeOK
  <2>2. EnvRun(c, curenv[c]) /\ cpu_status' = cpu_status
    BY <1>3 DEF SchedKeep
  <2> QED
    BY <1>1, <1>3, <2>1, <2>2, EnvRunStep DEF SchedKeep, TypeOK
<1>4. CASE SchedHalt(c)
  <2>1. lock' = NoCpu /\ pc' = [pc EXCEPT ![c] = "halted"]
    BY <1>1, <1>4 DEF SchedHalt, Unlock, Goto
  <2>2. KernelLockInv' /\ CurenvInv' /\ HaltedInv'
    BY <1>1, <1>4, <2>1 DEF SchedHalt, KernelLockInv, CurenvInv, HaltedInv, InKernel, TypeOK
  <2> QED
    BY <1>4, <2>1, <2>2 DEF SchedHalt, TypeOK, CpuStatuses, Pcs
<1>5. CASE SchedMonitor(c) \/ SchedScan(c) \/ SchedOverrun(c)
  <2>1. PICK l \in {"monitor", "scanning", "panic"} : pc' = [pc EXCEPT ![c] = l]
    BY <1>5 DEF SchedMonitor, SchedScan, SchedOverrun, Goto
  <2>2. KernelLockInv' /\ CurenvInv' /\ HaltedInv' /\ pc' \in [Cpus -> Pcs]
    BY <1>1, <1>5, <2>1, StaysInKernel DEF SchedMonitor, SchedScan, SchedOverrun, InKernel
  <2> QED
    BY <1>5, <2>2 DEF SchedMonitor, SchedScan, SchedOverrun, TypeOK
<1> QED
  BY <1>2, <1>3, <1>4, <1>5 DEF Sched

\* syscall().
LEMMA SyscallKInv == ASSUME KInv, NEW c \in Cpus, Syscall(c) PROVE KInv'
<1> USE Constants DEF KInv, allocVars, schedVars
<1>1. pc[c] = "trap" /\ pc[c] \in InKernel /\ lock = c /\ curenv[c] \in Envs
  <2>1. pc[c] = "trap"
    BY DEF Syscall, SysOther, SysExofork, SysEnvDestroy, SysEnvSetStatus, SysIpcRecv,
           SysIpcTrySend, SendPanics, SysEnvSetPriority, Dispatch
  <2> QED
    BY <2>1, DispatchCurrent DEF InKernel
<1>2. CASE SysOther(c)
  <2>1. KernelLockInv' /\ CurenvInv' /\ HaltedInv' /\ pc' \in [Cpus -> Pcs]
    BY <1>1, <1>2, StaysInKernel DEF SysOther, Goto, InKernel
  <2> QED
    BY <1>2, <2>1 DEF SysOther, TypeOK
<1>3. CASE SysExofork(c)
  <2>1. env_id[curenv[c]] \in EnvIds
    BY <1>1 DEF TypeOK
  <2>2. PICK e \in Envs : EnvAlloc(e, env_id[curenv[c]], "NOT_RUNNABLE")
    BY <1>3 DEF SysExofork
  <2>3. KernelLockInv' /\ CurenvInv' /\ HaltedInv' /\ pc' \in [Cpus -> Pcs]
    BY <1>1, <1>3, StaysInKernel DEF SysExofork, Goto, InKernel
  <2> QED
    BY <1>3, <2>1, <2>2, <2>3, EnvAllocType DEF SysExofork, TypeOK, Statuses
<1>4. ASSUME NEW id \in EnvIds, SysEnvDestroy(c, id) PROVE KInv'
  <2> DEFINE e == Envid2Env(c, id, TRUE)
  <2>1. e \in Envs /\ EnvDestroy(c, e)
    BY <1>1, <1>4, Envid2EnvType DEF SysEnvDestroy
  <2> HIDE DEF e
  <2>2. PICK l \in {"yield", "ret", "panic"} : pc' = [pc EXCEPT ![c] = l]
    BY <2>1, EnvDestroyType
  <2>3. KernelLockInv' /\ CurenvInv' /\ HaltedInv' /\ pc' \in [Cpus -> Pcs]
    BY <1>1, <1>4, <2>1, <2>2, EnvDestroyType, StaysInKernel DEF SysEnvDestroy, InKernel
  <2> QED
    BY <1>4, <2>1, <2>3, EnvDestroyType DEF SysEnvDestroy, TypeOK
<1>5. ASSUME NEW id \in EnvIds, NEW status \in {"RUNNABLE", "NOT_RUNNABLE"},
             SysEnvSetStatus(c, id, status)
      PROVE  KInv'
  <2>1. env_status' \in [Envs -> Statuses]
    BY <1>5 DEF SysEnvSetStatus, TypeOK, Statuses
  <2>2. KernelLockInv' /\ CurenvInv' /\ HaltedInv' /\ pc' \in [Cpus -> Pcs]
    BY <1>1, <1>5, StaysInKernel DEF SysEnvSetStatus, Goto, InKernel
  <2> QED
    BY <1>5, <2>1, <2>2 DEF SysEnvSetStatus, TypeOK
<1>6. ASSUME NEW valid \in BOOLEAN, SysIpcRecv(c, valid) PROVE KInv'
  <2>1. env_status' \in [Envs -> Statuses] /\ env_ipc_recving' \in [Envs -> BOOLEAN]
    BY <1>6 DEF SysIpcRecv, TypeOK, Statuses
  <2>2. PICK l \in {"yield", "ret"} : pc' = [pc EXCEPT ![c] = l]
    BY <1>6 DEF SysIpcRecv, Goto
  <2>3. KernelLockInv' /\ CurenvInv' /\ HaltedInv' /\ pc' \in [Cpus -> Pcs]
    BY <1>1, <1>6, <2>2, StaysInKernel DEF SysIpcRecv, InKernel
  <2> QED
    BY <1>6, <2>1, <2>3 DEF SysIpcRecv, TypeOK
<1>7. ASSUME NEW id \in EnvIds, SysIpcTrySend(c, id) PROVE KInv'
  <2>1. env_status' \in [Envs -> Statuses] /\ env_ipc_recving' \in [Envs -> BOOLEAN]
    BY <1>7 DEF SysIpcTrySend, TypeOK, Statuses
  <2>2. KernelLockInv' /\ CurenvInv' /\ HaltedInv' /\ pc' \in [Cpus -> Pcs]
    BY <1>1, <1>7, StaysInKernel DEF SysIpcTrySend, Goto, InKernel
  <2> QED
    BY <1>7, <2>1, <2>2 DEF SysIpcTrySend, TypeOK
<1>8. ASSUME NEW id \in EnvIds, NEW p \in Prios, SysEnvSetPriority(c, id, p) PROVE KInv'
  <2>1. env_priority' \in [Envs -> Int]
    BY <1>8 DEF SysEnvSetPriority, TypeOK
  <2>2. KernelLockInv' /\ CurenvInv' /\ HaltedInv' /\ pc' \in [Cpus -> Pcs]
    BY <1>1, <1>8, StaysInKernel DEF SysEnvSetPriority, Goto, InKernel
  <2> QED
    BY <1>8, <2>1, <2>2 DEF SysEnvSetPriority, TypeOK
<1>9. ASSUME NEW id \in EnvIds, SendPanics(c, id) PROVE KInv'
  <2>1. KernelLockInv' /\ CurenvInv' /\ HaltedInv' /\ pc' \in [Cpus -> Pcs]
    BY <1>1, <1>9, StaysInKernel DEF SendPanics, Goto, InKernel
  <2> QED
    BY <1>9, <2>1 DEF SendPanics, TypeOK
<1> QED
  BY <1>2, <1>3, <1>4, <1>5, <1>6, <1>7, <1>8, <1>9 DEF Syscall

-----------------------------------------------------------------------------
\* Every step of the kernel under any program keeps KInv.
LEMMA NextKInv == KInv /\ [Next]_vars => KInv'
<1> SUFFICES ASSUME KInv, [Next]_vars PROVE KInv'
  OBVIOUS
<1>1. CASE UNCHANGED vars
  BY <1>1 DEF vars, KInv, TypeOK, KernelLockInv, CurenvInv, HaltedInv
<1>2. CASE EnvCreate \/ EnvCreatePanics \/ BootDone
  BY <1>2, BootKInv
<1>3. ASSUME NEW c \in Cpus, KernelStep(c) PROVE KInv'
  BY <1>3, BootKInv, TrapKInv, HandlerKInv, SchedKInv DEF KernelStep
<1>4. ASSUME NEW c \in Cpus, Acquire(c) PROVE KInv'
  BY <1>4, TrapKInv
<1>5. ASSUME NEW c \in Cpus, Stopped(c) PROVE KInv'
  BY <1>5, <1>1 DEF Stopped
<1>6. ASSUME NEW c \in Cpus, Timer(c) \/ Fault(c) \/ StackOverflow(c) PROVE KInv'
  BY <1>6, HandlerKInv
<1>7. ASSUME NEW c \in Cpus, Syscall(c) PROVE KInv'
  BY <1>7, SyscallKInv
<1> QED
  BY <1>1, <1>2, <1>3, <1>4, <1>5, <1>6, <1>7 DEF Next

\* Under any program, KInv always holds.
THEOREM KernelInvariant == Spec => []KInv
BY InitKInv, NextKInv, PTL DEF Spec

\* Type correctness, whatever the programs do.
THEOREM TypeCorrect == Spec => []TypeOK
<1>1. KInv => TypeOK
  BY DEF KInv
<1> QED
  BY <1>1, KernelInvariant, PTL

\* A CPU is in the kernel exactly while it holds the big kernel lock, whatever
\* the programs do (lock_kernel() and unlock_kernel() in trap.c, env.c, sched.c).
THEOREM LockDiscipline == Spec => []KernelLockInv
<1>1. KInv => KernelLockInv
  BY DEF KInv
<1> QED
  BY <1>1, KernelInvariant, PTL

\* assert(curenv) in trap() never fires (kern/trap.c:270).
THEOREM CurrentEnvironment == Spec => []CurenvInv
<1>1. KInv => CurenvInv
  BY DEF KInv
<1> QED
  BY <1>1, KernelInvariant, PTL

\* CPU_HALTED tells trap() exactly which CPUs have no lock (kern/trap.c:258).
THEOREM HaltedProtocol == Spec => []HaltedInv
<1>1. KInv => HaltedInv
  BY DEF KInv
<1> QED
  BY <1>1, KernelInvariant, PTL

-----------------------------------------------------------------------------
(* Library programs: the invariant.                                        *)

FreeSet(s) == {s[i] : i \in 1 .. Len(s)}
Distinct(s) == \A i, j \in 1 .. Len(s) : s[i] = s[j] => i = j

LifeInv == /\ RunsAlone /\ RunningIsCurrent /\ NoWorkForZombies /\ CpuRecorded
           /\ IdsResolve /\ ReceiversBlocked /\ FreeListInv
           /\ starting \subseteq Envs /\ StartingWaits

LibInv == KInv /\ LifeInv

USE LibAssumption

-----------------------------------------------------------------------------
(* The free list as a sequence.                                            *)

\* Taking the first slot off the list removes just that slot.
LEMMA TailOfList ==
    ASSUME NEW s \in Seq(Envs), s # <<>>, Distinct(s)
    PROVE  /\ Distinct(Tail(s))
           /\ FreeSet(Tail(s)) = FreeSet(s) \ {Head(s)}
           /\ Head(s) \in FreeSet(s)
<1>1. Len(s) \in Nat \ {0} /\ Head(s) = s[1]
  OBVIOUS
<1>2. Len(Tail(s)) = Len(s) - 1 /\ \A i \in 1 .. Len(Tail(s)) : Tail(s)[i] = s[i + 1]
  OBVIOUS
<1>3. Distinct(Tail(s))
  BY <1>1, <1>2 DEF Distinct
<1>4. FreeSet(Tail(s)) \subseteq FreeSet(s) \ {Head(s)}
  BY <1>1, <1>2 DEF FreeSet, Distinct
<1>5. ASSUME NEW x \in FreeSet(s) \ {Head(s)} PROVE x \in FreeSet(Tail(s))
  <2>1. PICK i \in 1 .. Len(s) : x = s[i] /\ i # 1
    BY <1>1, <1>5 DEF FreeSet
  <2>2. i - 1 \in 1 .. Len(Tail(s)) /\ Tail(s)[i - 1] = x
    BY <1>1, <1>2, <2>1
  <2> QED
    BY <2>2 DEF FreeSet
<1>6. Head(s) \in FreeSet(s)
  BY <1>1 DEF FreeSet
<1> QED
  BY <1>3, <1>4, <1>5, <1>6

\* Putting a slot that is not on the list in front of it adds just that slot.
LEMMA ConsOfList ==
    ASSUME NEW s \in Seq(Envs), NEW e \in Envs, Distinct(s), e \notin FreeSet(s)
    PROVE  /\ Distinct(<<e>> \o s)
           /\ FreeSet(<<e>> \o s) = FreeSet(s) \cup {e}
<1> DEFINE t == <<e>> \o s
<1>1. /\ Len(t) = Len(s) + 1 /\ Len(s) \in Nat /\ t[1] = e
      /\ \A i \in 2 .. Len(t) : t[i] = s[i - 1]
  OBVIOUS
<1> HIDE DEF t
<1>2. Distinct(t)
  BY <1>1, SMTT(20) DEF Distinct, FreeSet
<1>3. FreeSet(t) \subseteq FreeSet(s) \cup {e}
  BY <1>1 DEF FreeSet
<1>4. ASSUME NEW x \in FreeSet(s) PROVE x \in FreeSet(t)
  <2>1. PICK i \in 1 .. Len(s) : x = s[i]
    BY DEF FreeSet
  <2>2. i + 1 \in 1 .. Len(t) /\ t[i + 1] = x
    BY <1>1, <2>1
  <2> QED
    BY <2>2 DEF FreeSet
<1>5. e \in FreeSet(t)
  BY <1>1 DEF FreeSet
<1> QED
  BY <1>2, <1>3, <1>4, <1>5 DEF t

\* What FreeListInv says of the list as a whole.
LEMMA FreeListAsSet ==
    FreeListInv <=> /\ Distinct(env_free_list)
                    /\ \A e \in Envs : /\ env_status[e] = "FREE" <=> e \in FreeSet(env_free_list)
                                       /\ env_status[e] = "FREE" <=> ~env_pgdir[e]
BY DEF FreeListInv, Distinct, FreeSet

\* A step that leaves the list alone keeps it exact if it frees and revives
\* no slot.
LEMMA FreeListKept ==
    ASSUME FreeListInv, UNCHANGED <<env_free_list, env_pgdir>>,
           \A e \in Envs : env_status'[e] = "FREE" <=> env_status[e] = "FREE"
    PROVE  FreeListInv'
BY DEF FreeListInv

\* env_alloc() takes a free slot off the list and keeps the list exact.
LEMMA AllocKeepsList ==
    ASSUME TypeOK, FreeListInv, NEW e \in Envs, NEW p \in EnvIds, NEW st \in Statuses \ {"FREE"},
           EnvAlloc(e, p, st)
    PROVE  FreeListInv' /\ env_status[e] = "FREE"
<1>1. /\ env_free_list \in Seq(Envs) /\ env_free_list # <<>> /\ Distinct(env_free_list)
      /\ e = Head(env_free_list) /\ env_free_list' = Tail(env_free_list)
  BY FreeListAsSet DEF TypeOK, EnvAlloc
<1>2. /\ Distinct(env_free_list')
      /\ FreeSet(env_free_list') = FreeSet(env_free_list) \ {e}
      /\ e \in FreeSet(env_free_list)
  BY <1>1, TailOfList
<1>3. env_status[e] = "FREE"
  BY <1>2, FreeListAsSet
<1>4. \A f \in Envs : /\ env_status'[f] = "FREE" <=> f \in FreeSet(env_free_list')
                      /\ env_status'[f] = "FREE" <=> ~env_pgdir'[f]
  BY <1>2, FreeListAsSet DEF TypeOK, EnvAlloc
<1>5. FreeListInv'
  BY <1>2, <1>4 DEF FreeListInv, Distinct, FreeSet
<1> QED
  BY <1>3, <1>5

\* env_free() of a slot in use puts it on the list, which stays exact, and
\* follows no null pointer.
LEMMA FreeKeepsList ==
    ASSUME TypeOK, FreeListInv, NEW c \in Cpus, NEW e \in Envs, env_status[e] # "FREE",
           EnvFree(c, e)
    PROVE  /\ FreeListInv'
           /\ env_status' = [env_status EXCEPT ![e] = "FREE"]
           /\ curenv[c] = e => /\ curenv' = [curenv EXCEPT ![c] = NoEnv]
                               /\ pc' = [pc EXCEPT ![c] = "yield"]
           /\ curenv[c] # e => curenv' = curenv /\ pc' = [pc EXCEPT ![c] = "ret"]
<1>1. env_pgdir[e] /\ e \notin FreeSet(env_free_list) /\ Distinct(env_free_list)
  BY FreeListAsSet
<1>2. /\ env_status' = [env_status EXCEPT ![e] = "FREE"]
      /\ env_pgdir' = [env_pgdir EXCEPT ![e] = FALSE]
      /\ env_free_list' = <<e>> \o env_free_list
  BY <1>1 DEF EnvFree
<1>3. Distinct(env_free_list') /\ FreeSet(env_free_list') = FreeSet(env_free_list) \cup {e}
  BY <1>1, <1>2, ConsOfList DEF TypeOK
<1>4. \A f \in Envs : /\ env_status'[f] = "FREE" <=> f \in FreeSet(env_free_list')
                      /\ env_status'[f] = "FREE" <=> ~env_pgdir'[f]
  BY <1>2, <1>3, FreeListAsSet DEF TypeOK
<1>5. FreeListInv'
  BY <1>3, <1>4 DEF FreeListInv, Distinct, FreeSet
<1> QED
  BY <1>1, <1>2, <1>5 DEF EnvFree, Goto

-----------------------------------------------------------------------------
(* One lemma per kind of step.  KInv' is proved above; these are about     *)
(* LifeInv.                                                                *)

\* The boot state: nothing runs, every slot is on the list.
LEMMA InitLifeInv == LibInit => LifeInv
<1> SUFFICES ASSUME LibInit PROVE LifeInv
  OBVIOUS
<1> USE Constants DEF LibInit, Init
<1>1. FreeListInv
  <2>1. Len(env_free_list) = NENV /\ \A i \in 1 .. NENV : env_free_list[i] = i - 1
    OBVIOUS
  <2>2. \A e \in Envs : e + 1 \in 1 .. NENV /\ env_free_list[e + 1] = e
    BY DEF Envs
  <2> QED
    BY <2>1, <2>2 DEF FreeListInv
<1>2. RunsAlone /\ RunningIsCurrent /\ NoWorkForZombies /\ CpuRecorded
  BY DEF RunsAlone, RunningIsCurrent, NoWorkForZombies, CpuRecorded
<1>3. IdsResolve /\ ReceiversBlocked /\ StartingWaits
  BY DEF IdsResolve, ReceiversBlocked, StartingWaits
<1> QED
  BY <1>1, <1>2, <1>3 DEF LifeInv

\* The environments as LifeInv sees them.
lifeVars == <<curenv, env_status, env_id, env_cpunum, env_ipc_recving, env_pgdir,
              env_free_list, starting>>

\* A step that moves a CPU without touching an environment, and does not let
\* it out of the kernel, keeps LifeInv if the place it moves to does.
LEMMA MoveLife ==
    ASSUME KInv, LifeInv, NEW c \in Cpus, NEW l \in Pcs, pc' = [pc EXCEPT ![c] = l],
           UNCHANGED lifeVars, lock' = lock \/ (lock = NoCpu /\ lock' = c),
           NoWorkForZombies', CpuRecorded'
    PROVE  LifeInv'
<1> USE DEF LifeInv, lifeVars
<1>1. RunsAlone' /\ IdsResolve' /\ ReceiversBlocked' /\ StartingWaits' /\ FreeListInv'
  BY DEF RunsAlone, IdsResolve, ReceiversBlocked, StartingWaits, FreeListInv
<1>2. RunningIsCurrent'
  BY Constants DEF RunningIsCurrent
<1> QED
  BY <1>1, <1>2

\* Traps, waiting for the lock, and the parts of boot that create nothing.
LEMMA MovesLifeInv ==
    ASSUME KInv, LifeInv, UNCHANGED starting,
           \/ BootDone
           \/ \E c \in Cpus : \/ BootAp(c) \/ MpMain(c) \/ TrapUser(c) \/ TrapHalted(c)
                              \/ Acquire(c) \/ Timer(c) \/ SysOther(c)
                              \/ SchedMonitor(c) \/ SchedScan(c) \/ SchedOverrun(c)
    PROVE  LifeInv'
<1> USE Constants DEF allocVars, schedVars, lifeVars, Goto, InKernel, Pcs,
                      NoWorkForZombies, CpuRecorded
<1>1. CASE BootDone
  <2>1. pc[bootcpu] = "boot"
    BY <1>1 DEF BootDone, StartedAp
  <2>2. NoWorkForZombies' /\ CpuRecorded'
    BY <1>1, <2>1, SMTT(30) DEF BootDone, LifeInv, KInv, TypeOK
  <2> QED
    BY <1>1, <2>2, MoveLife DEF BootDone
<1>2. ASSUME NEW c \in Cpus, BootAp(c) \/ MpMain(c) PROVE LifeInv'
  <2>1. NoWorkForZombies' /\ CpuRecorded'
    BY <1>2 DEF BootAp, MpMain, LifeInv, KInv, TypeOK
  <2> QED
    BY <1>2, <2>1, MoveLife DEF BootAp, MpMain
<1>3. ASSUME NEW c \in Cpus, TrapUser(c) PROVE LifeInv'
  <2>1. NoWorkForZombies' /\ CpuRecorded'
    BY <1>3 DEF TrapUser, LifeInv, KInv, TypeOK
  <2> QED
    BY <1>3, <2>1, MoveLife DEF TrapUser
<1>4. ASSUME NEW c \in Cpus, TrapHalted(c) PROVE LifeInv'
  <2>1. NoWorkForZombies' /\ CpuRecorded'
    BY <1>4, SMTT(30) DEF TrapHalted, LifeInv, KInv, TypeOK
  <2> QED
    BY <1>4, <2>1, MoveLife DEF TrapHalted
<1>5. ASSUME NEW c \in Cpus, Acquire(c) PROVE LifeInv'
  <2>1. NoWorkForZombies' /\ CpuRecorded'
    BY <1>5 DEF Acquire, LifeInv, KInv, TypeOK
  <2> QED
    BY <1>5, <2>1, MoveLife DEF Acquire
<1>6. ASSUME NEW c \in Cpus, Timer(c) \/ SysOther(c) PROVE LifeInv'
  <2>1. env_status[curenv[c]] = "RUNNING"
    BY <1>6 DEF Timer, SysOther, Dispatch, LifeInv
  <2>2. NoWorkForZombies' /\ CpuRecorded'
    BY <1>6, <2>1 DEF Timer, SysOther, Dispatch, LifeInv, KInv, TypeOK
  <2> QED
    BY <1>6, <2>2, MoveLife DEF Timer, SysOther
<1>7. ASSUME NEW c \in Cpus, SchedMonitor(c) \/ SchedScan(c) \/ SchedOverrun(c) PROVE LifeInv'
  <2>1. NoWorkForZombies' /\ CpuRecorded'
    BY <1>7 DEF SchedMonitor, SchedScan, SchedOverrun, LifeInv, KInv, TypeOK
  <2> QED
    BY <1>7, <2>1, MoveLife DEF SchedMonitor, SchedScan, SchedOverrun
<1> QED
  BY <1>1, <1>2, <1>3, <1>4, <1>5, <1>6, <1>7, SMTT(30)

\* While c has the lock, the environments of the other CPUs are running or
\* killed there.
LEMMA OthersRun ==
    ASSUME KInv, LifeInv, NEW c \in Cpus, lock = c, NEW d \in Cpus \ {c}, curenv[d] # NoEnv
    PROVE  curenv[d] \in Envs /\ env_status[curenv[d]] \in {"RUNNING", "DYING"}
BY DEF KInv, TypeOK, LifeInv, RunningIsCurrent

\* env_run() of an environment that is runnable, or is current here already,
\* by a CPU whose own environment is not a zombie.
LEMMA EnvRunLife ==
    ASSUME KInv, LifeInv, NEW c \in Cpus, pc[c] \in {"yield", "ret"}, NEW e \in Envs,
           \/ env_status[e] = "RUNNABLE"
           \/ e = curenv[c] /\ env_status[e] = "RUNNING",
           EnvRun(c, e),
           UNCHANGED <<env_id, env_cpunum, env_ipc_recving, env_pgdir, env_free_list, starting>>
    PROVE  LifeInv'
<1> USE Constants
<1>1. lock = c
  BY DEF KInv, KernelLockInv, InKernel
<1>2. env_pgdir[e]
  BY DEF LifeInv, FreeListInv
<1>3. /\ curenv' = [curenv EXCEPT ![c] = e]
      /\ env_status' = Switched(c, e)
      /\ lock' = NoCpu
      /\ pc' = [pc EXCEPT ![c] = "leave"]
  BY <1>1, <1>2 DEF EnvRun, Unlock, Goto
<1>4. \A d \in Cpus \ {c} : curenv[d] # NoEnv =>
         /\ curenv[d] \in Envs /\ curenv[d] # e /\ curenv[d] # curenv[c]
         /\ env_status[curenv[d]] \in {"RUNNING", "DYING"}
  BY <1>1, OthersRun DEF LifeInv, RunsAlone
<1>5. curenv[c] # NoEnv => curenv[c] \in Envs /\ env_status[curenv[c]] # "DYING"
  BY DEF LifeInv, NoWorkForZombies, KInv, TypeOK
<1>6. env_status'[e] = "RUNNING"
  BY <1>3 DEF Switched
<1>7. \A f \in Envs \ {e} :
         env_status'[f] = IF f = curenv[c] /\ env_status[f] = "RUNNING" THEN "RUNNABLE"
                          ELSE env_status[f]
  BY <1>3 DEF Switched
<1>8. RunsAlone'
  BY <1>3, <1>4 DEF RunsAlone, KInv, TypeOK, LifeInv
<1>9. RunningIsCurrent'
  <2>1. ASSUME NEW d \in Cpus, curenv'[d] # NoEnv
        PROVE  env_status'[curenv'[d]] \in {"RUNNING", "DYING"}
    <3>1. CASE d = c
      BY <1>3, <1>6, <3>1 DEF KInv, TypeOK
    <3>2. CASE d # c
      <4>1. curenv'[d] = curenv[d]
        BY <1>3, <3>2 DEF KInv, TypeOK
      <4>2. curenv[d] \in Envs \ {e} /\ curenv[d] # curenv[c]
        BY <1>4, <2>1, <3>2, <4>1
      <4> QED
        BY <1>4, <1>7, <2>1, <3>2, <4>1, <4>2
    <3> QED
      BY <3>1, <3>2
  <2>2. ASSUME NEW f \in Envs, env_status'[f] \in {"RUNNING", "DYING"}
        PROVE  \E d \in Cpus : curenv'[d] = f
    <3>1. CASE f = e
      BY <1>3, <3>1 DEF KInv, TypeOK
    <3>2. CASE f # e
      <4>1. env_status[f] \in {"RUNNING", "DYING"} /\ f # curenv[c]
        BY <1>5, <1>7, <2>2, <3>2
      <4>2. PICK d \in Cpus : curenv[d] = f
        BY <4>1 DEF LifeInv, RunningIsCurrent
      <4> QED
        BY <1>3, <4>1, <4>2 DEF KInv, TypeOK
    <3> QED
      BY <3>1, <3>2
  <2> QED
    BY <2>1, <2>2 DEF RunningIsCurrent
<1>10. NoWorkForZombies'
  <2>1. ASSUME NEW d \in Cpus \ {c}
        PROVE  /\ pc'[d] = pc[d] /\ curenv'[d] = curenv[d]
               /\ curenv[d] # NoEnv => env_status'[curenv[d]] = env_status[curenv[d]]
    BY <1>3, <1>4, <1>7 DEF KInv, TypeOK
  <2>2. pc'[c] = "leave" /\ curenv'[c] = e
    BY <1>3 DEF KInv, TypeOK
  <2>3. \A d \in Cpus : pc[d] \in {"leave", "user", "uspin", "trap"} => curenv[d] # NoEnv
    BY DEF KInv, CurenvInv
  <2> QED
    BY <1>6, <2>1, <2>2, <2>3 DEF NoWorkForZombies, LifeInv
<1>11. CpuRecorded'
  BY <1>3 DEF CpuRecorded, LifeInv, KInv, TypeOK
<1>12. \A f \in Envs : /\ env_status'[f] = "FREE" <=> env_status[f] = "FREE"
                       /\ env_status'[f] = "NOT_RUNNABLE" <=> env_status[f] = "NOT_RUNNABLE"
  BY <1>6, <1>7
<1>13. IdsResolve' /\ ReceiversBlocked' /\ FreeListInv'
  BY <1>12, FreeListKept DEF IdsResolve, ReceiversBlocked, LifeInv
<1>14. StartingWaits'
  BY <1>12 DEF StartingWaits, LifeInv
<1> QED
  BY <1>8, <1>9, <1>10, <1>11, <1>13, <1>14 DEF LifeInv

\* The steps that end in env_run(): the scheduler's, and the return from a trap.
LEMMA RunsLifeInv ==
    ASSUME KInv, LifeInv, UNCHANGED starting, NEW c \in Cpus,
           SchedPick(c) \/ SchedKeep(c) \/ TrapReturn(c)
    PROVE  LifeInv'
<1> USE DEF allocVars, schedVars
<1>1. CASE SchedPick(c)
  <2>1. PICK e \in Envs : IsNext(c, e) /\ EnvRun(c, e)
    BY <1>1 DEF SchedPick
  <2>2. env_status[e] = "RUNNABLE"
    BY <2>1 DEF IsNext, Eligible
  <2> QED
    BY <1>1, <2>1, <2>2, EnvRunLife DEF SchedPick
<1>2. CASE SchedKeep(c)
  <2>1. curenv[c] \in Envs /\ env_status[curenv[c]] = "RUNNING" /\ EnvRun(c, curenv[c])
    BY <1>2 DEF SchedKeep, Keeps, KInv, TypeOK
  <2> QED
    BY <1>2, <2>1, EnvRunLife DEF SchedKeep, NoneFound
<1>3. CASE TrapReturn(c)
  <2>1. CASE curenv[c] # NoEnv
    <3>1. curenv[c] \in Envs /\ env_status[curenv[c]] = "RUNNING"
      BY <1>3, <2>1 DEF TrapReturn, KInv, TypeOK, LifeInv, NoWorkForZombies
    <3>2. EnvRun(c, curenv[c])
      BY <1>3, <2>1, <3>1 DEF TrapReturn
    <3> QED
      BY <1>3, <3>1, <3>2, EnvRunLife DEF TrapReturn
  <2>2. CASE curenv[c] = NoEnv
    <3>1. pc' = [pc EXCEPT ![c] = "yield"] /\ UNCHANGED lifeVars /\ lock' = lock
      BY <1>3, <2>2 DEF TrapReturn, Goto, lifeVars
    <3>2. NoWorkForZombies' /\ CpuRecorded'
      BY <2>2, <3>1 DEF NoWorkForZombies, CpuRecorded, lifeVars, LifeInv, KInv, TypeOK
    <3> QED
      BY <3>1, <3>2, MoveLife DEF Pcs, InKernel
  <2> QED
    BY <2>1, <2>2
<1> QED
  BY <1>1, <1>2, <1>3

\* sched_halt(): the environment this CPU gives up is not running.
LEMMA HaltLifeInv ==
    ASSUME KInv, LifeInv, UNCHANGED starting, NEW c \in Cpus, SchedHalt(c)
    PROVE  LifeInv'
<1> USE Constants DEF allocVars, schedVars
<1>1. pc[c] = "yield" /\ lock = c
  BY DEF SchedHalt, NoneFound, KInv, KernelLockInv, InKernel
<1>2. /\ curenv' = [curenv EXCEPT ![c] = NoEnv]
      /\ pc' = [pc EXCEPT ![c] = "halted"]
      /\ UNCHANGED <<env_status, env_id, env_cpunum, env_ipc_recving, env_pgdir, env_free_list>>
  BY <1>1 DEF SchedHalt, Unlock, Goto
<1>3. curenv[c] # NoEnv => env_status[curenv[c]] \notin {"RUNNING", "DYING"}
  BY <1>1 DEF SchedHalt, Keeps, LifeInv, CpuRecorded, NoWorkForZombies
<1>4. RunsAlone'
  BY <1>2 DEF RunsAlone, LifeInv, KInv, TypeOK
<1>5. RunningIsCurrent'
  <2>1. ASSUME NEW d \in Cpus, curenv'[d] # NoEnv
        PROVE  env_status'[curenv'[d]] \in {"RUNNING", "DYING"}
    <3>1. d # c /\ curenv'[d] = curenv[d]
      BY <1>2, <2>1 DEF KInv, TypeOK
    <3> QED
      BY <1>1, <1>2, <2>1, <3>1, OthersRun
  <2>2. ASSUME NEW e \in Envs, env_status'[e] \in {"RUNNING", "DYING"}
        PROVE  \E d \in Cpus : curenv'[d] = e
    <3>1. PICK d \in Cpus : curenv[d] = e
      BY <1>2, <2>2 DEF LifeInv, RunningIsCurrent
    <3>2. d # c
      BY <1>2, <1>3, <2>2, <3>1
    <3> QED
      BY <1>2, <3>1, <3>2 DEF KInv, TypeOK
  <2> QED
    BY <2>1, <2>2 DEF RunningIsCurrent
<1>6. NoWorkForZombies' /\ CpuRecorded'
  BY <1>2 DEF NoWorkForZombies, CpuRecorded, LifeInv, KInv, TypeOK
<1>7. IdsResolve' /\ ReceiversBlocked' /\ StartingWaits' /\ FreeListInv'
  BY <1>2 DEF IdsResolve, ReceiversBlocked, StartingWaits, FreeListInv, LifeInv
<1> QED
  BY <1>4, <1>5, <1>6, <1>7 DEF LifeInv

\* The end of env_run(): the CPU is recorded for its own environment only.
LEMMA ResumeLifeInv ==
    ASSUME KInv, LifeInv, UNCHANGED starting, NEW c \in Cpus, Resume(c)
    PROVE  LifeInv'
<1> USE Constants DEF allocVars, schedVars, Resume, Goto
<1>1. curenv[c] \in Envs
  BY DEF KInv, TypeOK, CurenvInv
<1>2. RunsAlone' /\ RunningIsCurrent'
  BY DEF RunsAlone, RunningIsCurrent, LifeInv
<1>5. IdsResolve' /\ ReceiversBlocked' /\ StartingWaits'
  BY DEF IdsResolve, ReceiversBlocked, StartingWaits, LifeInv
<1>6. FreeListInv'
  BY FreeListKept DEF LifeInv
<1>3. NoWorkForZombies'
  BY DEF NoWorkForZombies, LifeInv, KInv, TypeOK
<1>4. CpuRecorded'
  BY <1>1 DEF CpuRecorded, RunsAlone, LifeInv, KInv, TypeOK
<1> QED
  BY <1>2, <1>3, <1>4, <1>5, <1>6 DEF LifeInv

-----------------------------------------------------------------------------
\* env_free() of an environment that no other CPU has.
LEMMA FreeLife ==
    ASSUME KInv, LifeInv, NEW c \in Cpus, pc[c] = "trap", NEW e \in Envs,
           env_status[e] # "FREE", \A d \in Cpus \ {c} : curenv[d] # e,
           EnvFree(c, e), starting' = starting \ {e},
           curenv[c] # e => env_status[curenv[c]] = "RUNNING",
           UNCHANGED <<lock, env_id, env_cpunum, env_ipc_recving>>
    PROVE  LifeInv'
<1> USE Constants
<1>1. lock = c /\ curenv[c] \in Envs
  BY DispatchCurrent
<1>2. /\ FreeListInv'
      /\ env_status' = [env_status EXCEPT ![e] = "FREE"]
      /\ curenv[c] = e => /\ curenv' = [curenv EXCEPT ![c] = NoEnv]
                          /\ pc' = [pc EXCEPT ![c] = "yield"]
      /\ curenv[c] # e => curenv' = curenv /\ pc' = [pc EXCEPT ![c] = "ret"]
  BY FreeKeepsList DEF KInv, LifeInv
<1>3. \A d \in Cpus : curenv'[d] # NoEnv =>
         curenv'[d] = curenv[d] /\ curenv[d] # e /\ curenv[d] \in Envs
  BY <1>2 DEF KInv, TypeOK
<1>4. \A f \in Envs : env_status'[f] = IF f = e THEN "FREE" ELSE env_status[f]
  BY <1>2 DEF KInv, TypeOK
<1>5. RunsAlone'
  BY <1>3 DEF RunsAlone, LifeInv
<1>6. RunningIsCurrent'
  <2>1. ASSUME NEW d \in Cpus, curenv'[d] # NoEnv
        PROVE  env_status'[curenv'[d]] \in {"RUNNING", "DYING"}
    <3>1. curenv'[d] = curenv[d] /\ curenv[d] \in Envs \ {e}
      BY <1>3, <2>1
    <3>2. env_status[curenv[d]] \in {"RUNNING", "DYING"}
      BY <1>1, <3>1, OthersRun
    <3> QED
      BY <1>4, <3>1, <3>2
  <2>2. ASSUME NEW f \in Envs, env_status'[f] \in {"RUNNING", "DYING"}
        PROVE  \E d \in Cpus : curenv'[d] = f
    <3>1. f # e /\ env_status[f] \in {"RUNNING", "DYING"}
      BY <1>4, <2>2
    <3>2. PICK d \in Cpus : curenv[d] = f
      BY <3>1 DEF RunningIsCurrent, LifeInv
    <3> QED
      BY <1>2, <3>1, <3>2 DEF KInv, TypeOK
  <2> QED
    BY <2>1, <2>2 DEF RunningIsCurrent
<1>7. NoWorkForZombies'
  <2>1. ASSUME NEW d \in Cpus \ {c}
        PROVE  /\ pc'[d] = pc[d] /\ curenv'[d] = curenv[d]
               /\ curenv[d] # NoEnv => env_status'[curenv[d]] = env_status[curenv[d]]
    BY <1>2, <1>4 DEF KInv, TypeOK
  <2>2. \A d \in Cpus : pc[d] \in {"leave", "user", "uspin", "trap"} => curenv[d] # NoEnv
    BY DEF KInv, CurenvInv
  <2>3. CASE curenv[c] = e
    <3>1. pc'[c] = "yield" /\ curenv'[c] = NoEnv
      BY <1>2, <2>3 DEF KInv, TypeOK
    <3> QED
      BY <2>1, <2>2, <3>1 DEF NoWorkForZombies, LifeInv
  <2>4. CASE curenv[c] # e
    <3>1. pc'[c] = "ret" /\ curenv'[c] = curenv[c] /\ env_status'[curenv[c]] = "RUNNING"
      BY <1>1, <1>2, <1>4, <2>4 DEF KInv, TypeOK
    <3> QED
      BY <2>1, <2>2, <3>1 DEF NoWorkForZombies, LifeInv
  <2> QED
    BY <2>3, <2>4
<1>8. CpuRecorded'
  BY <1>2, <1>3 DEF CpuRecorded, LifeInv, KInv, TypeOK
<1>9. IdsResolve' /\ ReceiversBlocked' /\ starting' \subseteq Envs /\ StartingWaits'
  BY <1>4 DEF IdsResolve, ReceiversBlocked, StartingWaits, LifeInv
<1> QED
  BY <1>2, <1>5, <1>6, <1>7, <1>8, <1>9 DEF LifeInv

\* A handler that changes the status of an environment e that is not current
\* anywhere, or marks a running one as killed, and goes on to the end of trap().
LEMMA StatusLife ==
    ASSUME KInv, LifeInv, NEW c \in Cpus, pc[c] = "trap", NEW e \in Envs \ {curenv[c]},
           NEW st \in Statuses,
           \/ env_status[e] = "RUNNING" /\ st = "DYING"
           \/ env_status[e] \in {"NOT_RUNNABLE", "FREE"} /\ st \in {"RUNNABLE", "NOT_RUNNABLE"},
           env_status' = [env_status EXCEPT ![e] = st],
           pc' = [pc EXCEPT ![c] = "ret"], env_status[curenv[c]] = "RUNNING",
           \A f \in Envs \ {e} : env_ipc_recving'[f] = env_ipc_recving[f],
           \A f \in Envs \ {e} : env_id'[f] = env_id[f],
           env_ipc_recving'[e] => st = "NOT_RUNNABLE",
           env_id'[e][1] = e /\ env_id'[e][2] \in 1 .. GenMax,
           UNCHANGED <<lock, curenv, env_cpunum>>
    PROVE  /\ RunsAlone' /\ RunningIsCurrent' /\ NoWorkForZombies' /\ CpuRecorded'
           /\ IdsResolve' /\ ReceiversBlocked'
<1> USE Constants
<1>1. lock = c /\ curenv[c] \in Envs
  BY DispatchCurrent
<1>2. \A f \in Envs : env_status'[f] = IF f = e THEN st ELSE env_status[f]
  BY DEF KInv, TypeOK
<1>3. \A d \in Cpus : curenv[d] = e => env_status[e] \in {"RUNNING", "DYING"}
  BY <1>1, OthersRun DEF LifeInv
<1>4. RunsAlone'
  BY DEF RunsAlone, LifeInv
<1>5. RunningIsCurrent'
  <2>1. ASSUME NEW d \in Cpus, curenv[d] # NoEnv
        PROVE  env_status'[curenv[d]] \in {"RUNNING", "DYING"}
    <3>1. CASE curenv[d] = e
      BY <1>2, <1>3, <3>1
    <3>2. CASE curenv[d] # e
      <4>1. curenv[d] \in Envs
        BY <2>1 DEF KInv, TypeOK
      <4>2. env_status[curenv[d]] \in {"RUNNING", "DYING"}
        BY <1>1, <2>1, OthersRun
      <4> QED
        BY <1>2, <3>2, <4>1, <4>2
    <3> QED
      BY <3>1, <3>2
  <2>2. ASSUME NEW f \in Envs, env_status'[f] \in {"RUNNING", "DYING"}
        PROVE  \E d \in Cpus : curenv'[d] = f
    BY <1>2, <2>2 DEF RunningIsCurrent, LifeInv
  <2> QED
    BY <2>1, <2>2 DEF RunningIsCurrent
<1>6. NoWorkForZombies'
  <2>1. ASSUME NEW d \in Cpus \ {c}, curenv[d] # NoEnv
        PROVE  env_status'[curenv[d]] \in {env_status[curenv[d]], "DYING"}
    BY <1>1, <1>2, <1>3, <2>1, OthersRun
  <2>2. \A d \in Cpus \ {c} : pc'[d] = pc[d] /\ pc[d] \notin InKernel
    BY <1>1 DEF KInv, TypeOK, KernelLockInv
  <2>3. pc'[c] = "ret" /\ env_status'[curenv[c]] = "RUNNING"
    BY <1>1, <1>2 DEF KInv, TypeOK
  <2>4. \A d \in Cpus : pc[d] \in {"leave", "user", "uspin", "trap"} => curenv[d] # NoEnv
    BY DEF KInv, CurenvInv
  <2> QED
    BY <2>1, <2>2, <2>3, <2>4 DEF NoWorkForZombies, LifeInv, InKernel
<1>7. CpuRecorded'
  BY DEF CpuRecorded, LifeInv, KInv, TypeOK
<1>8. IdsResolve'
  BY <1>2 DEF IdsResolve, LifeInv
<1>9. ReceiversBlocked'
  <2> SUFFICES ASSUME NEW f \in Envs, env_ipc_recving'[f] PROVE env_status'[f] \in {"NOT_RUNNABLE", "FREE"}
    BY DEF ReceiversBlocked
  <2>1. CASE f = e
    BY <1>2, <2>1
  <2>2. CASE f # e
    <3>1. env_status[f] \in {"NOT_RUNNABLE", "FREE"}
      BY <2>2 DEF ReceiversBlocked, LifeInv
    <3> QED
      BY <1>2, <2>2, <3>1
  <2> QED
    BY <2>1, <2>2
<1> QED
  BY <1>4, <1>5, <1>6, <1>7, <1>8, <1>9

\* At the dispatch of a trap the current environment is running and nobody
\* else has it.
LEMMA DispatchRuns ==
    ASSUME KInv, LifeInv, NEW c \in Cpus, pc[c] = "trap"
    PROVE  /\ curenv[c] \in Envs
           /\ env_status[curenv[c]] \in {"RUNNING", "DYING"}
           /\ curenv[c] \notin starting
           /\ \A d \in Cpus \ {c} : curenv[d] # curenv[c]
<1>1. curenv[c] \in Envs
  BY DispatchCurrent
<1>2. env_status[curenv[c]] \in {"RUNNING", "DYING"}
  BY DEF LifeInv, NoWorkForZombies
<1> QED
  BY <1>1, <1>2, Constants DEF LifeInv, StartingWaits, RunsAlone

\* trap() of a zombie, and faults.
LEMMA ReapsLifeInv ==
    ASSUME KInv, LifeInv, UNCHANGED starting, NEW c \in Cpus, Reap(c) \/ Fault(c)
    PROVE  LifeInv'
<1>1. pc[c] = "trap"
  BY DEF Reap, Fault, Dispatch
<1>2. EnvFree(c, curenv[c])
  BY DEF Reap, Fault, EnvDestroy
<1>3. starting' = starting \ {curenv[c]}
  BY <1>1, DispatchRuns
<1>4. UNCHANGED <<lock, env_id, env_cpunum, env_ipc_recving>>
  BY DEF Reap, Fault
<1> QED
  BY <1>1, <1>2, <1>3, <1>4, DispatchRuns, FreeLife

\* envid2env() finds an environment in use.
LEMMA Envid2EnvLive ==
    ASSUME KInv, LifeInv, NEW c \in Cpus, Dispatch(c), NEW id \in EnvIds, NEW b \in BOOLEAN,
           Envid2Env(c, id, b) # NoEnv
    PROVE  Envid2Env(c, id, b) \in Envs /\ env_status[Envid2Env(c, id, b)] # "FREE"
<1>1. Envid2Env(c, id, b) \in Envs
  BY Envid2EnvType DEF Dispatch
<1> QED
  BY <1>1, DispatchRuns DEF Envid2Env, Dispatch

\* exit() and the destruction of a child.
LEMMA KillLifeInv == ASSUME KInv, LifeInv, NEW c \in Cpus, Kill(c) PROVE LifeInv'
<1>1. PICK id \in EnvIds : /\ SysEnvDestroy(c, id)
                           /\ env_status[Envid2Env(c, id, TRUE)] # "DYING"
                           /\ starting' = starting \ {Envid2Env(c, id, TRUE)}
  BY DEF Kill
<1> DEFINE e == Envid2Env(c, id, TRUE)
<1>2. Dispatch(c) /\ e # NoEnv /\ EnvDestroy(c, e)
  BY <1>1 DEF SysEnvDestroy
<1>3. e \in Envs /\ env_status[e] \notin {"FREE", "DYING"} /\ starting' = starting \ {e}
  BY <1>1, <1>2, Envid2EnvLive
<1>4. UNCHANGED <<lock, env_id, env_cpunum, env_ipc_recving>>
  BY <1>1 DEF SysEnvDestroy
<1> HIDE DEF e
<1>5. pc[c] = "trap" /\ lock = c /\ env_status[curenv[c]] = "RUNNING" /\ curenv[c] \in Envs
  BY <1>2, DispatchRuns, DispatchCurrent DEF Dispatch
<1>6. CASE env_status[e] = "RUNNING" /\ curenv[c] # e
  <2>1. /\ env_status' = [env_status EXCEPT ![e] = "DYING"]
        /\ pc' = [pc EXCEPT ![c] = "ret"]
        /\ UNCHANGED <<curenv, env_pgdir, env_free_list>>
    BY <1>2, <1>6 DEF EnvDestroy, Goto
  <2>2. ~env_ipc_recving'[e] /\ env_id'[e][1] = e /\ env_id'[e][2] \in 1 .. GenMax
    BY <1>3, <1>4, <1>6 DEF LifeInv, ReceiversBlocked, IdsResolve, KInv, TypeOK
  <2>3. /\ RunsAlone' /\ RunningIsCurrent' /\ NoWorkForZombies' /\ CpuRecorded'
        /\ IdsResolve' /\ ReceiversBlocked'
    BY <1>3, <1>4, <1>5, <1>6, <2>1, <2>2, StatusLife DEF Statuses
  <2>4. starting' \subseteq Envs /\ StartingWaits' /\ FreeListInv'
    BY <1>3, <1>4, <1>6, <2>1, FreeListKept DEF StartingWaits, LifeInv, KInv, TypeOK
  <2> QED
    BY <2>3, <2>4 DEF LifeInv
<1>7. CASE ~(env_status[e] = "RUNNING" /\ curenv[c] # e)
  <2>1. EnvFree(c, e)
    BY <1>2, <1>7 DEF EnvDestroy
  <2>2. \A d \in Cpus \ {c} : curenv[d] # e
    BY <1>3, <1>5, <1>7, DispatchRuns, OthersRun, Constants
  <2> QED
    BY <1>3, <1>4, <1>5, <2>1, <2>2, FreeLife
<1> QED
  BY <1>6, <1>7

\* fork(): the child comes to life, not runnable.
LEMMA ForkBeginLifeInv == ASSUME KInv, LifeInv, NEW c \in Cpus, ForkBegin(c) PROVE LifeInv'
<1>1. PICK e \in Envs : EnvAlloc(e, env_id[curenv[c]], "NOT_RUNNABLE")
  BY DEF ForkBegin, SysExofork
<1>2. /\ Dispatch(c) /\ pc' = [pc EXCEPT ![c] = "ret"]
      /\ UNCHANGED <<lock, curenv, env_cpunum>>
      /\ starting' = starting \cup {e}
  BY <1>1 DEF ForkBegin, SysExofork, EnvAlloc, Goto
<1>3. pc[c] = "trap" /\ env_status[curenv[c]] = "RUNNING" /\ curenv[c] \in Envs
  BY <1>2, DispatchRuns DEF Dispatch
<1>4. env_id[curenv[c]] \in EnvIds
  BY <1>3 DEF KInv, TypeOK
<1>5. FreeListInv' /\ env_status[e] = "FREE"
  BY <1>1, <1>4, AllocKeepsList DEF KInv, LifeInv, Statuses
<1>6. /\ env_status' = [env_status EXCEPT ![e] = "NOT_RUNNABLE"]
      /\ env_ipc_recving' = [env_ipc_recving EXCEPT ![e] = FALSE]
      /\ env_id' = [env_id EXCEPT ![e] = NextId(e)]
  BY <1>1 DEF EnvAlloc
<1>7. NextId(e)[1] = e /\ NextId(e)[2] \in 1 .. GenMax
  <2>1. env_id[e][2] \in 0 .. GenMax
    BY DEF KInv, TypeOK, EnvIds
  <2> QED
    BY <2>1 DEF NextId
<1>8. /\ \A f \in Envs \ {e} : env_ipc_recving'[f] = env_ipc_recving[f]
      /\ \A f \in Envs \ {e} : env_id'[f] = env_id[f]
      /\ ~env_ipc_recving'[e] /\ env_id'[e] = NextId(e)
      /\ env_status'[e] = "NOT_RUNNABLE"
      /\ \A f \in Envs \ {e} : env_status'[f] = env_status[f]
  BY <1>6 DEF KInv, TypeOK
<1>11. e \in Envs \ {curenv[c]} /\ env_id'[e][1] = e /\ env_id'[e][2] \in 1 .. GenMax
  BY <1>3, <1>5, <1>7, <1>8
<1>9. /\ RunsAlone' /\ RunningIsCurrent' /\ NoWorkForZombies' /\ CpuRecorded'
      /\ IdsResolve' /\ ReceiversBlocked'
  BY <1>2, <1>3, <1>5, <1>6, <1>8, <1>11, StatusLife DEF Statuses
<1>10. starting' \subseteq Envs /\ StartingWaits'
  BY <1>2, <1>8 DEF StartingWaits, LifeInv
<1> QED
  BY <1>5, <1>9, <1>10 DEF LifeInv

\* fork(): the child starts.
LEMMA ForkEndLifeInv == ASSUME KInv, LifeInv, NEW c \in Cpus, ForkEnd(c) PROVE LifeInv'
<1>1. PICK e \in starting : /\ SysEnvSetStatus(c, env_id[e], "RUNNABLE")
                            /\ starting' = starting \ {e}
  BY DEF ForkEnd
<1>2. /\ e \in Envs /\ env_status[e] = "NOT_RUNNABLE" /\ ~env_ipc_recving[e]
      /\ env_id[e][1] = e /\ env_id[e][2] \in 1 .. GenMax
  BY <1>1 DEF LifeInv, StartingWaits, IdsResolve
<1>3. Envid2Env(c, env_id[e], TRUE) \in {e, NoEnv}
  BY <1>2 DEF Envid2Env, ZeroId
<1>4. /\ Dispatch(c) /\ pc' = [pc EXCEPT ![c] = "ret"]
      /\ env_status' = [env_status EXCEPT ![e] = "RUNNABLE"]
      /\ UNCHANGED <<lock, curenv, env_id, env_pgdir, env_free_list, env_cpunum, env_ipc_recving>>
  BY <1>1, <1>3 DEF SysEnvSetStatus, Goto, allocVars
<1>5. pc[c] = "trap" /\ env_status[curenv[c]] = "RUNNING"
  BY <1>4, DispatchRuns DEF Dispatch
<1>6. e \in Envs \ {curenv[c]} /\ ~env_ipc_recving'[e]
      /\ env_id'[e][1] = e /\ env_id'[e][2] \in 1 .. GenMax
  BY <1>2, <1>4, <1>5
<1>7. /\ RunsAlone' /\ RunningIsCurrent' /\ NoWorkForZombies' /\ CpuRecorded'
      /\ IdsResolve' /\ ReceiversBlocked'
  BY <1>2, <1>4, <1>5, <1>6, StatusLife DEF Statuses
<1>8. \A f \in Envs : env_status'[f] = IF f = e THEN "RUNNABLE" ELSE env_status[f]
  BY <1>4 DEF KInv, TypeOK
<1>9. starting' \subseteq Envs /\ StartingWaits' /\ FreeListInv'
  BY <1>1, <1>2, <1>4, <1>8, FreeListKept DEF StartingWaits, LifeInv
<1> QED
  BY <1>7, <1>9 DEF LifeInv

\* ipc_send(): the receiver wakes up.
LEMMA IpcSendLifeInv == ASSUME KInv, LifeInv, NEW c \in Cpus, IpcSend(c) PROVE LifeInv'
<1>1. PICK id \in EnvIds : SysIpcTrySend(c, id)
  BY DEF IpcSend
<1> DEFINE e == Envid2Env(c, id, FALSE)
<1>2. /\ Dispatch(c) /\ e # NoEnv /\ env_ipc_recving[e]
      /\ env_ipc_recving' = [env_ipc_recving EXCEPT ![e] = FALSE]
      /\ env_status' = [env_status EXCEPT ![e] = "RUNNABLE"]
      /\ pc' = [pc EXCEPT ![c] = "ret"]
      /\ UNCHANGED <<lock, curenv, env_id, env_pgdir, env_free_list, env_cpunum, starting>>
  BY <1>1 DEF SysIpcTrySend, Goto, allocVars, IpcSend
<1>3. e \in Envs /\ env_status[e] # "FREE"
  BY <1>2, Envid2EnvLive
<1> HIDE DEF e
<1>4. env_status[e] = "NOT_RUNNABLE" /\ e \notin starting
  BY <1>2, <1>3 DEF LifeInv, ReceiversBlocked, StartingWaits
<1>5. pc[c] = "trap" /\ env_status[curenv[c]] = "RUNNING"
  BY <1>2, DispatchRuns DEF Dispatch
<1>6. /\ e \in Envs \ {curenv[c]} /\ ~env_ipc_recving'[e]
      /\ env_id'[e][1] = e /\ env_id'[e][2] \in 1 .. GenMax
      /\ \A f \in Envs \ {e} : env_ipc_recving'[f] = env_ipc_recving[f]
      /\ \A f \in Envs : env_status'[f] = IF f = e THEN "RUNNABLE" ELSE env_status[f]
  BY <1>2, <1>3, <1>4, <1>5 DEF KInv, TypeOK, LifeInv, IdsResolve
<1>7. /\ RunsAlone' /\ RunningIsCurrent' /\ NoWorkForZombies' /\ CpuRecorded'
      /\ IdsResolve' /\ ReceiversBlocked'
  BY <1>2, <1>4, <1>5, <1>6, StatusLife DEF Statuses
<1>8. StartingWaits' /\ starting' \subseteq Envs /\ FreeListInv'
  BY <1>2, <1>4, <1>6, FreeListKept DEF StartingWaits, LifeInv
<1> QED
  BY <1>7, <1>8 DEF LifeInv

\* ipc_recv(): the current environment blocks and its CPU goes to the
\* scheduler, still with the lock.
LEMMA IpcRecvLifeInv == ASSUME KInv, LifeInv, NEW c \in Cpus, IpcRecv(c) PROVE LifeInv'
<1> DEFINE e == curenv[c]
<1>1. pc[c] = "trap" /\ lock = c /\ e \in Envs /\ env_status[e] = "RUNNING" /\ e \notin starting
      /\ \A d \in Cpus \ {c} : curenv[d] # e
  BY DispatchRuns, DispatchCurrent DEF IpcRecv, SysIpcRecv, Dispatch
<1>2. /\ env_ipc_recving' = [env_ipc_recving EXCEPT ![e] = TRUE]
      /\ env_status' = [env_status EXCEPT ![e] = "NOT_RUNNABLE"]
      /\ pc' = [pc EXCEPT ![c] = "yield"]
      /\ UNCHANGED <<lock, curenv, env_id, env_pgdir, env_free_list, env_cpunum, starting>>
  BY DEF IpcRecv, SysIpcRecv, Goto, allocVars
<1>3. /\ \A f \in Envs : env_status'[f] = IF f = e THEN "NOT_RUNNABLE" ELSE env_status[f]
      /\ \A f \in Envs : env_ipc_recving'[f] = (f = e \/ env_ipc_recving[f])
  BY <1>2 DEF KInv, TypeOK
<1>4. e = curenv[c]
  OBVIOUS
<1> HIDE DEF e
<1>5. RunsAlone'
  BY <1>2 DEF RunsAlone, LifeInv
<1>6. RunningIsCurrent'
  <2>1. ASSUME NEW d \in Cpus, curenv[d] # NoEnv, d # c
        PROVE  env_status'[curenv[d]] \in {"RUNNING", "DYING"}
    BY <1>1, <1>3, <2>1, OthersRun
  <2>2. lock' = c /\ env_status'[curenv[c]] = "NOT_RUNNABLE" /\ env_ipc_recving'[curenv[c]]
    BY <1>1, <1>2, <1>3, <1>4
  <2>3. ASSUME NEW f \in Envs, env_status'[f] \in {"RUNNING", "DYING"}
        PROVE  \E d \in Cpus : curenv'[d] = f
    BY <1>2, <1>3, <2>3 DEF RunningIsCurrent, LifeInv
  <2> QED
    BY <1>2, <2>1, <2>2, <2>3 DEF RunningIsCurrent
<1>7. NoWorkForZombies'
  <2>1. ASSUME NEW d \in Cpus \ {c}
        PROVE  /\ pc'[d] = pc[d] /\ curenv'[d] = curenv[d]
               /\ curenv[d] # NoEnv => env_status'[curenv[d]] = env_status[curenv[d]]
    BY <1>1, <1>2, <1>3 DEF KInv, TypeOK
  <2>2. pc'[c] = "yield" /\ env_status'[curenv'[c]] = "NOT_RUNNABLE"
    BY <1>1, <1>2, <1>3, <1>4 DEF KInv, TypeOK
  <2>3. \A d \in Cpus : pc[d] \in {"leave", "user", "uspin", "trap"} => curenv[d] # NoEnv
    BY DEF KInv, CurenvInv
  <2> QED
    BY <2>1, <2>2, <2>3 DEF NoWorkForZombies, LifeInv
<1>8. CpuRecorded'
  BY <1>1, <1>2 DEF CpuRecorded, LifeInv, KInv, TypeOK
<1>9. IdsResolve' /\ ReceiversBlocked' /\ starting' \subseteq Envs /\ StartingWaits'
  BY <1>1, <1>2, <1>3 DEF IdsResolve, ReceiversBlocked, StartingWaits, LifeInv
<1>10. FreeListInv'
  BY <1>1, <1>2, <1>3, FreeListKept DEF LifeInv
<1> QED
  BY <1>5, <1>6, <1>7, <1>8, <1>9, <1>10 DEF LifeInv

\* sys_env_set_priority() touches nothing LifeInv looks at.
LEMMA SetPriorityLifeInv == ASSUME KInv, LifeInv, NEW c \in Cpus, SetPriority(c) PROVE LifeInv'
<1>1. /\ Dispatch(c) /\ pc' = [pc EXCEPT ![c] = "ret"] /\ lock' = lock
      /\ UNCHANGED lifeVars
  BY DEF SetPriority, SysEnvSetPriority, Goto, allocVars, lifeVars
<1>2. env_status[curenv[c]] = "RUNNING"
  BY <1>1, DispatchRuns DEF Dispatch
<1>3. NoWorkForZombies' /\ CpuRecorded'
  BY <1>1, <1>2 DEF NoWorkForZombies, CpuRecorded, lifeVars, Dispatch, LifeInv, KInv, TypeOK
<1> QED
  BY <1>1, <1>3, MoveLife DEF Pcs, InKernel

\* ENV_CREATE: the first environments wait for the scheduler.
LEMMA CreateLifeInv == ASSUME KInv, LifeInv, UNCHANGED starting, EnvCreate PROVE LifeInv'
<1> USE Constants
<1>1. PICK e \in Envs : EnvAlloc(e, ZeroId, "RUNNABLE")
  BY DEF EnvCreate
<1>2. UNCHANGED <<lock, curenv, pc, env_cpunum>>
  BY DEF EnvCreate, cpuVars
<1>3. FreeListInv' /\ env_status[e] = "FREE"
  BY <1>1, AllocKeepsList DEF KInv, LifeInv, Statuses
<1>4. NextId(e)[1] = e /\ NextId(e)[2] \in 1 .. GenMax
  <2>1. env_id[e][2] \in 0 .. GenMax
    BY DEF KInv, TypeOK, EnvIds
  <2> QED
    BY <2>1 DEF NextId
<1>5. /\ \A f \in Envs : env_status'[f] = IF f = e THEN "RUNNABLE" ELSE env_status[f]
      /\ \A f \in Envs : env_ipc_recving'[f] = (f # e /\ env_ipc_recving[f])
      /\ \A f \in Envs : env_id'[f] = IF f = e THEN NextId(e) ELSE env_id[f]
  BY <1>1 DEF EnvAlloc, KInv, TypeOK
<1>6. \A d \in Cpus : curenv[d] # NoEnv => curenv[d] \in Envs \ {e}
  BY <1>3 DEF LifeInv, RunningIsCurrent, KInv, TypeOK
<1>7. RunsAlone' /\ CpuRecorded'
  BY <1>2 DEF RunsAlone, CpuRecorded, LifeInv
<1>8. RunningIsCurrent'
  <2>1. ASSUME NEW d \in Cpus, curenv[d] # NoEnv
        PROVE  \/ env_status'[curenv[d]] \in {"RUNNING", "DYING"}
               \/ /\ lock' = d /\ env_status'[curenv[d]] = "NOT_RUNNABLE"
                  /\ env_ipc_recving'[curenv[d]]
    <3>1. curenv[d] \in Envs \ {e}
      BY <1>6, <2>1
    <3>2. env_status'[curenv[d]] = env_status[curenv[d]]
      BY <1>5, <3>1
    <3>3. env_ipc_recving[curenv[d]] => env_ipc_recving'[curenv[d]]
      BY <1>5, <3>1, Zenon
    <3> QED
      BY <1>2, <2>1, <3>2, <3>3 DEF RunningIsCurrent, LifeInv
  <2> QED
    BY <1>2, <1>5, <2>1 DEF RunningIsCurrent, LifeInv
<1>9. NoWorkForZombies'
  <2>1. \A d \in Cpus : pc[d] \in {"leave", "user", "uspin", "trap"} => curenv[d] # NoEnv
    BY DEF KInv, CurenvInv
  <2> QED
    BY <1>2, <1>5, <1>6, <2>1, ZenonT(40) DEF NoWorkForZombies, LifeInv
<1>10. IdsResolve' /\ ReceiversBlocked' /\ starting' \subseteq Envs /\ StartingWaits'
  BY <1>3, <1>4, <1>5 DEF IdsResolve, ReceiversBlocked, StartingWaits, LifeInv
<1> QED
  BY <1>3, <1>7, <1>8, <1>9, <1>10 DEF LifeInv

-----------------------------------------------------------------------------
\* Library programs make kernel steps only.
LEMMA LibNextNext == ASSUME KInv, starting \subseteq Envs, LibNext PROVE Next
<1>1. CASE EnvCreate \/ BootDone
  BY <1>1 DEF Next
<1>2. ASSUME NEW c \in Cpus, KernelStep(c) \/ Acquire(c) \/ Stopped(c) \/ Timer(c) \/ Fault(c)
      PROVE  Next
  BY <1>2 DEF Next
<1>3. ASSUME NEW c \in Cpus, LibCall(c) PROVE Syscall(c)
  <2>1. CASE ForkBegin(c) \/ SysOther(c)
    BY <2>1 DEF ForkBegin, Syscall
  <2>2. CASE ForkEnd(c)
    <3>1. PICK e \in starting : SysEnvSetStatus(c, env_id[e], "RUNNABLE")
      BY <2>2 DEF ForkEnd
    <3>2. env_id[e] \in EnvIds
      BY DEF KInv, TypeOK
    <3> QED
      BY <3>1, <3>2 DEF Syscall
  <2>3. CASE Kill(c)
    <3>1. PICK id \in EnvIds : SysEnvDestroy(c, id)
      BY <2>3 DEF Kill
    <3> QED
      BY <3>1 DEF Syscall
  <2>4. CASE IpcRecv(c)
    <3>1. SysIpcRecv(c, TRUE)
      BY <2>4 DEF IpcRecv
    <3> QED
      BY <3>1 DEF Syscall
  <2>5. CASE IpcSend(c)
    <3>1. PICK id \in EnvIds : SysIpcTrySend(c, id)
      BY <2>5 DEF IpcSend
    <3> QED
      BY <3>1 DEF Syscall
  <2>6. CASE SetPriority(c)
    <3>1. PICK id \in EnvIds, p \in Prios : SysEnvSetPriority(c, id, p)
      BY <2>6 DEF SetPriority
    <3> QED
      BY <3>1 DEF Syscall
  <2> QED
    BY <1>3, <2>1, <2>2, <2>3, <2>4, <2>5, <2>6 DEF LibCall
<1>4. ASSUME NEW c \in Cpus, LibCall(c) PROVE Next
  BY <1>3, <1>4 DEF Next
<1> QED
  BY <1>1, <1>2, <1>4 DEF LibNext

\* Every step of the kernel under library programs keeps LibInv.
LEMMA NextLibInv == LibInv /\ [LibNext]_libVars => LibInv'
<1> SUFFICES ASSUME LibInv, [LibNext]_libVars PROVE LibInv'
  OBVIOUS
<1> USE DEF LibInv
<1>1. KInv'
  BY LibNextNext, NextKInv DEF libVars, LifeInv
<1>2. CASE UNCHANGED libVars
  BY <1>1, <1>2 DEF libVars, vars, LifeInv, RunsAlone, RunningIsCurrent, NoWorkForZombies,
     CpuRecorded, IdsResolve, ReceiversBlocked, StartingWaits, FreeListInv
<1>3. CASE (EnvCreate \/ BootDone) /\ UNCHANGED starting
  BY <1>1, <1>3, CreateLifeInv, MovesLifeInv
<1>4. ASSUME NEW c \in Cpus, UNCHANGED starting, KernelStep(c) PROVE LibInv'
  BY <1>1, <1>4, MovesLifeInv, RunsLifeInv, HaltLifeInv, ResumeLifeInv, ReapsLifeInv
     DEF KernelStep, Sched
<1>5. ASSUME NEW c \in Cpus, UNCHANGED starting, Acquire(c) \/ Timer(c) \/ Fault(c) PROVE LibInv'
  BY <1>1, <1>5, MovesLifeInv, ReapsLifeInv
<1>6. ASSUME NEW c \in Cpus, UNCHANGED starting, Stopped(c) PROVE LibInv'
  BY <1>2, <1>6 DEF Stopped, libVars
<1>7. ASSUME NEW c \in Cpus, LibCall(c) PROVE LibInv'
  BY <1>1, <1>7, ForkBeginLifeInv, ForkEndLifeInv, KillLifeInv, IpcRecvLifeInv,
     IpcSendLifeInv, SetPriorityLifeInv, MovesLifeInv DEF LibCall
<1> QED
  BY <1>2, <1>3, <1>4, <1>5, <1>6, <1>7 DEF LibNext

\* Under library programs LibInv always holds.
THEOREM LibInvariant == LibSpec => []LibInv
<1>1. LibInit => LibInv
  BY InitKInv, InitLifeInv DEF LibInit, LibInv
<1> QED
  BY <1>1, NextLibInv, PTL DEF LibSpec

\* No environment is ever on two CPUs (sched_yield() and env_run()).
THEOREM NeverOnTwoCpus == LibSpec => []RunsAlone
<1>1. LibInv => RunsAlone
  BY DEF LibInv, LifeInv
<1> QED
  BY <1>1, LibInvariant, PTL

\* What is RUNNING or DYING is on a CPU, and what is on a CPU is one of them
\* (env_run(), env_destroy(), trap()).
THEOREM StatusMeansCpu == LibSpec => []RunningIsCurrent
<1>1. LibInv => RunningIsCurrent
  BY DEF LibInv, LifeInv
<1> QED
  BY <1>1, LibInvariant, PTL

\* No slot of envs[] is lost or handed out twice (env_alloc(), env_free()).
THEOREM FreeListExact == LibSpec => []FreeListInv
<1>1. LibInv => FreeListInv
  BY DEF LibInv, LifeInv
<1> QED
  BY <1>1, LibInvariant, PTL

\* The table of environments, its free list, its ids and what runs agree
\* (env_alloc(), env_run(), env_free(), sys_exofork()).
THEOREM SlotsAreRight == LibSpec => []SlotsRight
<1>1. LibInv => SlotsRight
  BY DEF LibInv, KInv, LifeInv, SlotsRight, LibTypeOK
<1> QED
  BY <1>1, LibInvariant, PTL

\* A message can only find a receiver that is blocked (sys_ipc_recv(),
\* sys_ipc_try_send(), env_alloc()).
THEOREM ReceiversAreBlocked == LibSpec => []ReceiversBlocked
<1>1. LibInv => ReceiversBlocked
  BY DEF LibInv, LifeInv
<1> QED
  BY <1>1, LibInvariant, PTL

\* Only a live environment is worked for (trap(), env_run()).
THEOREM ZombiesGetNoWork == LibSpec => []NoWorkForZombies
<1>1. LibInv => NoWorkForZombies
  BY DEF LibInv, LifeInv
<1> QED
  BY <1>1, LibInvariant, PTL

\* env_cpunum is right wherever it is read, although env_run() writes it
\* without the lock.
THEOREM CpuNumbersRight == LibSpec => []CpuRecorded
<1>1. LibInv => CpuRecorded
  BY DEF LibInv, LifeInv
<1> QED
  BY <1>1, LibInvariant, PTL

\* However often the generations wrap, an id names its slot and is never the
\* 0 that means the caller (env_alloc(), envid2env()).
THEOREM IdsNameSlots == LibSpec => []IdsResolve
<1>1. LibInv => IdsResolve
  BY DEF LibInv, LifeInv
<1> QED
  BY <1>1, LibInvariant, PTL

\* A child that fork() is still building is neither runnable nor receiving
\* (sys_exofork(), env_alloc()).  Its parent may be destroyed meanwhile: then
\* the child stays like that.
THEOREM ChildrenWait == LibSpec => []StartingWaits
<1>1. LibInv => StartingWaits
  BY DEF LibInv, LifeInv
<1> QED
  BY <1>1, LibInvariant, PTL

-----------------------------------------------------------------------------
(* The kernel survives as long as the last slot of envs[] is not used.  It *)
(* is at the end of the free list, and env_alloc() takes from the front.   *)

LastSlotFree == /\ Len(env_free_list) > 0
                /\ env_free_list[Len(env_free_list)] = NENV - 1

Survives == KernelSurvives /\ LastSlotFree /\ \A c \in Cpus : pc[c] # "relock"

\* What LibInv says about a CPU that is about to do something.
LEMMA LastSlotUnused ==
    ASSUME LibInv, LastSlotFree
    PROVE  /\ env_status[NENV - 1] = "FREE" /\ NENV - 1 \in Envs
           /\ \A c \in Cpus : ~Overruns(c)
           /\ \A e \in Envs : env_status[e] # "FREE" => env_pgdir[e]
<1> USE DEF LibInv, LifeInv, KInv
<1>1. NENV - 1 \in Envs /\ env_free_list \in Seq(Envs)
  BY DEF Envs, TypeOK
<1>2. env_status[NENV - 1] = "FREE"
  BY <1>1 DEF LastSlotFree, FreeListInv
<1>3. ASSUME NEW c \in Cpus, Overruns(c) PROVE FALSE
  <2>1. curenv[c] = NENV - 1 /\ curenv[c] # NoEnv
    BY <1>1, <1>3, Constants DEF Overruns
  <2> QED
    BY <1>2, <2>1 DEF RunningIsCurrent
<1>4. \A e \in Envs : env_status[e] # "FREE" => env_pgdir[e]
  BY DEF FreeListInv
<1> QED
  BY <1>1, <1>2, <1>3, <1>4

\* env_alloc() with fewer than NENV - 1 slots in use leaves the last one.
LEMMA AllocKeepsLast ==
    ASSUME LibInv, LastSlotFree, Cardinality(Live) < NENV - 1,
           NEW e \in Envs, NEW p, NEW st, EnvAlloc(e, p, st)
    PROVE  LastSlotFree'
<1> DEFINE s == env_free_list
<1>1. s \in Seq(Envs) /\ Len(s) \in Nat \ {0} /\ s # <<>> /\ s' = Tail(s) /\ s[Len(s)] = NENV - 1
  BY DEF LibInv, KInv, TypeOK, EnvAlloc, LastSlotFree
<1>2. Len(s) # 1
  <2> SUFFICES ASSUME Len(s) = 1 PROVE FALSE
    OBVIOUS
  <2>1. \A f \in Envs : env_status[f] = "FREE" <=> f = NENV - 1
    BY <1>1 DEF LibInv, LifeInv, FreeListInv
  <2>2. Live = 0 .. NENV - 2
    BY <2>1 DEF Live, Envs
  <2>3. Cardinality(0 .. NENV - 2) = IF 0 > NENV - 2 THEN 0 ELSE NENV - 2 - 0 + 1
    <3>1. 0 \in Int /\ NENV - 2 \in Int
      OBVIOUS
    <3> QED
      BY ONLY <3>1, FS_Interval
  <2> QED
    BY <2>2, <2>3
<1>3. Len(Tail(s)) = Len(s) - 1 /\ \A i \in 1 .. Len(Tail(s)) : Tail(s)[i] = s[i + 1]
  BY <1>1
<1>4. Len(s) - 1 > 0 /\ Len(s) - 1 \in 1 .. Len(s) - 1
  <2>1. PICK l \in Nat \ {0, 1} : l = Len(s)
    BY <1>1, <1>2
  <2>2. l - 1 > 0 /\ l - 1 \in 1 .. l - 1
    BY ONLY l \in Nat \ {0, 1}
  <2> QED
    BY <2>1, <2>2
<1>5. Tail(s)[Len(s) - 1] = NENV - 1
  BY <1>1, <1>3, <1>4
<1> HIDE DEF s
<1> QED
  BY <1>1, <1>3, <1>4, <1>5 DEF LastSlotFree, s

\* env_free() puts a slot in front of the others.
LEMMA FreeKeepsLast ==
    ASSUME LibInv, LastSlotFree, NEW e \in Envs, env_free_list' = <<e>> \o env_free_list
    PROVE  LastSlotFree'
<1> DEFINE s == env_free_list
           t == <<e>> \o s
<1>1. s \in Seq(Envs) /\ Len(s) \in Nat \ {0} /\ s[Len(s)] = NENV - 1
  BY DEF LibInv, KInv, TypeOK, LastSlotFree
<1>2. Len(t) = Len(s) + 1 /\ \A i \in 1 .. Len(s) : t[i + 1] = s[i]
  BY <1>1
<1>3. env_free_list' = t
  OBVIOUS
<1> HIDE DEF t
<1> QED
  BY <1>1, <1>2, <1>3 DEF LastSlotFree

Fine == Pcs \ {"panic", "scanning", "dead", "relock"}

\* A step after which a CPU is anywhere but in trouble.
LEMMA MoveSurvives ==
    ASSUME LibInv, Survives, NEW c \in Cpus, NEW l \in Fine, Goto(c, l), LastSlotFree'
    PROVE  Survives'
BY DEF Survives, KernelSurvives, Fine, Goto, LibInv, KInv, TypeOK

LEMMA EnvRunSurvives ==
    ASSUME LibInv, Survives, NEW c \in Cpus, pc[c] \in InKernel, NEW e \in Envs,
           env_status[e] # "FREE", EnvRun(c, e), env_free_list' = env_free_list
    PROVE  Survives'
<1>1. env_pgdir[e] /\ lock = c
  BY LastSlotUnused DEF Survives, LibInv, KInv, KernelLockInv
<1>2. Goto(c, "leave") /\ LastSlotFree'
  BY <1>1 DEF EnvRun, Unlock, Survives, LastSlotFree
<1>3. "leave" \in Fine
  BY DEF Fine, Pcs
<1> QED
  BY <1>2, <1>3, MoveSurvives

LEMMA EnvFreeSurvives ==
    ASSUME LibInv, Survives, NEW c \in Cpus, NEW e \in Envs, env_status[e] # "FREE", EnvFree(c, e)
    PROVE  Survives'
<1>1. env_pgdir[e]
  BY LastSlotUnused DEF Survives
<1>2. env_free_list' = <<e>> \o env_free_list /\ (Goto(c, "yield") \/ Goto(c, "ret"))
  BY <1>1 DEF EnvFree
<1>3. LastSlotFree'
  BY <1>2, FreeKeepsLast DEF Survives
<1>4. {"yield", "ret"} \subseteq Fine
  BY DEF Fine, Pcs, InKernel
<1> QED
  BY <1>2, <1>3, <1>4, MoveSurvives

LEMMA EnvDestroySurvives ==
    ASSUME LibInv, Survives, NEW c \in Cpus, NEW e \in Envs, env_status[e] # "FREE", EnvDestroy(c, e)
    PROVE  Survives'
<1>1. CASE env_status[e] = "RUNNING" /\ curenv[c] # e
  <2>1. Goto(c, "ret") /\ LastSlotFree'
    BY <1>1 DEF EnvDestroy, Survives, LastSlotFree
  <2>2. "ret" \in Fine
    BY DEF Fine, Pcs, InKernel
  <2> QED
    BY <2>1, <2>2, MoveSurvives
<1>2. CASE ~(env_status[e] = "RUNNING" /\ curenv[c] # e)
  BY <1>2, EnvFreeSurvives DEF EnvDestroy
<1> QED
  BY <1>1, <1>2

\* Traps and the scheduler.
LEMMA KernelStepSurvives ==
    ASSUME LibInv, Survives, NEW c \in Cpus,
           KernelStep(c) \/ Acquire(c) \/ Stopped(c) \/ Timer(c) \/ Fault(c)
    PROVE  Survives'
<1> USE DEF Goto
<1>1. /\ LastSlotFree /\ {"mp_main", "kspin", "uspin", "yield", "trap", "halted", "monitor", "user"} \subseteq Fine
      /\ (env_free_list' = env_free_list => LastSlotFree')
  BY DEF Survives, LastSlotFree, Fine, Pcs, InKernel
<1>2. ~Panicked /\ pc[c] \notin {"panic", "scanning", "dead", "relock"} /\ ~Overruns(c)
  BY <1>1, LastSlotUnused DEF Survives, KernelSurvives, Panicked
<1>3. pc[c] = "trap" => curenv[c] \in Envs /\ env_status[curenv[c]] # "FREE" /\ lock = c
  BY DispatchCurrent DEF LibInv, LifeInv, NoWorkForZombies
<1>4. CASE BootAp(c) \/ MpMain(c)
  BY <1>1, <1>4, MoveSurvives DEF BootAp, MpMain, allocVars
<1>5. CASE TrapUser(c)
  <2>1. cpu_status[c] # "HALTED"
    BY <1>5 DEF TrapUser, LibInv, KInv, HaltedInv
  <2> QED
    BY <1>1, <1>2, <1>5, <2>1, MoveSurvives DEF TrapUser, allocVars
<1>6. CASE TrapHalted(c)
  <2>1. cpu_status[c] = "HALTED"
    BY <1>6 DEF TrapHalted, LibInv, KInv, HaltedInv
  <2> QED
    BY <1>1, <1>2, <1>6, <2>1, MoveSurvives DEF TrapHalted, allocVars
<1>7. CASE Reap(c)
  BY <1>3, <1>7, EnvFreeSurvives DEF Reap
<1>8. CASE TrapReturn(c)
  <2>1. CASE curenv[c] # NoEnv /\ env_status[curenv[c]] = "RUNNING"
    <3>1. curenv[c] \in Envs /\ pc[c] \in InKernel /\ EnvRun(c, curenv[c]) /\ env_free_list' = env_free_list
      BY <1>8, <2>1 DEF TrapReturn, InKernel, allocVars, LibInv, KInv, TypeOK
    <3> QED
      BY <2>1, <3>1, EnvRunSurvives
  <2>2. CASE ~(curenv[c] # NoEnv /\ env_status[curenv[c]] = "RUNNING")
    BY <1>1, <1>8, <2>2, MoveSurvives DEF TrapReturn, allocVars
  <2> QED
    BY <2>1, <2>2
<1>9. CASE SchedPick(c)
  <2>1. PICK e \in Envs : IsNext(c, e) /\ EnvRun(c, e) /\ pc[c] \in InKernel /\ env_free_list' = env_free_list
    BY <1>9 DEF SchedPick, InKernel, allocVars
  <2>2. env_status[e] # "FREE"
    BY <2>1 DEF IsNext, Eligible
  <2> QED
    BY <2>1, <2>2, EnvRunSurvives
<1>10. CASE SchedKeep(c)
  <2>1. /\ curenv[c] \in Envs /\ env_status[curenv[c]] # "FREE" /\ EnvRun(c, curenv[c])
        /\ pc[c] \in InKernel /\ env_free_list' = env_free_list
    BY <1>10 DEF SchedKeep, NoneFound, Keeps, InKernel, allocVars, LibInv, KInv, TypeOK
  <2> QED
    BY <2>1, EnvRunSurvives
<1>11. CASE SchedHalt(c)
  <2>1. lock = c
    BY <1>11 DEF SchedHalt, NoneFound, LibInv, KInv, KernelLockInv, InKernel
  <2>2. Goto(c, "halted") /\ env_free_list' = env_free_list
    BY <1>11, <2>1 DEF SchedHalt, Unlock, allocVars
  <2> QED
    BY <1>1, <2>2, MoveSurvives
<1>12. CASE SchedMonitor(c)
  BY <1>1, <1>12, MoveSurvives DEF SchedMonitor, allocVars
<1>13. ~SchedScan(c) /\ ~SchedOverrun(c)
  BY <1>2 DEF SchedScan, SchedOverrun
<1>14. CASE Resume(c)
  BY <1>1, <1>14, MoveSurvives DEF Resume, allocVars
<1>15. CASE Acquire(c)
  <2>1. pc[c] = "uspin" => curenv[c] # NoEnv
    BY DEF LibInv, KInv, CurenvInv
  <2>2. Goto(c, "yield") \/ Goto(c, "trap")
    BY <1>2, <1>15, <2>1 DEF Acquire
  <2> QED
    BY <1>1, <1>15, <2>2, MoveSurvives DEF Acquire, allocVars
<1>16. CASE Stopped(c)
  BY <1>16 DEF Stopped, vars, Survives, KernelSurvives, LastSlotFree
<1>17. CASE Timer(c)
  BY <1>1, <1>17, MoveSurvives DEF Timer, allocVars
<1>18. CASE Fault(c)
  <2>1. pc[c] = "trap" /\ EnvDestroy(c, curenv[c])
    BY <1>18 DEF Fault, Dispatch
  <2> QED
    BY <1>3, <2>1, EnvDestroySurvives
<1> QED
  BY <1>4, <1>5, <1>6, <1>7, <1>8, <1>9, <1>10, <1>11, <1>12, <1>13, <1>14, <1>15, <1>16, <1>17, <1>18
     DEF KernelStep, Sched

\* System calls.
LEMMA LibCallSurvives ==
    ASSUME LibInv, Survives, MaxLive < NENV, NEW c \in Cpus, LibCall(c)
    PROVE  Survives'
<1> USE DEF Goto
<1>1. /\ LastSlotFree /\ "ret" \in Fine /\ "yield" \in Fine
      /\ (env_free_list' = env_free_list => LastSlotFree')
  BY DEF Survives, LastSlotFree, Fine, Pcs, InKernel
<1>2. CASE ForkBegin(c)
  <2>1. PICK e \in Envs : EnvAlloc(e, env_id[curenv[c]], "NOT_RUNNABLE") /\ Goto(c, "ret")
    BY <1>2 DEF ForkBegin, SysExofork
  <2>2. Cardinality(Live) < NENV - 1
    <3>1. IsFiniteSet(Live)
      <4>1. Live \in SUBSET (0 .. NENV - 1) /\ IsFiniteSet(0 .. NENV - 1)
        BY FS_Interval DEF Live, Envs
      <4> QED
        BY <4>1, FS_Subset
    <3>2. Cardinality(Live) \in Nat /\ Cardinality(Live) < MaxLive
      BY <1>2, <3>1, FS_CardinalityType DEF ForkBegin
    <3> QED
      BY <3>2
  <2>3. LastSlotFree'
    BY <1>1, <2>1, <2>2, AllocKeepsLast
  <2> QED
    BY <1>1, <2>1, <2>3, MoveSurvives
<1>3. CASE ForkEnd(c)
  BY <1>1, <1>3, MoveSurvives DEF ForkEnd, SysEnvSetStatus, allocVars
<1>4. CASE Kill(c)
  <2>1. PICK id \in EnvIds : SysEnvDestroy(c, id)
    BY <1>4 DEF Kill
  <2> DEFINE e == Envid2Env(c, id, TRUE)
  <2>2. e # NoEnv /\ EnvDestroy(c, e) /\ pc[c] = "trap"
    BY <2>1 DEF SysEnvDestroy, Dispatch
  <2>3. e \in Envs
    BY <2>2, Envid2EnvType DEF LibInv
  <2>4. env_status[e] # "FREE"
    BY <2>2, DispatchCurrent DEF Envid2Env, LibInv, LifeInv, NoWorkForZombies
  <2> HIDE DEF e
  <2> QED
    BY <2>2, <2>3, <2>4, EnvDestroySurvives
<1>5. CASE IpcRecv(c)
  BY <1>1, <1>5, MoveSurvives DEF IpcRecv, SysIpcRecv, allocVars
<1>6. CASE IpcSend(c)
  BY <1>1, <1>6, MoveSurvives DEF IpcSend, SysIpcTrySend, allocVars
<1>7. CASE SetPriority(c)
  BY <1>1, <1>7, MoveSurvives DEF SetPriority, SysEnvSetPriority, allocVars
<1>8. CASE SysOther(c)
  BY <1>1, <1>8, MoveSurvives DEF SysOther, allocVars
<1> QED
  BY <1>2, <1>3, <1>4, <1>5, <1>6, <1>7, <1>8 DEF LibCall

\* If programs leave one slot of envs[] alone, the kernel neither panics nor
\* scans for ever: the scheduler never starts past the end of envs[], nobody
\* unlocks what it has not locked, and no page directory is missing.
THEOREM KernelKeepsRunning ==
    ASSUME MaxLive < NENV, NInit < NENV
    PROVE  LibSpec => []KernelSurvives
<1>1. LibInit => Survives
  <2> SUFFICES ASSUME LibInit PROVE Survives
    OBVIOUS
  <2>1. env_free_list = [i \in 1 .. NENV |-> i - 1] /\ Len(env_free_list) = NENV
    BY DEF LibInit, Init
  <2> QED
    BY <2>1 DEF LibInit, Init, Survives, KernelSurvives, LastSlotFree
<1>2. ASSUME LibInv, Survives, [LibNext]_libVars PROVE Survives'
  <2>1. CASE UNCHANGED libVars
    BY <1>2, <2>1 DEF libVars, vars, Survives, KernelSurvives, LastSlotFree
  <2>2. CASE EnvCreate
    <3>1. PICK e \in Envs : EnvAlloc(e, ZeroId, "RUNNABLE") /\ pc' = pc
      BY <2>2 DEF EnvCreate, cpuVars
    <3>2. Cardinality(Live) < NENV - 1
      <4>1. Live \in SUBSET (0 .. NENV - 1) /\ IsFiniteSet(0 .. NENV - 1)
        BY FS_Interval DEF Live, Envs
      <4>2. Cardinality(Live) \in Nat /\ Cardinality(Live) < NInit
        BY <2>2, <4>1, FS_Subset, FS_CardinalityType DEF EnvCreate
      <4> QED
        BY <4>2
    <3>3. LastSlotFree'
      BY <1>2, <3>1, <3>2, AllocKeepsLast DEF Survives
    <3> QED
      BY <1>2, <3>1, <3>3 DEF Survives, KernelSurvives
  <2>3. CASE BootDone
    <3>1. Goto(bootcpu, "yield") /\ env_free_list' = env_free_list /\ "yield" \in Fine /\ bootcpu \in Cpus
      BY <2>3, Constants DEF BootDone, allocVars, Fine, Pcs, InKernel
    <3>2. LastSlotFree'
      BY <1>2, <3>1 DEF Survives, LastSlotFree
    <3> QED
      BY <1>2, <3>1, <3>2, MoveSurvives
  <2> QED
    BY <1>2, <2>1, <2>2, <2>3, KernelStepSurvives, LibCallSurvives DEF LibNext
<1>3. Survives => KernelSurvives
  BY DEF Survives
<1> QED
  BY <1>1, <1>2, <1>3, LibInvariant, PTL DEF LibSpec

-----------------------------------------------------------------------------
(* Library programs: the life of one environment.                          *)

\* What the mapping makes of each status.
LEMMA LifeValues ==
    ASSUME TypeOK, NEW e \in Envs
    PROVE  /\ env_status[e] = "FREE" => life[e] = "free"
           /\ env_status[e] = "DYING" => life[e] = "zombie"
           /\ env_status[e] = "RUNNABLE" => life[e] = "ready"
           /\ env_status[e] = "RUNNING" => life[e] = "running"
           /\ env_status[e] = "NOT_RUNNABLE" /\ env_ipc_recving[e] => life[e] = "blocked"
           /\ env_status[e] = "NOT_RUNNABLE" /\ ~env_ipc_recving[e] => life[e] = "starting"
BY DEF TypeOK, life, Lives, Statuses

LEMMA LifeValuesPrime ==
    ASSUME TypeOK', NEW e \in Envs
    PROVE  /\ env_status'[e] = "FREE" => life'[e] = "free"
           /\ env_status'[e] = "DYING" => life'[e] = "zombie"
           /\ env_status'[e] = "RUNNABLE" => life'[e] = "ready"
           /\ env_status'[e] = "RUNNING" => life'[e] = "running"
           /\ env_status'[e] = "NOT_RUNNABLE" /\ env_ipc_recving'[e] => life'[e] = "blocked"
           /\ env_status'[e] = "NOT_RUNNABLE" /\ ~env_ipc_recving'[e] => life'[e] = "starting"
BY DEF TypeOK, life, Lives, Statuses

\* A step that leaves every other environment alone is a step of one life.
LEMMA OneLife ==
    ASSUME TypeOK, TypeOK', NEW e \in Envs, NEW l, life'[e] = l,
           \A f \in Envs \ {e} : env_status'[f] = env_status[f],
           \A f \in Envs \ {e} : env_ipc_recving'[f] = env_ipc_recving[f]
    PROVE  life' = [life EXCEPT ![e] = l]
<1>1. ASSUME NEW f \in Envs \ {e} PROVE life'[f] = life[f]
  BY <1>1 DEF life
<1>2. life' = [f \in Envs |-> life'[f]] /\ life = [f \in Envs |-> life[f]]
  BY DEF life
<1> QED
  BY <1>1, <1>2

\* The CPUs run what they ran if no current environment starts or stops.
LEMMA SameOn ==
    ASSUME KInv, curenv' = curenv,
           \A c \in Cpus : curenv[c] # NoEnv =>
              (env_status'[curenv[c]] \in {"RUNNING", "DYING"}
                  <=> env_status[curenv[c]] \in {"RUNNING", "DYING"})
    PROVE  on' = on
BY DEF on

\* Nothing happens to an environment that no step touches.
LEMMA SameLife ==
    ASSUME UNCHANGED <<curenv, env_status, env_ipc_recving>> PROVE UNCHANGED <<life, on>>
BY DEF life, on

\* A CPU that has dispatched a trap runs its environment.
LEMMA DispatchOn ==
    ASSUME KInv, LifeInv, NEW c \in Cpus, Dispatch(c)
    PROVE  /\ on[c] = curenv[c] /\ curenv[c] \in Envs /\ Life!Runs(c)
           /\ env_status[curenv[c]] = "RUNNING"
<1>1. curenv[c] \in Envs /\ env_status[curenv[c]] = "RUNNING"
  BY DispatchRuns DEF Dispatch
<1>2. on[c] = curenv[c] /\ on[c] # NoEnv /\ life[on[c]] = "running"
  BY <1>1, Constants, LifeValues DEF on, KInv
<1> QED
  BY <1>1, <1>2 DEF Life!Runs

-----------------------------------------------------------------------------
\* env_run(): the environment runs, or goes on running.
LEMMA EnvRunLives ==
    ASSUME KInv, LifeInv, KInv', NEW c \in Cpus, pc[c] \in {"yield", "ret"}, NEW e \in Envs,
           \/ env_status[e] = "RUNNABLE"
           \/ e = curenv[c] /\ env_status[e] = "RUNNING",
           EnvRun(c, e), env_ipc_recving' = env_ipc_recving
    PROVE  Life!Run(c, e) \/ UNCHANGED <<life, on>>
<1> USE Constants
<1>1. /\ lock = c
      /\ curenv' = [curenv EXCEPT ![c] = e]
      /\ env_status' = Switched(c, e)
  BY DEF EnvRun, KInv, KernelLockInv, InKernel
<1>2. CASE env_status[e] = "RUNNING"
  <2>1. curenv' = curenv
    BY <1>1, <1>2 DEF KInv, TypeOK
  <2>2. env_status' = env_status
    BY <1>1, <1>2 DEF Switched, KInv, TypeOK
  <2> QED
    BY <2>1, <2>2, SameLife
<1>3. CASE env_status[e] = "RUNNABLE"
  <2>1. curenv[c] # NoEnv =>
           curenv[c] \in Envs /\ env_status[curenv[c]] \in {"RUNNABLE", "RUNNING", "NOT_RUNNABLE"}
    BY <1>1 DEF LifeInv, NoWorkForZombies, RunningIsCurrent, KInv, TypeOK
  <2>2. on[c] = IF curenv[c] # NoEnv /\ env_status[curenv[c]] = "RUNNING" THEN curenv[c]
                ELSE NoEnv
    BY <2>1 DEF on
  <2>3. on[c] # NoEnv => on[c] \in Envs /\ life[on[c]] = "running"
    BY <2>1, <2>2, LifeValues DEF KInv
  <2>4. life' = [f \in Envs |-> IF f = e THEN "running"
                                ELSE IF f = on[c] THEN "ready" ELSE life[f]]
    <3>1. life'[e] = "running"
      <4>1. env_status'[e] = "RUNNING"
        BY <1>1 DEF Switched
      <4> QED
        BY <4>1, LifeValuesPrime DEF KInv
    <3>2. ASSUME NEW f \in Envs \ {e}, f = on[c] PROVE life'[f] = "ready"
      <4>1. env_status'[f] = "RUNNABLE"
        BY <1>1, <2>2, <3>2 DEF Switched
      <4> QED
        BY <4>1, LifeValuesPrime DEF KInv
    <3>3. ASSUME NEW f \in Envs \ {e}, f # on[c] PROVE life'[f] = life[f]
      <4>1. env_status'[f] = env_status[f]
        BY <1>1, <2>2, <3>3 DEF Switched
      <4> QED
        BY <4>1 DEF life
    <3>4. life' = [f \in Envs |-> life'[f]]
      BY DEF life
    <3> QED
      BY <3>1, <3>2, <3>3, <3>4
  <2>5. on' = [on EXCEPT ![c] = e]
    <3>1. ASSUME NEW d \in Cpus \ {c} PROVE on'[d] = on[d]
      <4>1. curenv'[d] = curenv[d]
        BY <1>1 DEF KInv, TypeOK
      <4>2. CASE curenv[d] = NoEnv
        BY <4>1, <4>2 DEF on
      <4>3. CASE curenv[d] # NoEnv
        <5>1. /\ curenv[d] \in Envs /\ env_status[curenv[d]] \in {"RUNNING", "DYING"}
              /\ curenv[d] # e /\ curenv[d] # curenv[c]
          BY <1>1, <1>3, <4>3, OthersRun DEF LifeInv, RunsAlone
        <5>2. env_status'[curenv[d]] = env_status[curenv[d]]
          BY <1>1, <5>1 DEF Switched
        <5> QED
          BY <4>1, <5>2 DEF on
      <4> QED
        BY <4>2, <4>3
    <3>2. on'[c] = e
      <4>1. curenv'[c] = e /\ env_status'[e] = "RUNNING"
        BY <1>1 DEF Switched, KInv, TypeOK
      <4> QED
        BY <4>1 DEF on
    <3>3. on' = [d \in Cpus |-> on'[d]] /\ on = [d \in Cpus |-> on[d]]
      BY DEF on
    <3> QED
      BY <3>1, <3>2, <3>3
  <2> QED
    BY <1>3, <2>3, <2>4, <2>5, LifeValues DEF Life!Run, Life!Runs, KInv
<1> QED
  BY <1>2, <1>3

\* The steps that end in env_run().
LEMMA RunsLives ==
    ASSUME KInv, LifeInv, KInv', NEW c \in Cpus, SchedPick(c) \/ SchedKeep(c) \/ TrapReturn(c)
    PROVE  (\E e \in Envs : Life!Run(c, e)) \/ UNCHANGED <<life, on>>
<1>1. CASE SchedPick(c)
  <2>1. PICK e \in Envs : IsNext(c, e) /\ EnvRun(c, e)
    BY <1>1 DEF SchedPick
  <2>2. env_status[e] = "RUNNABLE"
    BY <2>1 DEF IsNext, Eligible
  <2> QED
    BY <1>1, <2>1, <2>2, EnvRunLives DEF SchedPick
<1>2. CASE SchedKeep(c)
  <2>1. curenv[c] \in Envs /\ env_status[curenv[c]] = "RUNNING" /\ EnvRun(c, curenv[c])
    BY <1>2 DEF SchedKeep, Keeps, KInv, TypeOK
  <2> QED
    BY <1>2, <2>1, EnvRunLives DEF SchedKeep, NoneFound
<1>3. CASE TrapReturn(c)
  <2>1. CASE curenv[c] # NoEnv /\ env_status[curenv[c]] = "RUNNING"
    <3>1. curenv[c] \in Envs /\ EnvRun(c, curenv[c])
      BY <1>3, <2>1 DEF TrapReturn, KInv, TypeOK
    <3> QED
      BY <1>3, <2>1, <3>1, EnvRunLives DEF TrapReturn
  <2>2. CASE ~(curenv[c] # NoEnv /\ env_status[curenv[c]] = "RUNNING")
    BY <1>3, <2>2, SameLife DEF TrapReturn
  <2> QED
    BY <2>1, <2>2
<1> QED
  BY <1>1, <1>2, <1>3

\* The steps that touch no environment's life.
LEMMA MovesLives ==
    ASSUME KInv, LifeInv,
           \/ BootDone
           \/ \E c \in Cpus : \/ BootAp(c) \/ MpMain(c) \/ TrapUser(c) \/ TrapHalted(c)
                              \/ Acquire(c) \/ Timer(c) \/ SysOther(c) \/ Resume(c)
                              \/ SchedMonitor(c) \/ SchedScan(c) \/ SchedOverrun(c)
                              \/ Stopped(c) \/ SetPriority(c)
    PROVE  UNCHANGED <<life, on>>
<1>1. UNCHANGED <<curenv, env_status, env_ipc_recving>>
  BY DEF BootDone, BootAp, MpMain, TrapUser, TrapHalted, Acquire, Timer, SysOther, Resume,
         SchedMonitor, SchedScan, SchedOverrun, Stopped, SetPriority, SysEnvSetPriority, vars
<1> QED
  BY <1>1, SameLife

\* sched_halt(): the environment the CPU gives up is blocked, not running.
LEMMA HaltLives ==
    ASSUME KInv, LifeInv, NEW c \in Cpus, SchedHalt(c) PROVE UNCHANGED <<life, on>>
<1> USE Constants
<1>1. /\ pc[c] = "yield"
      /\ curenv' = [curenv EXCEPT ![c] = NoEnv]
      /\ UNCHANGED <<env_status, env_ipc_recving>>
  BY DEF SchedHalt, NoneFound
<1>2. curenv[c] # NoEnv => env_status[curenv[c]] \notin {"RUNNING", "DYING"}
  BY <1>1 DEF SchedHalt, Keeps, LifeInv, CpuRecorded, NoWorkForZombies
<1>3. ASSUME NEW d \in Cpus PROVE on'[d] = on[d]
  BY <1>1, <1>2 DEF on, KInv, TypeOK
<1>4. on' = [d \in Cpus |-> on'[d]] /\ on = [d \in Cpus |-> on[d]]
  BY DEF on
<1>5. life' = life
  BY <1>1 DEF life
<1> QED
  BY <1>3, <1>4, <1>5

\* The CPU's own environment stops running there: it blocks or is freed.
LEMMA GivesUp ==
    ASSUME KInv, LifeInv, KInv', NEW c \in Cpus, pc[c] = "trap", NEW l,
           life'[curenv[c]] = l, env_status'[curenv[c]] \notin {"RUNNING", "DYING"},
           curenv'[c] \in {curenv[c], NoEnv},
           \A d \in Cpus \ {c} : curenv'[d] = curenv[d],
           \A f \in Envs \ {curenv[c]} : env_status'[f] = env_status[f],
           \A f \in Envs \ {curenv[c]} : env_ipc_recving'[f] = env_ipc_recving[f]
    PROVE  /\ on[c] = curenv[c] /\ on[c] # NoEnv
           /\ Life!Becomes(on[c], l) /\ on' = [on EXCEPT ![c] = NoEnv]
<1> USE Constants
<1>1. /\ curenv[c] \in Envs /\ env_status[curenv[c]] \in {"RUNNING", "DYING"}
      /\ \A d \in Cpus \ {c} : curenv[d] # curenv[c]
  BY DispatchRuns
<1>2. on[c] = curenv[c]
  BY <1>1 DEF on
<1>3. life' = [life EXCEPT ![curenv[c]] = l]
  BY <1>1, OneLife, ZenonT(40) DEF KInv
<1>4. ASSUME NEW d \in Cpus \ {c} PROVE on'[d] = on[d]
  <2>1. curenv[d] # NoEnv => curenv[d] \in Envs \ {curenv[c]}
    BY <1>1 DEF KInv, TypeOK
  <2> QED
    BY <2>1, ZenonT(40) DEF on
<1>5. on'[c] = NoEnv
  BY DEF on
<1>6. on' = [d \in Cpus |-> on'[d]] /\ on = [d \in Cpus |-> on[d]]
  BY DEF on
<1> QED
  BY <1>1, <1>2, <1>3, <1>4, <1>5, <1>6 DEF Life!Becomes

\* env_free() of the CPU's own environment: a zombie, a fault, or an exit.
LEMMA ExitLives ==
    ASSUME KInv, LifeInv, KInv', NEW c \in Cpus, pc[c] = "trap", EnvFree(c, curenv[c]),
           env_ipc_recving' = env_ipc_recving
    PROVE  Life!Exit(c)
<1> DEFINE e == curenv[c]
<1>1. e \in Envs /\ env_status[e] # "FREE"
  BY DispatchRuns
<1>2. /\ env_status' = [env_status EXCEPT ![e] = "FREE"]
      /\ curenv' = [curenv EXCEPT ![c] = NoEnv]
  BY <1>1, FreeKeepsList DEF KInv, LifeInv
<1>3. env_status'[e] = "FREE" /\ \A f \in Envs \ {e} : env_status'[f] = env_status[f]
  BY <1>1, <1>2 DEF KInv, TypeOK
<1>4. life'[e] = "free"
  BY <1>1, <1>3, LifeValuesPrime DEF KInv
<1>5. curenv'[c] = NoEnv /\ \A d \in Cpus \ {c} : curenv'[d] = curenv[d]
  BY <1>2 DEF KInv, TypeOK
<1>6. \A f \in Envs \ {e} : env_ipc_recving'[f] = env_ipc_recving[f]
  OBVIOUS
<1>7. on[c] # NoEnv /\ Life!Becomes(on[c], "free") /\ on' = [on EXCEPT ![c] = NoEnv]
  BY <1>3, <1>4, <1>5, <1>6, GivesUp
<1> QED
  BY <1>7 DEF Life!Exit

-----------------------------------------------------------------------------
\* An environment changes while every CPU keeps the one it has.
LEMMA OneChanges ==
    ASSUME KInv, KInv', NEW e \in Envs, NEW l, life'[e] = l, curenv' = curenv,
           env_status'[e] \in {"RUNNING", "DYING"} <=> env_status[e] \in {"RUNNING", "DYING"},
           \A f \in Envs \ {e} : env_status'[f] = env_status[f],
           \A f \in Envs \ {e} : env_ipc_recving'[f] = env_ipc_recving[f]
    PROVE  Life!Becomes(e, l) /\ on' = on
<1>1. life' = [life EXCEPT ![e] = l]
  BY OneLife DEF KInv
<1>2. \A c \in Cpus : curenv[c] # NoEnv =>
         (env_status'[curenv[c]] \in {"RUNNING", "DYING"}
             <=> env_status[curenv[c]] \in {"RUNNING", "DYING"})
  BY DEF KInv, TypeOK
<1> QED
  BY <1>1, <1>2, SameOn DEF Life!Becomes

\* env_alloc(): a free slot comes to life.
LEMMA AllocLives ==
    ASSUME KInv, LifeInv, KInv', NEW e \in Envs, NEW p \in EnvIds,
           NEW st \in {"RUNNABLE", "NOT_RUNNABLE"}, EnvAlloc(e, p, st), curenv' = curenv
    PROVE  /\ life[e] = "free" /\ on' = on
           /\ Life!Becomes(e, IF st = "RUNNABLE" THEN "ready" ELSE "starting")
<1>1. env_status[e] = "FREE" /\ life[e] = "free"
  BY AllocKeepsList, LifeValues DEF KInv, LifeInv, Statuses
<1>2. /\ env_status'[e] = st /\ ~env_ipc_recving'[e]
      /\ \A f \in Envs \ {e} : env_status'[f] = env_status[f]
  BY DEF EnvAlloc, KInv, TypeOK
<1>3. \A f \in Envs \ {e} : env_ipc_recving'[f] = env_ipc_recving[f]
  BY DEF EnvAlloc, KInv, TypeOK
<1>4. life'[e] = IF st = "RUNNABLE" THEN "ready" ELSE "starting"
  BY <1>2, LifeValuesPrime DEF KInv
<1> QED
  BY <1>1, <1>2, <1>3, <1>4, OneChanges

LEMMA CreateLives ==
    ASSUME KInv, LifeInv, KInv', EnvCreate PROVE \E e \in Envs : Life!Create(e)
<1>1. PICK e \in Envs : EnvAlloc(e, ZeroId, "RUNNABLE")
  BY DEF EnvCreate
<1>2. curenv' = curenv /\ ZeroId \in EnvIds
  BY Constants DEF EnvCreate, cpuVars
<1>3. life[e] = "free" /\ on' = on /\ Life!Becomes(e, "ready")
  BY <1>1, <1>2, AllocLives
<1> QED
  BY <1>3 DEF Life!Create

LEMMA ForkBeginLives ==
    ASSUME KInv, LifeInv, KInv', NEW c \in Cpus, ForkBegin(c)
    PROVE  \E e \in Envs : Life!Fork(c, e)
<1>1. PICK e \in Envs : EnvAlloc(e, env_id[curenv[c]], "NOT_RUNNABLE")
  BY DEF ForkBegin, SysExofork
<1>2. Dispatch(c) /\ curenv' = curenv
  BY DEF ForkBegin, SysExofork
<1>3. Life!Runs(c) /\ env_id[curenv[c]] \in EnvIds
  BY <1>2, DispatchOn DEF KInv, TypeOK
<1>4. life[e] = "free" /\ on' = on /\ Life!Becomes(e, "starting")
  BY <1>1, <1>2, <1>3, AllocLives
<1> QED
  BY <1>3, <1>4 DEF Life!Fork

LEMMA ForkEndLives ==
    ASSUME KInv, LifeInv, KInv', NEW c \in Cpus, ForkEnd(c)
    PROVE  \E e \in Envs : Life!Start(c, e)
<1>1. PICK e \in starting : SysEnvSetStatus(c, env_id[e], "RUNNABLE")
  BY DEF ForkEnd
<1>2. /\ e \in Envs /\ env_status[e] = "NOT_RUNNABLE" /\ ~env_ipc_recving[e]
      /\ env_id[e][1] = e /\ env_id[e][2] \in 1 .. GenMax
  BY <1>1 DEF LifeInv, StartingWaits, IdsResolve
<1>3. Envid2Env(c, env_id[e], TRUE) \in {e, NoEnv}
  BY <1>2 DEF Envid2Env, ZeroId
<1>4. /\ Dispatch(c) /\ env_status' = [env_status EXCEPT ![e] = "RUNNABLE"]
      /\ UNCHANGED <<curenv, env_ipc_recving>>
  BY <1>1, <1>3 DEF SysEnvSetStatus
<1>5. env_status'[e] = "RUNNABLE" /\ \A f \in Envs \ {e} : env_status'[f] = env_status[f]
  BY <1>2, <1>4 DEF KInv, TypeOK
<1>6. life[e] = "starting" /\ life'[e] = "ready"
  BY <1>2, <1>5, LifeValues, LifeValuesPrime DEF KInv
<1>7. Life!Becomes(e, "ready") /\ on' = on
  BY <1>2, <1>4, <1>5, <1>6, OneChanges
<1> QED
  BY <1>2, <1>4, <1>6, <1>7, DispatchOn DEF Life!Start

LEMMA KillLives ==
    ASSUME KInv, LifeInv, KInv', NEW c \in Cpus, Kill(c)
    PROVE  Life!Exit(c) \/ \E e \in Envs : Life!Kill(c, e) \/ Life!Remove(c, e)
<1>1. PICK id \in EnvIds : /\ SysEnvDestroy(c, id)
                           /\ env_status[Envid2Env(c, id, TRUE)] # "DYING"
  BY DEF Kill
<1> DEFINE e == Envid2Env(c, id, TRUE)
<1>2. Dispatch(c) /\ e # NoEnv /\ EnvDestroy(c, e) /\ env_ipc_recving' = env_ipc_recving
  BY <1>1 DEF SysEnvDestroy
<1>3. e \in Envs /\ env_status[e] \notin {"FREE", "DYING"}
  BY <1>1, <1>2, Envid2EnvLive
<1> HIDE DEF e
<1>4. Life!Runs(c) /\ on[c] = curenv[c] /\ curenv[c] \in Envs /\ pc[c] = "trap"
  BY <1>2, DispatchOn DEF Dispatch
<1>5. \A f \in Envs \ {e} : env_ipc_recving'[f] = env_ipc_recving[f]
  BY <1>2
<1>6. CASE e = curenv[c]
  BY <1>2, <1>4, <1>6, ExitLives DEF EnvDestroy
<1>7. CASE e # curenv[c] /\ env_status[e] = "RUNNING"
  <2>1. env_status' = [env_status EXCEPT ![e] = "DYING"] /\ curenv' = curenv
    BY <1>2, <1>7 DEF EnvDestroy
  <2>2. env_status'[e] = "DYING" /\ \A f \in Envs \ {e} : env_status'[f] = env_status[f]
    BY <1>3, <2>1 DEF KInv, TypeOK
  <2>3. life[e] = "running" /\ life'[e] = "zombie"
    BY <1>3, <1>7, <2>2, LifeValues, LifeValuesPrime DEF KInv
  <2>4. Life!Becomes(e, "zombie") /\ on' = on
    BY <1>3, <1>5, <1>7, <2>1, <2>2, <2>3, OneChanges
  <2> QED
    BY <1>3, <1>4, <1>7, <2>3, <2>4 DEF Life!Kill
<1>8. CASE e # curenv[c] /\ env_status[e] # "RUNNING"
  <2>1. env_status' = [env_status EXCEPT ![e] = "FREE"] /\ curenv' = curenv
    BY <1>2, <1>3, <1>8, FreeKeepsList DEF EnvDestroy, KInv, LifeInv
  <2>2. env_status'[e] = "FREE" /\ \A f \in Envs \ {e} : env_status'[f] = env_status[f]
    BY <1>3, <2>1 DEF KInv, TypeOK
  <2>3. env_status[e] \in {"RUNNABLE", "NOT_RUNNABLE"}
    BY <1>3, <1>8 DEF KInv, TypeOK, Statuses
  <2>4. life[e] \in {"starting", "ready", "blocked"} /\ life'[e] = "free"
    BY <1>3, <2>2, <2>3, LifeValues, LifeValuesPrime DEF KInv
  <2>5. Life!Becomes(e, "free") /\ on' = on
    BY <1>3, <1>5, <2>1, <2>2, <2>3, <2>4, OneChanges
  <2> QED
    BY <1>3, <1>4, <2>4, <2>5 DEF Life!Remove
<1> QED
  BY <1>6, <1>7, <1>8

LEMMA IpcRecvLives ==
    ASSUME KInv, LifeInv, KInv', NEW c \in Cpus, IpcRecv(c) PROVE Life!Block(c)
<1> DEFINE e == curenv[c]
<1>1. /\ Dispatch(c) /\ curenv' = curenv
      /\ env_ipc_recving' = [env_ipc_recving EXCEPT ![e] = TRUE]
      /\ env_status' = [env_status EXCEPT ![e] = "NOT_RUNNABLE"]
  BY DEF IpcRecv, SysIpcRecv
<1>2. e \in Envs /\ Life!Runs(c) /\ pc[c] = "trap"
  BY <1>1, DispatchOn DEF Dispatch
<1>3. /\ env_status'[e] = "NOT_RUNNABLE" /\ env_ipc_recving'[e]
      /\ \A f \in Envs \ {e} : env_status'[f] = env_status[f]
  BY <1>1, <1>2 DEF KInv, TypeOK
<1>4. \A f \in Envs \ {e} : env_ipc_recving'[f] = env_ipc_recving[f]
  BY <1>1, <1>2 DEF KInv, TypeOK
<1>5. life'[e] = "blocked"
  BY <1>2, <1>3, LifeValuesPrime DEF KInv
<1>6. Life!Becomes(on[c], "blocked") /\ on' = [on EXCEPT ![c] = NoEnv]
  BY <1>1, <1>2, <1>3, <1>4, <1>5, GivesUp
<1> QED
  BY <1>2, <1>6 DEF Life!Block

LEMMA IpcSendLives ==
    ASSUME KInv, LifeInv, KInv', NEW c \in Cpus, IpcSend(c)
    PROVE  \E e \in Envs : Life!Deliver(c, e)
<1>1. PICK id \in EnvIds : SysIpcTrySend(c, id)
  BY DEF IpcSend
<1> DEFINE e == Envid2Env(c, id, FALSE)
<1>2. /\ Dispatch(c) /\ e # NoEnv /\ env_ipc_recving[e] /\ curenv' = curenv
      /\ env_ipc_recving' = [env_ipc_recving EXCEPT ![e] = FALSE]
      /\ env_status' = [env_status EXCEPT ![e] = "RUNNABLE"]
  BY <1>1 DEF SysIpcTrySend
<1>3. e \in Envs /\ env_status[e] # "FREE"
  BY <1>2, Envid2EnvLive
<1> HIDE DEF e
<1>4. env_status[e] = "NOT_RUNNABLE"
  BY <1>2, <1>3 DEF LifeInv, ReceiversBlocked
<1>5. env_status'[e] = "RUNNABLE" /\ \A f \in Envs \ {e} : env_status'[f] = env_status[f]
  BY <1>2, <1>3 DEF KInv, TypeOK
<1>6. \A f \in Envs \ {e} : env_ipc_recving'[f] = env_ipc_recving[f]
  BY <1>2, <1>3 DEF KInv, TypeOK
<1>7. life[e] = "blocked" /\ life'[e] = "ready"
  BY <1>2, <1>3, <1>4, <1>5, LifeValues, LifeValuesPrime DEF KInv
<1>8. Life!Becomes(e, "ready") /\ on' = on
  BY <1>2, <1>3, <1>4, <1>5, <1>6, <1>7, OneChanges
<1> QED
  BY <1>2, <1>3, <1>7, <1>8, DispatchOn DEF Life!Deliver

-----------------------------------------------------------------------------
\* The kernel boots with every slot free and no CPU running anything.
LEMMA InitLives == ASSUME LibInit PROVE Life!Init
<1>1. ASSUME NEW e \in Envs PROVE life[e] = "free"
  BY DEF LibInit, Init, life, Lives
<1>2. ASSUME NEW c \in Cpus PROVE on[c] = NoEnv
  BY DEF LibInit, Init, on
<1>3. life = [e \in Envs |-> life[e]] /\ on = [c \in Cpus |-> on[c]]
  BY DEF life, on
<1> QED
  BY <1>1, <1>2, <1>3 DEF Life!Init

\* Every step is a step of a life, or none.
LEMMA NextLives ==
    ASSUME LibInv, LibInv', [LibNext]_libVars PROVE [Life!Next]_<<life, on>>
<1> USE DEF LibInv
<1>1. CASE UNCHANGED libVars
  BY <1>1, SameLife DEF libVars, vars
<1>2. CASE EnvCreate \/ BootDone
  BY <1>2, CreateLives, MovesLives DEF Life!Next
<1>3. ASSUME NEW c \in Cpus, SchedPick(c) \/ SchedKeep(c) \/ TrapReturn(c)
      PROVE  [Life!Next]_<<life, on>>
  BY <1>3, RunsLives DEF Life!Next
<1>4. ASSUME NEW c \in Cpus, Reap(c) \/ Fault(c) PROVE Life!Next
  <2>1. /\ pc[c] = "trap" /\ EnvFree(c, curenv[c]) /\ env_ipc_recving' = env_ipc_recving
    BY <1>4 DEF Reap, Fault, Dispatch, EnvDestroy
  <2> QED
    BY <2>1, ExitLives DEF Life!Next
<1>5. ASSUME NEW c \in Cpus, KernelStep(c) \/ Acquire(c) \/ Stopped(c) \/ Timer(c) \/ Fault(c)
      PROVE  [Life!Next]_<<life, on>>
  BY <1>3, <1>4, <1>5, MovesLives, HaltLives DEF KernelStep, Sched
<1>6. ASSUME NEW c \in Cpus, LibCall(c) PROVE [Life!Next]_<<life, on>>
  <2>1. CASE ForkBegin(c) \/ ForkEnd(c)
    BY <2>1, ForkBeginLives, ForkEndLives DEF Life!Next
  <2>2. CASE Kill(c)
    BY <2>2, KillLives DEF Life!Next
  <2>3. CASE IpcRecv(c) \/ IpcSend(c)
    BY <2>3, IpcRecvLives, IpcSendLives DEF Life!Next
  <2>4. CASE SetPriority(c) \/ SysOther(c)
    BY <2>4, MovesLives
  <2> QED
    BY <1>6, <2>1, <2>2, <2>3, <2>4 DEF LibCall
<1> QED
  BY <1>1, <1>2, <1>5, <1>6 DEF LibNext

\* The kernel implements Environments for every number of CPUs and slots:
\* whatever the traps, the lock and the scheduler do, an environment runs on
\* one CPU, blocks until a message, and is freed once, by its own CPU if it
\* is running (env_run(), env_destroy(), trap(), sys_ipc_*()).
THEOREM KernelImplementsEnvironments == LibSpec => LifeSpec
<1>1. LibInit => Life!Init
  BY InitLives
<1>2. LibInv /\ LibInv' /\ [LibNext]_libVars => [Life!Next]_Life!vars
  BY NextLives DEF Life!vars
<1> QED
  BY <1>1, <1>2, LibInvariant, PTL DEF LibSpec, LifeSpec, Life!Spec

\* An environment that waits for a message waits until it is sent one or
\* freed (sys_ipc_recv(), sys_ipc_try_send(), env_run()).
THEOREM BlockedStayBlocked == LibSpec => BlockedUntilSent
<1>1. ASSUME LibInv, LibInv', [Life!Next]_<<life, on>>, NEW e \in Envs,
             env_status[e] = "NOT_RUNNABLE" /\ env_ipc_recving[e]
      PROVE  \/ env_status'[e] = "NOT_RUNNABLE" /\ env_ipc_recving'[e]
             \/ env_status'[e] = "RUNNABLE" /\ ~env_ipc_recving'[e]
             \/ env_status'[e] = "FREE"
  <2>1. life[e] = "blocked"
    BY <1>1, LifeValues DEF LibInv, KInv
  <2>2. life \in [Envs -> {life[f] : f \in Envs}]
    BY DEF life
  <2>3. life'[e] \in {"blocked", "ready", "free"}
    BY <1>1, <2>1, <2>2 DEF Life!Next, Life!Create, Life!Fork, Life!Start, Life!Run, Life!Runs,
       Life!Block, Life!Deliver, Life!Kill, Life!Remove, Life!Exit, Life!Becomes
  <2>4. env_status'[e] \in Statuses
    BY <1>1 DEF LibInv, KInv, TypeOK
  <2> QED
    BY <1>1, <2>3, <2>4, LifeValuesPrime DEF LibInv, KInv, LifeInv, ReceiversBlocked, Statuses
<1>2. LibInv /\ LibInv' /\ [LibNext]_libVars =>
         [\A e \in Envs : env_status[e] = "NOT_RUNNABLE" /\ env_ipc_recving[e] =>
             \/ env_status'[e] = "NOT_RUNNABLE" /\ env_ipc_recving'[e]
             \/ env_status'[e] = "RUNNABLE" /\ ~env_ipc_recving'[e]
             \/ env_status'[e] = "FREE"]_libVars
  BY <1>1, NextLives
<1> QED
  BY <1>2, LibInvariant, PTL DEF LibSpec, BlockedUntilSent
=============================================================================
