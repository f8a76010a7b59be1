------------------------------- MODULE Kernel -------------------------------
(***************************************************************************)
(* Environments, traps and the scheduler of the JOS kernel (kern/env.c,    *)
(* kern/sched.c, kern/trap.c, kern/syscall.c, kern/init.c) on several CPUs *)
(* sharing the big kernel lock.                                            *)
(*                                                                         *)
(* A CPU that holds the lock runs one handler of the kernel per action;    *)
(* everything else a CPU does without the lock (trapping, spinning, the    *)
(* end of env_run) is an action of its own.  The lock itself is atomic     *)
(* here: Spinlock implements it.  User programs are unconstrained: any     *)
(* environment may issue any system call with any argument.  KernelLib     *)
(* restricts them to what the user library does.                           *)
(***************************************************************************)
EXTENDS Integers, Sequences, FiniteSets

CONSTANTS NENV,          \* slots of envs[]
          NCPU,          \* CPUs found by mp_init()
          NInit,         \* environments i386_init() creates
          GenMax,        \* generations of an env_id before it wraps
          MIN_PRIORITY,  \* 0x100 in kern/sched.c
          BoostPeriod,   \* 10 in kern/sched.c
          Prios,         \* the arguments of sys_env_set_priority()
          Scheduler      \* which scheduler the kernel is built with

ASSUME SizeAssumption == /\ NENV \in Nat \ {0} /\ NCPU \in Nat \ {0}
                         /\ NInit \in 1..NENV /\ GenMax \in Nat \ {0}
ASSUME SchedAssumption == /\ MIN_PRIORITY \in Nat \ {0} /\ BoostPeriod \in Nat \ {0}
                          /\ Prios \subseteq Int
                          /\ Scheduler \in {"ROUND_ROBIN", "PRIORITIES"}

Envs == 0 .. NENV - 1           \* indices into envs[]
Cpus == 0 .. NCPU - 1           \* indices into cpus[]
bootcpu == 0
NoEnv == -1                     \* a null struct Env *
NoCpu == -1                     \* nobody holds the lock
EnvIds == Envs \X (0 .. GenMax) \* an envid_t: index and generation
ZeroId == <<0, 0>>              \* envid 0, "the current environment"

Statuses == {"FREE", "DYING", "RUNNABLE", "RUNNING", "NOT_RUNNABLE"}
CpuStatuses == {"UNUSED", "STARTED", "HALTED"}

VARIABLES
    lock,            \* the CPU inside the kernel, or NoCpu
    cpu_status,      \* struct CpuInfo
    curenv,          \* thiscpu->cpu_env
    pc,              \* where each CPU is
    env_status, env_id, env_parent_id, env_cpunum, env_priority, env_ipc_recving,
    env_pgdir,       \* whether e->env_pgdir is non-null
    env_free_list,   \* the env_link chain, first free slot first
    switches         \* stats.number_of_switches modulo BoostPeriod

cpuVars == <<lock, cpu_status, curenv, pc>>
allocVars == <<env_id, env_parent_id, env_pgdir, env_free_list>>
schedVars == <<env_priority, switches>>
vars == <<lock, cpu_status, curenv, pc, env_status, env_id, env_parent_id, env_cpunum,
          env_priority, env_ipc_recving, env_pgdir, env_free_list, switches>>

(* Where a CPU may be.  With the lock: "boot" (i386_init), "trap" (about to *)
(* dispatch a trap of its environment), "ret" (the end of trap()), "yield"  *)
(* (sched_yield), "scanning" (a sched_yield that never ends), "monitor" and *)
(* "panic".  Without: "off", "mp_main", "kspin" (lock_kernel from mp_main   *)
(* or from a halted CPU's trap), "uspin" (lock_kernel from a user trap),    *)
(* "relock" (the first of two lock_kernel calls), "leave" (env_run past     *)
(* unlock_kernel), "user", "halted", "dead" (hlt because another panicked). *)
InKernel == {"boot", "trap", "ret", "yield", "scanning", "monitor", "panic"}
Pcs == InKernel \cup {"off", "mp_main", "kspin", "uspin", "relock", "leave",
                      "user", "halted", "dead"}

Goto(c, l) == pc' = [pc EXCEPT ![c] = l]

-----------------------------------------------------------------------------
(* kern/init.c, kern/env.c: boot.                                          *)

\* i386_init() once it holds the lock: env_init() has put every slot on the
\* free list in order, the APs are off.
Init == /\ lock = bootcpu
        /\ cpu_status = [c \in Cpus |-> IF c = bootcpu THEN "STARTED" ELSE "UNUSED"]
        /\ curenv = [c \in Cpus |-> NoEnv]
        /\ pc = [c \in Cpus |-> IF c = bootcpu THEN "boot" ELSE "off"]
        /\ env_status = [e \in Envs |-> "FREE"]
        /\ env_id = [e \in Envs |-> ZeroId]
        /\ env_parent_id = [e \in Envs |-> ZeroId]
        /\ env_cpunum = [e \in Envs |-> 0]
        /\ env_priority = [e \in Envs |-> 0]
        /\ env_ipc_recving = [e \in Envs |-> FALSE]
        /\ env_pgdir = [e \in Envs |-> FALSE]
        /\ env_free_list = [i \in 1..NENV |-> i - 1]
        /\ switches = 0

\* The AP boot_aps() is waiting for, the last it has started, is up.
StartedAp == /\ pc[bootcpu] = "boot"
             /\ \A c \in Cpus \ {bootcpu} :
                   /\ pc[c] # "off"
                   /\ \A d \in Cpus \ {bootcpu} : pc[d] # "off" => d <= c
                   => cpu_status[c] = "STARTED"

\* boot_aps(): lapic_startap() of the next CPU.
BootAp(c) == /\ StartedAp
             /\ pc[c] = "off"
             /\ \A d \in Cpus : d < c => pc[d] # "off"
             /\ Goto(c, "mp_main")
             /\ UNCHANGED <<lock, cpu_status, curenv, env_status, allocVars,
                            schedVars, env_cpunum, env_ipc_recving>>

\* Mutant of MpMain: lock_kernel() before telling boot_aps().
MpMainLocksFirst(c) == /\ pc[c] = "mp_main" /\ lock = NoCpu
                       /\ lock' = c
                       /\ cpu_status' = [cpu_status EXCEPT ![c] = "STARTED"]
                       /\ Goto(c, "yield")
                       /\ UNCHANGED <<curenv, env_status, allocVars,
                                      schedVars, env_cpunum, env_ipc_recving>>

\* mp_main(): tell boot_aps() we are up, then wait for the kernel.
MpMain(c) == /\ pc[c] = "mp_main"
             /\ cpu_status' = [cpu_status EXCEPT ![c] = "STARTED"]
             /\ Goto(c, "kspin")
             /\ UNCHANGED <<lock, curenv, env_status, allocVars,
                            schedVars, env_cpunum, env_ipc_recving>>

\* Mutant of NextId: no test for a generation that has run out.
NextIdUnchecked(e) == <<e, env_id[e][2] + 1>>

\* The id of the environment about to occupy slot e.
NextId(e) == <<e, IF env_id[e][2] < GenMax THEN env_id[e][2] + 1 ELSE 1>>

\* env_alloc() of the first free slot.  env_setup_vm() may run out of memory:
\* the callers decide whether to call this.
EnvAlloc(e, parent, status) ==
    /\ env_free_list # <<>>
    /\ e = Head(env_free_list)
    /\ env_free_list' = Tail(env_free_list)
    /\ env_pgdir' = [env_pgdir EXCEPT ![e] = TRUE]
    /\ env_id' = [env_id EXCEPT ![e] = NextId(e)]
    /\ env_parent_id' = [env_parent_id EXCEPT ![e] = parent]
    /\ env_status' = [env_status EXCEPT ![e] = status]
    /\ env_priority' = [env_priority EXCEPT ![e] = 0]
    /\ env_ipc_recving' = [env_ipc_recving EXCEPT ![e] = FALSE]

Live == {e \in Envs : env_status[e] # "FREE"}

\* ENV_CREATE in i386_init(), once every AP is up.
EnvCreate == /\ StartedAp /\ \A c \in Cpus : pc[c] # "off"
             /\ Cardinality(Live) < NInit
             /\ \E e \in Envs : EnvAlloc(e, ZeroId, "RUNNABLE")
             /\ UNCHANGED <<cpuVars, env_cpunum, switches>>

\* env_create() with no memory for the program, or no slot.
EnvCreatePanics == /\ StartedAp /\ \A c \in Cpus : pc[c] # "off"
                   /\ Cardinality(Live) < NInit
                   /\ Goto(bootcpu, "panic")
                   /\ UNCHANGED <<lock, cpu_status, curenv, env_status, allocVars,
                                  schedVars, env_cpunum, env_ipc_recving>>

\* The end of i386_init().
BootDone == /\ StartedAp /\ \A c \in Cpus : pc[c] # "off"
            /\ Cardinality(Live) = NInit
            /\ Goto(bootcpu, "yield")
            /\ UNCHANGED <<lock, cpu_status, curenv, env_status, allocVars,
                           schedVars, env_cpunum, env_ipc_recving>>

-----------------------------------------------------------------------------
(* kern/env.c, kern/trap.c: running, destroying, trapping.                 *)

\* unlock_kernel(): spin_unlock() panics when this CPU is not the holder.
Unlock(c, l) == IF lock = c THEN lock' = NoCpu /\ Goto(c, l)
                            ELSE UNCHANGED lock /\ Goto(c, "panic")

\* Mutant of Switched: step 3 of env_run(), ENV_RUNNING, is forgotten.
SwitchedUnmarked(c, e) ==
    [f \in Envs |-> IF f # e /\ f = curenv[c] /\ env_status[f] = "RUNNING" THEN "RUNNABLE"
                    ELSE env_status[f]]

\* The statuses env_run() leaves: the current environment steps down, e runs.
Switched(c, e) ==
    [f \in Envs |-> IF f = e THEN "RUNNING"
                    ELSE IF f = curenv[c] /\ env_status[f] = "RUNNING" THEN "RUNNABLE"
                    ELSE env_status[f]]

\* Mutant of EnvRun: step 2, curenv = e, is forgotten.
EnvRunForgets(c, e) == /\ UNCHANGED curenv
                       /\ env_status' = Switched(c, e)
                       /\ IF env_pgdir[e] THEN Unlock(c, "leave")
                                          ELSE UNCHANGED lock /\ Goto(c, "panic")

\* env_run() up to unlock_kernel().  PADDR(NULL) in env_load_pgdir() panics.
EnvRun(c, e) == /\ curenv' = [curenv EXCEPT ![c] = e]
                /\ env_status' = Switched(c, e)
                /\ IF env_pgdir[e] THEN Unlock(c, "leave")
                                   ELSE UNCHANGED lock /\ Goto(c, "panic")

\* Mutant of Resume: the CPU is not recorded.
ResumeUnrecorded(c) == /\ pc[c] = "leave"
                       /\ Goto(c, "user")
                       /\ UNCHANGED <<lock, cpu_status, curenv, env_status, allocVars,
                                      schedVars, env_cpunum, env_ipc_recving>>

\* The rest of env_run(), after the unlock: record the CPU, context_switch().
Resume(c) == /\ pc[c] = "leave"
             /\ env_cpunum' = [env_cpunum EXCEPT ![curenv[c]] = c]
             /\ Goto(c, "user")
             /\ UNCHANGED <<lock, cpu_status, curenv, env_status, allocVars,
                            schedVars, env_ipc_recving>>

\* env_free(): the slot goes to the head of the free list.  If it was this
\* CPU's environment, env_destroy() and trap() go on with curenv = NULL and
\* sched_yield().  Without a page directory the kernel follows a null pointer.
EnvFree(c, e) ==
    IF env_pgdir[e]
    THEN /\ env_status' = [env_status EXCEPT ![e] = "FREE"]
         /\ env_pgdir' = [env_pgdir EXCEPT ![e] = FALSE]
         /\ env_free_list' = <<e>> \o env_free_list
         /\ IF curenv[c] = e
            THEN curenv' = [curenv EXCEPT ![c] = NoEnv] /\ Goto(c, "yield")
            ELSE UNCHANGED curenv /\ Goto(c, "ret")
    ELSE /\ UNCHANGED <<env_status, env_pgdir, env_free_list, curenv>>
         /\ Goto(c, "panic")

\* Mutant of EnvDestroy: no zombies.
EnvDestroyFrees(c, e) == EnvFree(c, e)

\* env_destroy(), called while handling a trap: an environment that runs on
\* another CPU becomes a zombie, any other is freed.
EnvDestroy(c, e) ==
    IF env_status[e] = "RUNNING" /\ curenv[c] # e
    THEN /\ env_status' = [env_status EXCEPT ![e] = "DYING"]
         /\ Goto(c, "ret")
         /\ UNCHANGED <<curenv, env_pgdir, env_free_list>>
    ELSE EnvFree(c, e)

Panicked == \E c \in Cpus : pc[c] = "panic"

\* trap(), entered from user mode: a CPU left HALTED would lock twice.
TrapUser(c) == /\ pc[c] = "user"
               /\ IF Panicked THEN Goto(c, "dead") /\ UNCHANGED cpu_status
                  ELSE /\ cpu_status' = [cpu_status EXCEPT ![c] = "STARTED"]
                       /\ Goto(c, IF cpu_status[c] = "HALTED" THEN "relock" ELSE "uspin")
               /\ UNCHANGED <<lock, curenv, env_status, allocVars, schedVars,
                              env_cpunum, env_ipc_recving>>

\* Mutant of TrapHalted: cpu_status is read, not exchanged.
TrapHaltedReads(c) == /\ pc[c] = "halted"
                      /\ Goto(c, IF Panicked THEN "dead"
                                 ELSE IF cpu_status[c] = "HALTED" THEN "kspin" ELSE "yield")
                      /\ UNCHANGED <<lock, cpu_status, curenv, env_status, allocVars,
                                     schedVars, env_cpunum, env_ipc_recving>>

\* trap(), entered from sched_halt() by the timer: only a HALTED CPU locks.
TrapHalted(c) == /\ pc[c] = "halted"
                 /\ IF Panicked THEN Goto(c, "dead") /\ UNCHANGED cpu_status
                    ELSE /\ cpu_status' = [cpu_status EXCEPT ![c] = "STARTED"]
                         /\ Goto(c, IF cpu_status[c] = "HALTED" THEN "kspin" ELSE "yield")
                 /\ UNCHANGED <<lock, curenv, env_status, allocVars, schedVars,
                                env_cpunum, env_ipc_recving>>

\* lock_kernel() returns.  After it a user trap asserts that there is a
\* current environment, and the second of two lock_kernel() calls panics.
Acquire(c) == /\ pc[c] \in {"kspin", "uspin", "relock"}
              /\ lock = NoCpu
              /\ lock' = c
              /\ Goto(c, IF pc[c] = "kspin" THEN "yield"
                         ELSE IF pc[c] = "uspin" /\ curenv[c] # NoEnv THEN "trap"
                         ELSE "panic")
              /\ UNCHANGED <<cpu_status, curenv, env_status, allocVars, schedVars,
                             env_cpunum, env_ipc_recving>>

\* trap(): a zombie is freed by the CPU it was running on.
Reap(c) == /\ pc[c] = "trap"
           /\ env_status[curenv[c]] = "DYING"
           /\ EnvFree(c, curenv[c])
           /\ UNCHANGED <<lock, cpu_status, env_id, env_parent_id, schedVars,
                          env_cpunum, env_ipc_recving>>

\* Mutant of Dispatch: no garbage collection first.
DispatchZombies(c) == pc[c] = "trap"

\* trap_dispatch() has a trap of a current environment that is no zombie.
Dispatch(c) == /\ pc[c] = "trap"
               /\ env_status[curenv[c]] # "DYING"

\* The end of trap(): back to the environment, if that makes sense.
TrapReturn(c) ==
    /\ pc[c] = "ret"
    /\ IF curenv[c] # NoEnv /\ env_status[curenv[c]] = "RUNNING"
       THEN EnvRun(c, curenv[c])
       ELSE Goto(c, "yield") /\ UNCHANGED <<lock, curenv, env_status>>
    /\ UNCHANGED <<cpu_status, allocVars, schedVars, env_cpunum, env_ipc_recving>>

\* IRQ_TIMER, and sys_yield(): both only call sched_yield().
Timer(c) == /\ Dispatch(c)
            /\ Goto(c, "yield")
            /\ UNCHANGED <<lock, cpu_status, curenv, env_status, allocVars,
                           schedVars, env_cpunum, env_ipc_recving>>

\* An exception nobody handles, a page fault without an upcall or without an
\* exception stack, or a pointer that user_mem_assert() does not accept.
Fault(c) == /\ Dispatch(c)
            /\ EnvDestroy(c, curenv[c])
            /\ UNCHANGED <<lock, cpu_status, env_id, env_parent_id, schedVars,
                           env_cpunum, env_ipc_recving>>

\* page_fault_handler(): the frame does not fit on the exception stack.
StackOverflow(c) == /\ Dispatch(c)
                    /\ Goto(c, "panic")
                    /\ UNCHANGED <<lock, cpu_status, curenv, env_status, allocVars,
                                   schedVars, env_cpunum, env_ipc_recving>>

-----------------------------------------------------------------------------
(* kern/syscall.c.                                                         *)

\* envid2env(): the environment, or NoEnv for -E_BAD_ENV.
Envid2Env(c, id, checkperm) ==
    IF id = ZeroId THEN curenv[c]
    ELSE LET e == id[1] IN
         IF \/ env_status[e] = "FREE" \/ env_id[e] # id
            \/ checkperm /\ e # curenv[c] /\ env_parent_id[e] # env_id[curenv[c]]
         THEN NoEnv ELSE e

\* A system call that returns without touching anything of this module: the
\* queries, the console, the memory calls, and every call that fails.  A page
\* fault that enters the upcall, and a breakpoint once the monitor is left, do
\* the same here.
SysOther(c) == /\ Dispatch(c)
               /\ Goto(c, "ret")
               /\ UNCHANGED <<lock, cpu_status, curenv, env_status, allocVars,
                              schedVars, env_cpunum, env_ipc_recving>>

\* The child copies the parent's registers and is not runnable yet.
SysExofork(c) == /\ Dispatch(c)
                 /\ \E e \in Envs : EnvAlloc(e, env_id[curenv[c]], "NOT_RUNNABLE")
                 /\ Goto(c, "ret")
                 /\ UNCHANGED <<lock, cpu_status, curenv, switches, env_cpunum>>

SysEnvDestroy(c, id) ==
    /\ Dispatch(c)
    /\ LET e == Envid2Env(c, id, TRUE) IN e # NoEnv /\ EnvDestroy(c, e)
    /\ UNCHANGED <<lock, cpu_status, env_id, env_parent_id, schedVars,
                   env_cpunum, env_ipc_recving>>

SysEnvSetStatus(c, id, status) ==
    /\ Dispatch(c)
    /\ LET e == Envid2Env(c, id, TRUE) IN
          /\ e # NoEnv
          /\ env_status' = [env_status EXCEPT ![e] = status]
    /\ Goto(c, "ret")
    /\ UNCHANGED <<lock, cpu_status, curenv, allocVars, schedVars,
                   env_cpunum, env_ipc_recving>>

\* The flag is raised before dstva is looked at; valid is whether dstva is a
\* page-aligned address below UTOP.
SysIpcRecv(c, valid) ==
    /\ Dispatch(c)
    /\ env_ipc_recving' = [env_ipc_recving EXCEPT ![curenv[c]] = TRUE]
    /\ IF valid THEN /\ env_status' = [env_status EXCEPT ![curenv[c]] = "NOT_RUNNABLE"]
                     /\ Goto(c, "yield")
                ELSE UNCHANGED env_status /\ Goto(c, "ret")
    /\ UNCHANGED <<lock, cpu_status, curenv, allocVars, schedVars, env_cpunum>>

\* Mutant of SysIpcTrySend: the flag stays up, so that a second send succeeds.
SendKeepsFlag(c, id) ==
    /\ Dispatch(c)
    /\ LET e == Envid2Env(c, id, FALSE) IN
          /\ e # NoEnv
          /\ env_ipc_recving[e]
          /\ env_status' = [env_status EXCEPT ![e] = "RUNNABLE"]
    /\ Goto(c, "ret")
    /\ UNCHANGED <<lock, cpu_status, curenv, allocVars, schedVars, env_cpunum,
                   env_ipc_recving>>

\* A send that succeeds.  One that fails, half-way through a page transfer
\* included, leaves this module's state alone.
SysIpcTrySend(c, id) ==
    /\ Dispatch(c)
    /\ LET e == Envid2Env(c, id, FALSE) IN
          /\ e # NoEnv
          /\ env_ipc_recving[e]
          /\ env_ipc_recving' = [env_ipc_recving EXCEPT ![e] = FALSE]
          /\ env_status' = [env_status EXCEPT ![e] = "RUNNABLE"]
    /\ Goto(c, "ret")
    /\ UNCHANGED <<lock, cpu_status, curenv, allocVars, schedVars, env_cpunum>>

\* A page that is not mapped: page_lookup() has set no srcpte, which the kernel
\* follows.  If what is there can be read, the send fails or goes on.
SendPanics(c, id) ==
    /\ Dispatch(c)
    /\ LET e == Envid2Env(c, id, FALSE) IN e # NoEnv /\ env_ipc_recving[e]
    /\ Goto(c, "panic")
    /\ UNCHANGED <<lock, cpu_status, curenv, env_status, allocVars, schedVars,
                   env_cpunum, env_ipc_recving>>

\* No permission is checked; only an environment naming itself is held to
\* lowering its own priority.
SysEnvSetPriority(c, id, p) ==
    /\ Dispatch(c)
    /\ ~(id \in {ZeroId, env_id[curenv[c]]} /\ p < env_priority[curenv[c]])
    /\ LET e == Envid2Env(c, id, FALSE) IN
          /\ e # NoEnv
          /\ env_priority' = [env_priority EXCEPT ![e] = p]
    /\ Goto(c, "ret")
    /\ UNCHANGED <<lock, cpu_status, curenv, env_status, allocVars, switches,
                   env_cpunum, env_ipc_recving>>

-----------------------------------------------------------------------------
(* kern/sched.c.                                                           *)

ByPriority == Scheduler = "PRIORITIES"

\* Every BoostPeriod switches the priorities start over.
Boosted == [e \in Envs |-> IF ByPriority /\ switches = 0 /\ env_status[e] = "RUNNABLE"
                           THEN 0 ELSE env_priority[e]]

\* The environments the scan accepts.
Eligible == {e \in Envs : /\ env_status[e] = "RUNNABLE"
                          /\ ByPriority => Boosted[e] < MIN_PRIORITY}

\* The scan starts after the current environment.  After the one in the last
\* slot it starts at envs[NENV], past the end, and then wraps to index 1.
Overruns(c) == curenv[c] = NENV - 1

ScanStart(c) == IF curenv[c] = NoEnv THEN 0
                ELSE IF Overruns(c) THEN 1 % NENV ELSE curenv[c] + 1

\* How many slots the scan looks at before e.
ScanDistance(c, e) == (e - ScanStart(c) + NENV) % NENV

\* The scan stops at the first environment it accepts, the priorities
\* scheduler's too (!next in the loop condition).
IsNext(c, e) == /\ e \in Eligible
                /\ \A f \in Eligible : ScanDistance(c, e) <= ScanDistance(c, f)

\* Mutant of Aged: no limit below MIN_PRIORITY.
AgedUnlimited(c) == [e \in Envs |-> IF ByPriority /\ e = curenv[c]
                                    THEN Boosted[e] + 1 ELSE Boosted[e]]

\* The current environment loses a priority level to the next one.
Aged(c) == [e \in Envs |-> IF ByPriority /\ e = curenv[c] /\ Boosted[e] < MIN_PRIORITY - 1
                           THEN Boosted[e] + 1 ELSE Boosted[e]]

\* sched_yield() finds an environment to run.
SchedPick(c) == /\ pc[c] = "yield"
                /\ \E e \in Envs : IsNext(c, e) /\ EnvRun(c, e)
                /\ env_priority' = Aged(c)
                /\ switches' = (switches + 1) % BoostPeriod
                /\ UNCHANGED <<cpu_status, allocVars, env_cpunum, env_ipc_recving>>

\* It finds none and the scan ends.
NoneFound(c) == pc[c] = "yield" /\ Eligible = {} /\ ~Overruns(c)

\* Mutant of Keeps: no test that the environment is still RUNNING.
KeepsAnything(c) == /\ curenv[c] # NoEnv
                    /\ env_cpunum[curenv[c]] = c

\* The environment this CPU may keep running.
Keeps(c) == /\ curenv[c] # NoEnv
            /\ env_status[curenv[c]] = "RUNNING"
            /\ env_cpunum[curenv[c]] = c

SchedKeep(c) == /\ NoneFound(c) /\ Keeps(c)
                /\ EnvRun(c, curenv[c])
                /\ UNCHANGED <<cpu_status, allocVars, schedVars, env_cpunum,
                               env_ipc_recving>>

Busy == \E e \in Envs : env_status[e] \in {"RUNNABLE", "RUNNING", "DYING"}

\* Mutant of SchedHalt: the CPU is not marked HALTED.
SchedHaltUnmarked(c) == /\ NoneFound(c) /\ ~Keeps(c) /\ Busy
                        /\ curenv' = [curenv EXCEPT ![c] = NoEnv]
                        /\ Unlock(c, "halted")
                        /\ UNCHANGED <<cpu_status, env_status, allocVars, schedVars,
                                       env_cpunum, env_ipc_recving>>

\* sched_halt(): wait for the timer with no environment and no lock.
SchedHalt(c) == /\ NoneFound(c) /\ ~Keeps(c) /\ Busy
                /\ curenv' = [curenv EXCEPT ![c] = NoEnv]
                /\ cpu_status' = [cpu_status EXCEPT ![c] = "HALTED"]
                /\ Unlock(c, "halted")
                /\ UNCHANGED <<env_status, allocVars, schedVars, env_cpunum,
                               env_ipc_recving>>

\* sched_halt() with nothing left to do: the monitor, for good.
SchedMonitor(c) == /\ NoneFound(c) /\ ~Keeps(c) /\ ~Busy
                   /\ Goto(c, "monitor")
                   /\ UNCHANGED <<lock, cpu_status, curenv, env_status, allocVars,
                                  schedVars, env_cpunum, env_ipc_recving>>

\* The scan that started past the end never meets its starting index again:
\* finding nothing, it goes round for ever with the lock held.
SchedScan(c) == /\ pc[c] = "yield" /\ Overruns(c) /\ Eligible = {}
                /\ Goto(c, "scanning")
                /\ UNCHANGED <<lock, cpu_status, curenv, env_status, allocVars,
                               schedVars, env_cpunum, env_ipc_recving>>

\* envs[NENV] is whatever the page after the array holds; if it reads as
\* runnable, env_run() gets garbage for a page directory.
SchedOverrun(c) == /\ pc[c] = "yield" /\ Overruns(c)
                   /\ Goto(c, "panic")
                   /\ UNCHANGED <<lock, cpu_status, curenv, env_status, allocVars,
                                  schedVars, env_cpunum, env_ipc_recving>>

\* A CPU that will never do anything else; the others may wait for it.
Stopped(c) == /\ pc[c] \in {"monitor", "scanning", "panic"}
              /\ UNCHANGED vars

-----------------------------------------------------------------------------
(* What a CPU does by itself, and what its user program makes it do.       *)

Sched(c) == \/ SchedPick(c) \/ SchedKeep(c) \/ SchedHalt(c) \/ SchedMonitor(c)
            \/ SchedScan(c) \/ SchedOverrun(c)

KernelStep(c) == \/ BootAp(c) \/ MpMain(c)
                 \/ TrapUser(c) \/ TrapHalted(c) \/ Reap(c)
                 \/ TrapReturn(c) \/ Sched(c) \/ Resume(c)

Syscall(c) ==
    \/ SysOther(c) \/ SysExofork(c)
    \/ \E id \in EnvIds : SysEnvDestroy(c, id)
    \/ \E id \in EnvIds, status \in {"RUNNABLE", "NOT_RUNNABLE"} :
          SysEnvSetStatus(c, id, status)
    \/ \E valid \in BOOLEAN : SysIpcRecv(c, valid)
    \/ \E id \in EnvIds : SysIpcTrySend(c, id) \/ SendPanics(c, id)
    \/ \E id \in EnvIds, p \in Prios : SysEnvSetPriority(c, id, p)

Next == \/ EnvCreate \/ EnvCreatePanics \/ BootDone
        \/ \E c \in Cpus : \/ KernelStep(c) \/ Acquire(c) \/ Stopped(c)
                           \/ Timer(c) \/ Fault(c) \/ StackOverflow(c) \/ Syscall(c)

Spec == Init /\ [][Next]_vars

-----------------------------------------------------------------------------
TypeOK == /\ lock \in Cpus \cup {NoCpu}
          /\ cpu_status \in [Cpus -> CpuStatuses]
          /\ curenv \in [Cpus -> Envs \cup {NoEnv}]
          /\ pc \in [Cpus -> Pcs]
          /\ env_status \in [Envs -> Statuses]
          /\ env_id \in [Envs -> EnvIds]
          /\ env_parent_id \in [Envs -> EnvIds]
          /\ env_cpunum \in [Envs -> Cpus]
          /\ env_priority \in [Envs -> Int]
          /\ env_ipc_recving \in [Envs -> BOOLEAN]
          /\ env_pgdir \in [Envs -> BOOLEAN]
          /\ env_free_list \in Seq(Envs)
          /\ switches \in 0 .. BoostPeriod - 1

\* The big kernel lock: a CPU is in the kernel proper exactly while it holds
\* the lock, through halts, traps from halted CPUs and the hand-over in
\* env_run() (lock_kernel() in trap(), mp_main(), i386_init(); unlock_kernel()
\* in env_run() and sched_halt()).
KernelLockInv == \A c \in Cpus : pc[c] \in InKernel <=> lock = c

\* A CPU whose environment traps has a current environment: assert(curenv) in
\* trap() never fires, and env_run() never follows a null curenv after it has
\* let the lock go.
CurenvInv == \A c \in Cpus :
    pc[c] \in {"leave", "user", "uspin", "trap"} => curenv[c] # NoEnv

\* A CPU is marked HALTED only from sched_halt() to its next trap, which is
\* what lets trap() tell a CPU that must take the lock from one that must not.
HaltedInv == \A c \in Cpus : /\ pc[c] = "halted" => cpu_status[c] = "HALTED"
                             /\ cpu_status[c] = "HALTED" => pc[c] \in {"halted", "dead"}
=============================================================================
