----------------------------- MODULE KernelLib -----------------------------
(***************************************************************************)
(* The kernel of module Kernel under programs that use it through the user *)
(* library (lib/fork.c, lib/ipc.c, lib/exit.c) the way user/*.c do:        *)
(*   - sys_env_set_status() is called once per child, by fork(), to start  *)
(*     it;                                                                 *)
(*   - sys_ipc_recv() gets an address the kernel accepts;                  *)
(*   - a page that is sent is mapped (no SendPanics);                      *)
(*   - page-fault handlers do not nest until the exception stack is full   *)
(*     (no StackOverflow);                                                 *)
(*   - a program kills itself or a child, and a child only once;           *)
(* and the first programs fit in memory (no EnvCreatePanics).  Whom a      *)
(* message goes to, priorities, other faults and timer interrupts stay     *)
(* unrestricted.                                                           *)
(***************************************************************************)
EXTENDS Kernel

CONSTANTS MaxLive,   \* environments that programs have at once
          Forking    \* whether they fork at all

ASSUME LibAssumption == MaxLive \in 0 .. NENV /\ Forking \in BOOLEAN

VARIABLE starting    \* children between sys_exofork() and the end of fork()

libVars == <<vars, starting>>

LibInit == Init /\ starting = {}

-----------------------------------------------------------------------------
\* fork(): the child exists, its memory is being copied.
ForkBegin(c) == /\ Forking
                /\ Cardinality(Live) < MaxLive
                /\ SysExofork(c)
                /\ starting' = starting \cup {Head(env_free_list)}

\* fork(): sys_env_set_status(child, ENV_RUNNABLE), its last system call.
ForkEnd(c) == \E e \in starting : /\ SysEnvSetStatus(c, env_id[e], "RUNNABLE")
                                  /\ starting' = starting \ {e}

\* exit(), and killing a child that is not being killed already.
Kill(c) == \E id \in EnvIds : /\ SysEnvDestroy(c, id)
                              /\ env_status[Envid2Env(c, id, TRUE)] # "DYING"
                              /\ starting' = starting \ {Envid2Env(c, id, TRUE)}

IpcRecv(c) == SysIpcRecv(c, TRUE) /\ UNCHANGED starting

IpcSend(c) == (\E id \in EnvIds : SysIpcTrySend(c, id)) /\ UNCHANGED starting

SetPriority(c) == /\ \E id \in EnvIds, p \in Prios : SysEnvSetPriority(c, id, p)
                  /\ UNCHANGED starting

LibCall(c) == \/ ForkBegin(c) \/ ForkEnd(c) \/ Kill(c) \/ IpcRecv(c) \/ IpcSend(c)
              \/ SetPriority(c)
              \/ SysOther(c) /\ UNCHANGED starting

LibNext ==
    \/ (EnvCreate \/ BootDone) /\ UNCHANGED starting
    \/ \E c \in Cpus :
          \/ (KernelStep(c) \/ Acquire(c) \/ Stopped(c) \/ Timer(c) \/ Fault(c))
                /\ UNCHANGED starting
          \/ LibCall(c)

LibSpec == LibInit /\ [][LibNext]_libVars

\* A started CPU executes its instructions and is interrupted by its timer for
\* ever; of the CPUs that spin for the lock, one gets it (Spinlock's
\* SomeoneGetsIn), not necessarily a given one.
Fairness == /\ WF_libVars((EnvCreate \/ BootDone) /\ UNCHANGED starting)
            /\ WF_libVars(\E c \in Cpus : Acquire(c) /\ UNCHANGED starting)
            /\ \A c \in Cpus : /\ WF_libVars(KernelStep(c) /\ UNCHANGED starting)
                               /\ SF_libVars(Timer(c) /\ UNCHANGED starting)

LibFairSpec == LibSpec /\ Fairness

-----------------------------------------------------------------------------
(* What all this amounts to for an environment (module Environments).      *)

Lives == [FREE |-> "free", DYING |-> "zombie", RUNNABLE |-> "ready", RUNNING |-> "running"]

life == [e \in Envs |-> IF env_status[e] = "NOT_RUNNABLE"
                        THEN IF env_ipc_recving[e] THEN "blocked" ELSE "starting"
                        ELSE Lives[env_status[e]]]

on == [c \in Cpus |-> IF curenv[c] # NoEnv /\ env_status[curenv[c]] \in {"RUNNING", "DYING"}
                      THEN curenv[c] ELSE NoEnv]

Life == INSTANCE Environments

-----------------------------------------------------------------------------
\* The children that fork() is still building are known slots.
LibTypeOK == TypeOK /\ starting \subseteq Envs

\* No environment runs on two CPUs at once: a CPU's current environment is
\* current nowhere else (sched_yield(): "never choose an environment that's
\* currently running on another CPU").
RunsAlone == \A c, d \in Cpus : curenv[c] = curenv[d] /\ curenv[c] # NoEnv => c = d

\* The environment of a CPU is running there or was killed from elsewhere, or
\* has this instant begun to wait for a message; and every environment that
\* is RUNNING or DYING is on a CPU, so that a zombie has someone to free it.
RunningIsCurrent ==
    /\ \A c \in Cpus : curenv[c] # NoEnv =>
          \/ env_status[curenv[c]] \in {"RUNNING", "DYING"}
          \/ lock = c /\ env_status[curenv[c]] = "NOT_RUNNABLE" /\ env_ipc_recving[curenv[c]]
    /\ \A e \in Envs : env_status[e] \in {"RUNNING", "DYING"} =>
          \E c \in Cpus : curenv[c] = e

\* The kernel never works for a killed environment: a CPU's environment is
\* alive, or has been killed but not yet been seen to be by trap(); a CPU
\* that comes from the boot or from a halt has none.
NoWorkForZombies == \A c \in Cpus :
    /\ pc[c] \in {"leave", "user", "uspin", "trap"} =>
          env_status[curenv[c]] \in {"RUNNING", "DYING"}
    /\ pc[c] = "ret" /\ curenv[c] # NoEnv => env_status[curenv[c]] = "RUNNING"
    /\ pc[c] = "yield" /\ curenv[c] # NoEnv => env_status[curenv[c]] # "DYING"
    /\ pc[c] \in {"boot", "off", "mp_main", "kspin", "halted"} => curenv[c] = NoEnv

\* The id of an environment names its slot and is not 0, which envid2env()
\* takes for the caller, however often the generations wrap.
IdsResolve == \A e \in Envs :
    env_status[e] # "FREE" => env_id[e][1] = e /\ env_id[e][2] \in 1 .. GenMax

\* env_free_list holds exactly the free slots, each once, and exactly they
\* have no page directory: no slot is lost or handed out twice, however
\* environments are created, killed and reaped by different CPUs.
FreeListInv ==
    /\ \A i, j \in 1 .. Len(env_free_list) :
          env_free_list[i] = env_free_list[j] => i = j
    /\ \A e \in Envs : /\ env_status[e] = "FREE" <=>
                             \E i \in 1 .. Len(env_free_list) : env_free_list[i] = e
                       /\ env_status[e] = "FREE" <=> ~env_pgdir[e]

\* Once env_run() has returned to user mode, env_cpunum names the CPU that
\* runs the environment although it is written after the unlock: the test
\* env_cpunum == cpunum() in sched_yield() never turns away a CPU's own
\* environment.
CpuRecorded == \A c \in Cpus :
    pc[c] \in {"user", "uspin", "trap", "ret", "yield"} /\ curenv[c] # NoEnv
        => env_cpunum[curenv[c]] = c

\* The lock, the traps and the scheduler never make the kernel panic, nor scan
\* past envs[] for ever with the lock held: nobody locks twice or unlocks
\* without the lock, no CPU traps without an environment or switches to one
\* that has no page directory, and with a slot to spare the last one is never
\* handed out, so that no scan starts past the end.  The panics that a program
\* can ask for are those the list above leaves out (trap, env_run, env_free,
\* sched_yield).
KernelSurvives == \A c \in Cpus : pc[c] \notin {"panic", "scanning", "dead"}

\* Only an environment that is blocked in sys_ipc_recv() has its receiving
\* flag up, whatever occupied its slot before.
ReceiversBlocked == \A e \in Envs :
    env_ipc_recving[e] => env_status[e] \in {"NOT_RUNNABLE", "FREE"}

\* While fork() is copying memory into the child, the child is neither
\* runnable nor receiving: nobody but its parent can start it.
StartingWaits == \A e \in starting :
    env_status[e] = "NOT_RUNNABLE" /\ ~env_ipc_recving[e]

\* The table of environments is in order: what its slots are used for, whom the
\* ids name, what the free list holds, and which slots are running or waiting
\* to be started agree, whichever CPU allocated, killed or reaped them.
SlotsRight == /\ LibTypeOK /\ RunningIsCurrent
              /\ FreeListInv /\ IdsResolve /\ StartingWaits

\* An environment blocked in sys_ipc_recv() stays blocked until one message
\* is delivered to it or it is destroyed: env_run() of the next environment
\* and the priority boost do not wake it.
BlockedUntilSent ==
    [][\A e \in Envs : env_status[e] = "NOT_RUNNABLE" /\ env_ipc_recving[e] =>
          \/ env_status'[e] = "NOT_RUNNABLE" /\ env_ipc_recving'[e]
          \/ env_status'[e] = "RUNNABLE" /\ ~env_ipc_recving'[e]
          \/ env_status'[e] = "FREE"]_libVars

\* Whatever the lock, the traps and the scheduler do, an environment lives as
\* module Environments says.
LifeSpec == Life!Spec

\* A runnable environment is run, killed or freed: no starvation.
RunnableRuns == \A e \in Envs :
    env_status[e] = "RUNNABLE" ~> env_status[e] # "RUNNABLE"

\* boot_aps() sees every AP come up, and i386_init() gets to the scheduler.
BootEnds == <>(pc[bootcpu] # "boot")
=============================================================================
