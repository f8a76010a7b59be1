--------------------------------- MODULE Tlb ----------------------------------
(***************************************************************************)
(* The address spaces of PageIpc as the CPUs see them: cr3 of each CPU and *)
(* the entries its TLB has cached.  tlb_invalidate() flushes an entry of   *)
(* the CPU that runs it; a whole TLB is flushed by lcr3(), in env_run()    *)
(* and sched_halt() and before the current environment is freed.           *)
(*                                                                         *)
(* Statuses and the choice of the next environment are in module Kernel;   *)
(* here an environment is started once, blocked when it receives, and a    *)
(* zombie when it is destroyed while another CPU runs it.  Programs do not *)
(* destroy a zombie again, which nothing stops them from doing and which   *)
(* frees the page directory that its CPU uses (env.c:467-472).             *)
(***************************************************************************)
EXTENDS PageIpc

CONSTANT Cpus

VARIABLES
    curenv,    \* of each CPU, or NoEnv
    cr3,       \* whose page directory the CPU uses; NoEnv is kern_pgdir
    tlb,       \* what the CPU has cached of it; Absent: nothing
    remote,    \* addresses at which another CPU has changed it since lcr3()
    started,   \* environments that were made runnable
    zombies    \* ENV_DYING

cpuVars == <<curenv, cr3, tlb, remote>>
tlbVars == <<allVars, cpuVars, started, zombies>>

NothingCached == [va \in Vas |-> Absent]

TlbInit == /\ IpcInit
           /\ curenv = [c \in Cpus |-> NoEnv]
           /\ cr3 = [c \in Cpus |-> NoEnv]
           /\ tlb = [c \in Cpus |-> NothingCached]
           /\ remote = [c \in Cpus |-> {}]
           /\ started = Alive
           /\ zombies = {}

-----------------------------------------------------------------------------
(* The processor.                                                          *)

\* An access of the program, or a guess of the processor, that walks the page
\* table.  That entries are dropped early is left out: it hides mistakes.
Fill(c, va) == /\ ~panicked
               /\ cr3[c] \in Alive /\ tlb[c][va] = Absent
               /\ tlb' = [tlb EXCEPT ![c][va] = m.pte[cr3[c]][va]]
               /\ UNCHANGED <<allVars, curenv, cr3, remote, started, zombies>>

-----------------------------------------------------------------------------
(* The kernel, on CPU c.                                                   *)

\* The addresses of f at which this step changes the page table.
Edited(f) == {va \in Vas : m'.pte[f][va] # m.pte[f][va]}

\* page_remove() calls tlb_invalidate(), which flushes the entry of c if c runs
\* the environment, as the lcr3() that ends the trap does again; the entries of
\* other CPUs that run it stay.
Missed(c) == [d \in Cpus |-> IF d # c /\ curenv[d] \in Envs THEN remote[d] \cup Edited(curenv[d])
                             ELSE remote[d]]

\* lcr3() on c, and curenv with it.
LoadCr3(c, f) == /\ curenv' = [curenv EXCEPT ![c] = f]
                 /\ cr3' = [cr3 EXCEPT ![c] = f]
                 /\ tlb' = [tlb EXCEPT ![c] = NothingCached]
                 /\ remote' = [Missed(c) EXCEPT ![c] = {}]

\* env_run(), also of the environment that trapped.
EnvRun(c, f) == LoadCr3(c, f)

\* Mutant of SchedHalt: the CPU halts in the address space it was using.
SchedHaltKeeps(c) == /\ curenv' = [curenv EXCEPT ![c] = NoEnv]
                     /\ cr3' = [cr3 EXCEPT ![c] = IF @ \in Alive' THEN @ ELSE NoEnv]
                     /\ tlb' = [tlb EXCEPT ![c] = NothingCached]
                     /\ remote' = [Missed(c) EXCEPT ![c] = {}]

SchedHalt(c) == LoadCr3(c, NoEnv)

\* Runnable after the step, and on no other CPU.
Eligible(c) == {f \in (Alive' \cap started') \ zombies' :
                   ~recving'[f] /\ \A d \in Cpus \ {c} : curenv[d] # f}

\* sched_yield(): another one that is runnable, or else the one that was
\* running if it still is, or else none.
SchedYield(c) == \/ \E f \in Eligible(c) \ {curenv[c]} : EnvRun(c, f)
                 \/ /\ Eligible(c) = {curenv[c]}
                    /\ EnvRun(c, curenv[c])
                 \/ Eligible(c) = {} /\ SchedHalt(c)

-----------------------------------------------------------------------------
(* What a trap on c does.                                                  *)

Runs(c) == curenv[c] \in Envs \ zombies

\* A call that returns to the program through env_run().
CallReturns(c) ==
    /\ Runs(c)
    /\ LET e == curenv[c] IN
       /\ Map(e) \/ \E f \in Envs : SysIpcTrySend(e, f)
       /\ EnvRun(c, e)
    /\ UNCHANGED <<started, zombies>>

ExoforkReturns(c) ==
    /\ Runs(c)
    /\ \E child \in Envs : Exofork(curenv[c], child) /\ started' = started \ {child}
    /\ EnvRun(c, curenv[c])
    /\ UNCHANGED zombies

\* sys_env_set_status(child, ENV_RUNNABLE), which fork() calls once.
Start(c) == /\ Runs(c) /\ ~panicked
            /\ \E f \in Mine(curenv[c]) \ started : started' = started \cup {f}
            /\ UNCHANGED <<allVars, zombies>>
            /\ EnvRun(c, curenv[c])

Recv(c) == /\ Runs(c)
           /\ \E va \in Vas \cup {NoVa} : SysIpcRecv(curenv[c], va)
           /\ UNCHANGED <<started, zombies>>
           /\ SchedYield(c)

\* A timer interrupt, also of a CPU that has halted, or sys_yield().
Yield(c) == /\ ~panicked /\ curenv[c] \notin zombies
            /\ UNCHANGED <<allVars, started, zombies>>
            /\ SchedYield(c)

Running(f) == \E d \in Cpus : curenv[d] = f

\* env_destroy() of a child that another CPU runs: it runs on until it traps.
Kill(c, f) == /\ Runs(c) /\ ~panicked
              /\ f \in Mine(curenv[c]) \ {curenv[c]}
              /\ Running(f) /\ f \notin zombies
              /\ zombies' = zombies \cup {f}
              /\ UNCHANGED <<allVars, started>>
              /\ EnvRun(c, curenv[c])

\* env_destroy() of a child that no CPU runs, or that is a zombie already.
Destroy(c, f) == /\ Runs(c)
                 /\ f \in Mine(curenv[c]) \ {curenv[c]}
                 /\ ~Running(f) \/ f \in zombies
                 /\ Free(f)
                 /\ zombies' = zombies \ {f}
                 /\ UNCHANGED started
                 /\ EnvRun(c, curenv[c])

\* sys_env_destroy() of a child, which a program calls once.
DestroyChild(c) == \E f \in Envs \ zombies : Kill(c, f) \/ Destroy(c, f)

\* env_free() of the current environment, which exits, faults or has become a
\* zombie: after lcr3(kern_pgdir), and before sched_yield().
Exit(c) == /\ curenv[c] \in Envs
           /\ Free(curenv[c])
           /\ zombies' = zombies \ {curenv[c]}
           /\ UNCHANGED started
           /\ SchedYield(c)

TlbNext == \E c \in Cpus : \/ \E va \in Vas : Fill(c, va)
                           \/ CallReturns(c) \/ ExoforkReturns(c) \/ Start(c)
                           \/ Recv(c) \/ Yield(c) \/ DestroyChild(c) \/ Exit(c)

TlbSpec == TlbInit /\ [][TlbNext]_tlbVars

-----------------------------------------------------------------------------
TlbTypeOK == /\ curenv \in [Cpus -> Envs \cup {NoEnv}]
             /\ cr3 \in [Cpus -> Envs \cup {NoEnv}]
             /\ tlb \in [Cpus -> [Vas -> Ptes]]
             /\ remote \in [Cpus -> SUBSET Vas]
             /\ started \subseteq Envs /\ zombies \subseteq Envs

\* If nobody destroys a zombie again, no CPU, halted or not, uses a page
\* directory that was freed, and no other CPU uses the same one; what it has
\* cached is what the page table says, except where a parent has changed the
\* memory of a child that was running on another CPU, and there only until that
\* CPU traps (lcr3 in env_run, sched_halt and env_free; tlb_invalidate).
TlbRight == /\ TlbTypeOK
            /\ \A c \in Cpus : cr3[c] # NoEnv =>
                 /\ cr3[c] \in Alive
                 /\ \A d \in Cpus \ {c} : cr3[d] # cr3[c]
                 /\ \A va \in Vas \ remote[c] :
                       tlb[c][va] # Absent => tlb[c][va] = m.pte[cr3[c]][va]
===============================================================================
