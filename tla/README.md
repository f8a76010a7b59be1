# A TLA+ development of the Sisop TPs

The repository holds four programs of an operating-systems course: **Sched**, a
JOS kernel with its user library and two schedulers (`src/TPs/Sched`);
**fisopfs**, a FUSE file system kept in memory and persisted to one file
(`src/TPs/FileSystem/fisopfs`); a **shell** (`src/TPs/Shell`); and the **Fork**
exercises (`src/TPs/Fork`).  They do not call one another.  Sched is by far the
largest and the only one with shared memory and several CPUs; it is modelled
first and in most detail.  All four are model-checked and have proofs.

## 1. Inventory

### Sched (JOS kernel)

| component | state | operations | interacts with |
|---|---|---|---|
| kernel lock, `kern/spinlock.c` | `locked`, `cpu` | `spin_lock`, `spin_unlock`, `holding` | taken by `i386_init`, `mp_main`, `trap`; released by `env_run`, `sched_halt` |
| environments, `kern/env.c` | `envs[]` (status, id, parent, priority, page directory, `env_cpunum`, IPC fields), `env_free_list` | `env_alloc`, `env_free`, `env_destroy`, `env_run`, `envid2env` | page allocator, scheduler, `curenv` of each CPU |
| scheduler, `kern/sched.c` | `stats`, `env_priority` | `sched_yield` (round robin or priorities), `sched_halt` | called from traps, system calls, `env_destroy`, boot |
| traps and CPUs, `kern/trap.c`, `kern/init.c`, `kern/cpu.h` | `cpus[]` (`cpu_env`, `cpu_status`) | `trap`, `trap_dispatch`, `page_fault_handler`, `boot_aps`, `mp_main` | lock, environments, system calls, user page-fault handlers |
| system calls, `kern/syscall.c` | none of its own | exofork, set_status, page alloc/map/unmap, IPC, priorities, destroy | everything above and the page tables |
| memory, `kern/pmap.c` | `pages[]` (`pp_ref`, `pp_link`), `page_free_list`, page directories and tables, each CPU's TLB | `page_alloc`, `page_free`, `page_insert`, `page_remove`, `page_decref`, `pgdir_walk`, `tlb_invalidate`, `user_mem_check` | environments, system calls |
| user library, `lib/` | `thisenv`, the user's own page tables seen through `uvpt`, `_pgfault_handler` | `fork`, `fork_v0`, `pgfault`, `ipc_send`, `ipc_recv`, `exit` | system calls, page-fault upcalls |
| boot, `kern/entry.S`, `kern/mpentry.S`, `kern/init.c`, `kern/pmap.c`, `kern/env.c`, `kern/mpconfig.c` | `nextfree`, `pages[]`, `entry_pgdir`, `kern_pgdir`, stack and task state of each CPU, the memory of the first programs, `ncpu`, `bootcpu` | `boot_alloc`, `page_init`, `boot_map_region`, `mem_init`, `load_icode`, `mp_init`, `boot_aps`, `mp_main` | everything that starts later |
| console, `kern/console.c` | `cons` (ring buffer), `shift`, `crt_buf`, `crt_pos` | `kbd_intr`, `serial_intr`, `cons_getc`, `cga_putc` | keyboard, serial port, `readline`, `sys_cgetc` |
| library routines, `lib/` | none | `memmove`, `strlcpy`, `strtol`, `vprintfmt`, `vsnprintf`, `readline` | used by kernel and programs |
| debugging, `kern/kdebug.c`, `kern/monitor.c` | none | `stab_binsearch`, `debuginfo_eip`, `runcmd` | console, the symbol tables of the image |
| gates and frames, `kern/trap.c`, `kern/trapentry.S`, `kern/switch.S` | `idt[]`, the trap frame on the kernel stack | `trap_init`, the entries, `trap_dispatch`, `context_switch` | every interrupt, exception and `int` |
| controllers, `lapic.c`, `picirq.c`, `kclock.c` | device registers, the page the local controller is mapped at | initialisation and acknowledgement, `cpunum` | interrupts of `trap`, start of the CPUs |

What is hard: kernel code is serialised by one lock, but what happens *around*
the lock is not: reading the lock's debugging fields, the instant between
`unlock_kernel()` in `env_run()` and the return to user mode, an environment
killed from one CPU while it runs on another, halted CPUs that are woken by the
timer and must know whether to take the lock.  User code runs in parallel on
all CPUs and may be interrupted between any two system calls, which is where
the library's multi-call protocols (`fork`, `pgfault`, `ipc_send`) live.  Memory
can run out in the middle of a system call.  Each CPU caches translations that
another one may change, and at the start each runs in an address space that maps
less than the next one will.

What makes it correct: mutual exclusion of kernel code; an environment is
current on at most one CPU; a zombie is freed once, by its CPU; free slots and
free list agree; blocked receivers wake up only for a message; runnable
environments run; a page is free exactly when nothing refers to it; no CPU uses a
page directory that was freed; `fork` gives the child a private copy; a trap
loses no register; no CPU touches what its address space does not map.

### fisopfs

State: `superblock` and `inodes[MAX_INODES]` in memory, the file `filedisk` on
disk.  Operations: the FUSE handlers of `fisopfs.c` over the helpers of
`utils.c`; `init` loads, `flush` and `destroy` store.  FUSE calls the handlers
from several threads and there is no lock.  Names are looked up by their last
component.  What is hard: creations racing for a free inode, the life of a
directory with files in it, `size` against the content, a crash in the middle
of a store.  What makes it correct: names are unique, a slot is occupied exactly
when it has a file, no file is in a directory that is gone, a file is a
sequence of bytes, and the disk has what was stored.

### Shell

State: the background/foreground child processes, the redirections and pipes of
a command line, `status` and the prompt.  Operations: the loop in `sh.c`,
`run_cmd`, `exec_cmd`, `cd`/`exit`/`pwd`, the SIGCHLD handler of
`background_handler.c`.  What is hard: the handler interrupts the main program
anywhere and waits for children of the same process group; signals coalesce;
the ends of a pipe are inherited by processes that do not use them.  What makes
it correct: a line is understood as it is written, the status reported is that
of the command, the prompt comes back and no line hangs.

### Fork

`primes.c` is a sieve as a chain of processes joined by pipes.  State: the
processes, the ends of pipes each has open, what the pipes contain, what
`printf()` has collected.  What is hard: a process ends when its input does, so
an end that a child has inherited and not closed keeps the whole chain waiting;
`pipe()` or `fork()` may fail anywhere along it; SIGPIPE.  What makes it correct:
the primes and nothing else come out, and everybody ends and is waited for.
`xargs.c` runs a command on the lines of its input, `NARGS` at a time, with one
array for all runs.

## 2. Modules

Each module translates the functions named below; the names of variables and
actions are those of the code where TLA+ allows it.  `map` in `PROJECT.json`
gives the lines of every definition.  Definitions marked *Mutant of X* in the
comments are plausible mistakes in X: every property that is checked is listed
in `PROJECT.json` with one that breaks it.

```
Mutex  <---implements---  Spinlock            (the lock Kernel's steps rely on)
Environments  <---implements---  KernelLib  --extends-->  Kernel
KernelFindings  --extends-->  KernelLib
Tlb  --extends-->  PageIpc  --extends-->  Memory
PrivateMemory  <---implements---  CowFork
ByteFile  <---implements---  FileContent
MCLibrary  --extends-->  Console, ExceptionStack, FileContent, StartUp
           --uses-->     CString, PrintFmt, Stabs, CommandLine, Terminal,
                         Boot, Traps, Xargs
MCPipes    --extends-->  ShellPipe, Sieve
Fisopfs   Shell
```

The modules whose names end in `Proofs` hold the theorems of section 5, with the
invariants and lemmas they rest on, and no definition of the model.

### The kernel

**Spinlock** (`kern/spinlock.c`, `lock_kernel`, `unlock_kernel`).  One step per
access to shared memory, because `holding()` reads `locked` and `cpu` without
owning the lock, on the way in and on the way out.  **Mutex** is what the rest
of the kernel relies on; Spinlock implements it (`MutexSpec`).

**Kernel** (`env.c`, `sched.c`, `trap.c`, `syscall.c`, `init.c`).  `pc[c]` says
where CPU `c` is: in user mode, spinning for the lock on one of the two ways
into `trap()`, in a handler, past `unlock_kernel()` in `env_run()` ("leave"),
halted, off.  A handler that runs with the lock is one step, since nobody else
can see its intermediate states: Spinlock and `KernelLockInv` justify that.
What happens without the lock has steps of its own: `TrapUser`, `TrapHalted`,
`Acquire`, `Resume` (the write of `env_cpunum` after the unlock), `MpMain`.
Programs issue any call with any argument, and can make the kernel panic:
`SendPanics` is a send of a page that is not mapped, `StackOverflow` a fault
on a full exception stack, `EnvCreatePanics` a boot with too little memory.  The scheduler is a relation between
the states before and after `sched_yield()`: `IsNext` is the environment a
circular scan meets first, `Overruns` the scan that starts at `envs[NENV]`.
`switches` counts modulo the boost period, which is all the code asks of it.

**KernelLib** restricts the programs to what the user library does: a child is
started once, by `fork()`, and killed at most once; a receiver gives a valid
address and a sender a mapped page; faults do not fill the exception stack. `starting` is a history variable, the
children between `sys_exofork()` and the end of `fork()`.  **Environments** is
the abstract life of an environment (free, starting, ready, running, blocked,
zombie) and the kernel under library programs implements it (`LifeSpec`).

**Memory** (`pmap.c`, the memory part of `env.c` and `syscall.c`).  The state is
one record `m`, so that the C functions are operators from memories to
memories and compose the way the C functions call one another; a system call
under the lock is one step.  Allocation fails wherever the free list is empty.
Reference counts are `RefLimit` values that wrap, as `pp_ref` has 16 bits, and
`page_insert()` ORs whatever `perm` it is given into the entry (`Entry`), which may
then name another page.  The code guards against neither, and what is claimed below
does not hold after them, so `MapCall` has programs that give `sys_page_map()` the
permissions its comment asks for and do not map a page until its count wraps.
**PageIpc** adds page transfer by IPC.

**Tlb** (`tlb_invalidate`, `lcr3` in `env_run`, `sched_halt` and `env_free`) puts
the environments of PageIpc on CPUs: whose page directory each one uses, and what
its TLB has cached of it.  `Fill` is the processor's walk, at any moment and of
any address.  An edit flushes the entry of the CPU that makes it, and `lcr3()`
the whole TLB.  `remote` is a history variable: the addresses at which another
CPU has changed the page table since then, which is where `tlb_invalidate()`
leaves stale entries (section 6).  Statuses are those of module Kernel, reduced
to started, receiving and zombie.  `Destroy` is also that of a zombie, which frees
it while its CPU runs it; `DestroyChild` has programs that destroy a child once.

**CowFork** (`lib/fork.c`, `trap.c`).  `fork()` and `fork_v0()` one system call
per step, page by page, the write faults of its own stack in between, the
handler one system call or copy per step; environments run at any speed, may be
killed between any two steps, and may run out of memory.  `version` fixes at the
start which of the two forks all programs use.  Programs write any value but
`Zero`, which is what a new page holds, so that a page that is mapped before it
is copied shows.  **PrivateMemory** is what `fork()` promises: every environment
has a memory nobody else writes and a child starts with its parent's.  CowFork
implements it (`PrivateSpec`): what a program reads through its page table is
its private memory, whatever is shared underneath.

**ExceptionStack** (`page_fault_handler`, `lib/pfentry.S`).  The stack is an
array of words, so that a frame, the scratch word and the locals of a handler
can overlap when the arithmetic is wrong.

**StartUp** (`entry.S`, `mpentry.S`, `i386_init`, `mem_init`, `boot_aps`,
`mp_main`, `lapic_init`, `trap_init_percpu`).  From the first instruction to the
first environment: the page directory each CPU uses (`entry_pgdir`, `kern_pgdir`,
an environment's), its stack, task state and `cpu_status`, and `mpentry_kstack`,
which all starting CPUs read.  `Touches` lists the addresses a CPU uses at each
point; they must be mapped there, to the right page and with the right
permission.  Memory is counted in pages, of which a page table maps `PTSIZE`, 20
where it is checked: enough for the order of `inc/memlayout.h` to matter, with an
address that `entry_pgdir` maps and one that it does not, a stack beside its gap,
free pages above and below what is mapped.  `pgdir_walk()` gives the tables that a
region lacks the first free pages, in order (`Mapped`).  `pse` is chosen at the start, because the code
for large pages is compiled under `TP1_PSE`, which the makefiles do not define;
`found` is how many CPUs the MP table names, 0 if there is none.

**Traps** (`trap_init`, `trapentry.S`, `trap_dispatch`, `switch.S`).  The stack as
a sequence, from what the processor pushes (with or without an error code, with
or without a change of stack) to the `struct Trapframe` laid over it, and back
into the registers.

**KernelFindings** adds to KernelLib the one system call that library programs do
not make and that section 6 is about, `sys_ipc_recv()` with an address that it
rejects.

**Boot** (`pmap.c`, `env.c`, `mpconfig.c`).  What the kernel computes before
anything runs at the same time, as functions with a promise each: which pages
are free after `boot_alloc` and `page_init` (`PagesAccounted`), what
`boot_map_region` maps (`RegionMapped`), what a program's memory holds after
`load_icode` (`ProgramLoaded`), which ranges `user_mem_check` accepts
(`RangeChecked`), how many CPUs `mp_init` finds (`CpusFound`).  Addresses wrap
at `Width`, the end of the address space.

### Console and library

**Console** (`kern/console.c`).  A state machine: the keyboard sends the bytes
of a key one at a time into the controller's port, an interrupt or `cons_getc()`
processes those that are there, the serial port delivers characters, and both
feed the ring buffer.  `waiting`, `held` and `doubled` are history variables:
the characters that were put and not taken, the keys that are down, and the
modifiers of which both keys were.

**CString**, **PrintFmt**, **Stabs**, **Terminal** (`lib/string.c`,
`lib/printfmt.c`, `kern/kdebug.c`; `cga_putc`, `readline`, `runcmd`) and
**CommandLine** (the shell's `parsing.c`) hold pure algorithms: each function as
an operator, with a reference definition of what it is for written without its
loops.  `AsLong`, `getint` and `getuint` keep the width of an integer.

**MCLibrary** runs the parts that share no state with others, one in each
behaviour (`part`): the console, the exception stack, the content of a file and
the start of the CPUs as machines, or a single call of one of the functions with
some arguments, recorded in `call`, of which the properties say that result and
promise agree.  Its `VIEW` leaves out the cells of the ring buffer that hold
characters already taken and keeps the rest (`Contents`, `waiting`, both
positions): a stale cell is written before it is read again, so that no behaviour
or property depends on it.  It also leaves out the variables of the start of the
CPUs in behaviours of another part, where they never change.

### fisopfs

**Fisopfs** (`fisopfs.c`, `utils.c`).  The inode table, `inodes_states`, the
file on disk and the request of each FUSE thread.  A handler is cut between
looking an inode up and using its index, between the two writes of
`new_inode()`, `unlink` and `rmdir`, and between the opening of `filedisk` and
the writes of its two arrays.  What the kernel does before a handler is called
(it looks the path up, and holds the lock of the directory for create, mkdir,
unlink and rmdir, and of the file for write and truncate) is in `Request`, the
external part of the model.  `getattr` and `readdir` change nothing but times and
appear as what they tell (`Readdir`, in `ListedOnce`).  `write` includes the case in which the file is gone
and is created again.  Any thread may store (`flush`) beside requests and other
stores, each of which empties the file first; `fisopfs_destroy()` comes when all
threads have ended, and a kill at any moment.  `raced` and `torn` remember that
requests overlapped in different directories and that a store was cut short; what
the code does not promise after that is not claimed.  `changed`, `unsaved` and
`mixed` are history variables as well: the slots that were changed, or found by a
handler that was about to change them, since a store began; those of the store
that was the last to end; and whether there were any, so that the two arrays on
disk may not fit one another.  The kernel looks every path up before it asks: that it may remember a
look-up (dentries), or write through a descriptor to a file that is gone, is left
out.

**FileContent** (`fisopfs_write`, `fisopfs_truncate`).  The bytes of one file
and the first bytes of the field that follows them in `struct Inode`, written
with any bytes, zero included, up to the full buffer and extended by truncate.
`text` remembers that the content has only been text that leaves room for its
terminator, `full` that the buffer has once been filled.  **ByteFile** is a
sequence of bytes with writes and cuts; FileContent implements it (`FileSpec`)
while `text` holds.

### Shell

**Shell** (`runcmd.c`, `printstatus.c`, `background_handler.c`).  The main
program between two commands, in `waitpid()` and before `print_status_info()`;
the handler as a step that may come between any two of these; one pending bit
for SIGCHLD.  `Raw` are wait statuses: 0 (success), 256 (exit 1), 9 (killed);
`Decode` applies the WIF macros as the code does, also to a status that was
decoded before.

**ShellPipe** (`exec_cmd()`, case PIPE).  Every process of a line, who holds
which end of which pipe, and what a pipe contains up to `Capacity`.  The
commands are external: they write, read, stop when they like or not at all.

### Fork

**Sieve** (`primes.c`).  One step per `pipe()`, `fork()`, `read()`, `write()`,
`close()` and `wait()`; every call that can fail may.  On a terminal what is
printed comes out at once; in a file `printf()` collects it until the process
ends and `fork()` copies what was collected.  **Xargs** (`xargs.c`) is an
algorithm like those of the library.  **MCPipes** checks the processes of a line
of the shell and those of the sieve, one or the other in each behaviour.

## 3. What the runs check

| run | bounds | distinct states | what it shows |
|---|---|---|---|
| `spinlock` | 3 CPUs | 351 | `NoFalsePanic`: no false "cannot acquire/release"; `MutexSpec`: it is a lock; `SomeoneGetsIn`: of the CPUs that spin one gets in |
| `kernel_any` | 2 CPUs, 2 slots, any program, panics included, priorities | 779,720 | `KernelLockInv`: who is in the kernel has the lock; `CurenvInv`: no null `curenv` is followed; `HaltedInv`: CPU_HALTED says when `trap()` must lock |
| `kernel_lib` | 2 CPUs, 4 slots, 3 live, round robin | 243,886 | `RunsAlone`, `SlotsRight` (types, status against CPU, free list, ids, children being built), `CpuRecorded`, `NoWorkForZombies`, `ReceiversBlocked`; `KernelSurvives`: of the panics none but those a program asks for, and no scan from the last slot, which is never handed out; `LifeSpec`: the refinement of Environments, in which zombies are freed once and by their CPU |
| `live` | 2 CPUs, 3 environments, 2 priorities | 115,111 | `RunnableRuns`, `BootEnds` |
| `page_ipc` | 2 environments on 2 CPUs, 6 pages, 1 address, counts below 4 | 44,557 | `PagesAccountedFor` (types, exact counts, free list, private tables); `TlbRight`: no CPU uses a freed page directory and a cached translation is wrong only where another CPU has changed it; `NoWriteGained`; `LostOnlyForLackOfTable`: the only page lost is that of `env_page_alloc()`; `PageDelivered` |
| `cow_fork` | 3 environments, 4 frames, text and stack, both forks | 49,153 | `SharingSafe` (only an unshared page is writable, who has COW pages has a handler, PFTEMP is used only in it); `PrivateSpec`: memory is private |
| `fisopfs` | 2 threads, 2 names, paths of 2, 3 inodes; after a race up to the first store | 766,049 | `TableRight` (names unique, states right, each file listed by its directory alone, and, whatever races, the root stays); `DataSecured`: when no store is under way the disk has everything but what was changed while the last one ran, however stores, requests and kills overlapped |
| `shell_jobs` | 3 children, `fork()` may fail | 601,050 | `ReportsOwnStatus`: of single commands, unless a background child was reaped meanwhile; `PromptReturns` |
| `pipes` | a line of 4 commands, one write fills a pipe; the sieve of 1, 4 and 13, pipes of 2 | 18,323 | `EveryLineEnds`, `EverySieveEnds`, whatever fails; `PipesRight`: all are waited for, no stray ends, the primes and nothing else are printed |
| `library` | ring of 3, 4 keys; 11 words, so 2 nested faults and a third that overflows; 6-byte file buffer; 3 CPUs, of which 0 to 4 are found; every argument of the sets in MCLibrary | 767,575 | `ConsoleRight` (the buffer is a queue, modifiers are those held); `ReturnsToFault`: to the instruction and stack that faulted; `StackIntact`: a nested frame spares what is in use; `FileSpec`: a file is a sequence of bytes; `OutsideRight`: clear beyond the end, nothing written beyond the buffer; `StartRight`: no CPU faults or shares a stack while it starts; `StringsRight`, `LinesRight`, `BootRight`, `TrapsRight`: every algorithm keeps its promise |
| `find_bad_receive` | as `kernel_lib`, 3 slots, and `sys_ipc_recv()` with a bad address | violated | `SendNeedsBlockedTarget` (`syscall.c:322`): a send succeeds to an environment that is not blocked |
| `find_spurious` | as `library` | violated | `SpuriousHarmless` (`trap.c:216`): a spurious interrupt kills the environment it meets |

Where several invariants speak of one thing they are checked as one, a
conjunction of named parts (`SlotsRight`, `PagesAccountedFor`, `SharingSafe`,
`TlbRight`, `TableRight`, `OutsideRight`, `PipesRight`, `StartRight` and those of
`library`), each part with a comment of its own in its module.

The bounds are the smallest at which the interesting cases occur: two slots make
every slot often the last one and reused while stale ids exist; one generation
makes ids wrap; three live environments on two CPUs make one always wait; six
pages are all that two address spaces with one page each need, so that every
allocation also fails, and two CPUs make every edit also a remote one; three environments let a child fork while its parent
does, and four frames run out; three inodes with two names and a root fill the
table, and two threads make every two requests, a store among them or both,
overlap; a port of two bytes can be found half full of a key's two; a ring of
three wraps and overruns; three CPUs start in every order around the boot CPU;
the sieve of 13 has seven processes that wait for one another in full pipes and
that of 1 has none to wait for.  The sets of arguments of `library` contain what the
branches of each function tell apart: overlapping and aligned moves, prefixes of
numbers with and without digits behind them, numbers of both signs at both widths, unaligned segments, the last page
below `UTOP`, one CPU more than there is room for.

Preconditions in the promises, each from the code's callers or comments:
segments that do not share a page (`env.c:336`); ranges that do not wrap around
the end of the address space (`user_mem_check` adds 32-bit numbers and would
accept one that does); stabs of one type in increasing order (`kdebug.c:30`); the
boot CPU among the first `NCPU`, and in `StartRight` the first one (section 6);
permissions without address bits, and a reference count that does not wrap, in
`page_ipc` (two environments with one address never count up to its limit of 4);
children that are destroyed once; characters that fit a command's arrays in the
shell (`BUFLEN`, `ARGSIZE` and `MAXARGS` there are not modelled).

`CHECK_DEADLOCK FALSE` appears where programs may all have ended: MCPageIpc,
MCCowFork and MCPipes.  Everywhere else TLC checks that some step is always possible.
MCFisopfs has a `CONSTRAINT`: once requests in two directories have raced, a history
is followed to its first store and not beyond.

## 4. Fairness

*Spinlock*: a CPU in `spin_lock()`/`spin_unlock()` goes on; the xchg is fair to
the set of CPUs that spin, not to each: x86 promises no more, and
`SomeoneGetsIn` claims no more.
*Kernel*: weak fairness of each kernel step of each CPU and of "some CPU
acquires the lock"; strong fairness of each CPU's timer, which interrupts
whatever runs (it is strong because a program may keep making system calls).
Nothing is assumed of programs.  That a *given* CPU acquires the lock is not
assumed, so "a zombie is eventually freed" is not claimed for several CPUs.
`RunnableRuns` is checked with programs that do not fork and with priorities
below `MIN_PRIORITY`, outside the cases in which the code does starve somebody
(section 6).
*Shell*: the main program, the delivery of signals and the foreground command
go on; background commands need not.  *ShellPipe*: managers and their children
go on, and a command that can read or must end does; a command that writes need
not stop by itself.  *Sieve*: every process goes on, since nothing but its pipes
and its child holds it up.  In MCPipes the fairness asked is that of the program
that runs.

## 5. What is proved

Checked by TLAPS for every value of the constants that satisfies the named
assumptions (`NENV`, `NCPU`, `NInodes`, `MAX_DATA_SIZE`, `Words`, ... positive;
`NInit <= NENV`; priorities are integers; sets of pages, environments and FUSE
threads are finite; the null values are none of the others).  A module of proofs
extends the modules it is about.

* **SpinlockProofs.**  `IInv` relates each CPU's place in `spin_lock()` to
  `locked` and `cpu`: without it `NoFalsePanic` is not inductive, because a
  stale `cpu` is harmless only when it is never one's own.  From it:
  `LockExcludes`, `LockNeverPanics`, `LockImplementsMutex`.
* **KernelLibProofs** (Kernel, KernelLib and Environments).  `KInv` = types, lock
  discipline, `curenv`, halted protocol, for *any* program.  `TypeOK` alone is not
  inductive: `env_id[curenv[c]]` is read by nearly every handler.  From it:
  `TypeCorrect`, `LockDiscipline`, `CurrentEnvironment`, `HaltedProtocol`.
  `LibInv` = `KInv` and `LifeInv`, nine facts about
  library programs that hold only together: that no environment is on two CPUs
  needs that what is RUNNING is current somewhere and has one CPU, that needs
  that nobody makes a running environment runnable, which needs `StartingWaits`
  and the free list.  `MovesLifeInv` covers all steps that only move a CPU;
  `EnvRunLife`, `FreeLife` and `StatusLife` the three kinds of change.  From it
  nine theorems, among them `NeverOnTwoCpus`, `SlotsAreRight`, `CpuNumbersRight`.
  `KernelKeepsRunning` (neither the lock, `trap()`, `env_run()`, `env_free()` nor
  the scheduler panics, or scans for ever) is about library programs as KernelLib
  has them, which ask for none of the three panics of Kernel, and assumes
  `MaxLive < NENV` and `NInit < NENV`, that they leave one slot alone: with all of
  them used the scan of `sched_yield()` does start behind `envs[]` (section 6).  A
  spurious interrupt, which also panics a halted CPU, is not one of Kernel's
  interrupts (run `find_spurious`).  Its invariant,
  `Survives`, keeps the last slot at the end of the free list, so that
  `env_alloc()`, which takes from the front, reaches it only when nothing else is
  free.
  Every step of the kernel under library programs is a
  step of Environments or leaves `life` and `on` alone
  (`KernelImplementsEnvironments`); `BlockedStayBlocked` follows from the
  abstract specification.
* **MemoryProofs** (Memory, PageIpc and Tlb).  `Sound(n, h)` says of a memory `n`
  that its counts are those of its uses, but for one more on a page `h` that a
  call has in hand: what holds *between* the functions of `pmap.c`, where
  `PagesAccountedFor` does not.  One lemma says what each function makes of it;
  the system calls compose them as the C code does, each failure apart.
  `env_free()`'s loop over the addresses is a recursive function, of which
  `FreedExists` says that there is one and `GivenAll` what it has done by each
  address.  From it: `PagesStayAccountedFor`, `NobodyGainsWrite`,
  `LossesAreForLackOfTable`, `ReceiverGetsThePage`, each for programs whose
  `sys_page_map()` has no address bits in `perm` and with counts that do not wrap
  (`MapCall`, `CountableAt`): without the first `NoWriteGained` and
  `PagesAccountedFor` are false, without the second the latter is.  `CpusOnlyMakeCalls` is the
  refinement that makes them hold of Tlb; `TlbInv` adds that `cr3` is the
  directory of the environment that runs, which is alive and runs nowhere else
  (`TlbStaysRight`, if nobody destroys a zombie again): that a TLB agrees with a page table is not inductive unless
  a freed directory is in nobody's `cr3`.
* **CowForkProofs.**  `CowInv` says of each environment how far its `fork()` and
  its page-fault handler are and what the page tables of parent and child look
  like there.  Its core is `Alone`: a writable page is mapped once, but for the
  page that `duppage()` has mapped in the child and not yet again in the parent.
  `SharingSafe` is not inductive without what the child may do (nothing, until
  `sys_env_set_status()`) and what the handler's page is for.  From it:
  `SharingStaysSafe`, and the refinement `ForkGivesPrivateMemory`, where `Shows`
  is what an environment reads at an address, including a child whose page is
  still to be copied.
* **MachineProofs** (FileContent, ExceptionStack, Console, StartUp and the library
  routines).  `ContentInv` says where
  the first zero byte is and that behind it there is nothing while the content
  is text; with it a write and a cut of the buffer are those of a sequence of
  bytes (`OutsideStaysRight`, `ContentImplementsBytes`).  `StackInv` adds
  `FramesNest` to `StackIntact`: each frame lies below the stack pointer of the
  fault before it, with its scratch word, and what is between is that handler's
  (`StackStaysIntact`, `HandlersReturn`).  `ConsoleInv` says that the ring buffer
  holds what waits, and that the shift state *will* reflect the keys held down
  once the bytes on their way through the port have been processed: until
  then it need not, which is why `ModifiersAreHeld` alone is not inductive
  (`ConsoleStaysRight`).

  `StartInv` is a map of the start of the kernel.  It says which places the CPUs
  can be at together: none has left `off` before the boot CPU has the lock, they
  are started one at a time (`Before`), so that `mpentry_kstack` is for the one
  that reads it, and none enters the scheduler while the boot CPU keeps the lock.
  And for each place, which page directory, stack and task state a CPU has there,
  and whether it can ask the local APIC who it is (`CpuRight`, `LapicRight`).
  `Built` describes `kern_pgdir` without the steps that made it: the tables and
  the pages of each region, nothing elsewhere.  `MemoryIsBuilt` follows
  `mem_init()` to it, region by region, with and without large pages, and finds
  that the tables it takes are where `entry_pgdir` maps; what `lapic_init()` maps
  later keeps it.  Both are needed for `StartRight`, since a CPU faults when its
  place and the mapping disagree.  `StartStaysRight` holds for every number of
  CPUs, of `cpus[]` and in the table, and for page tables of every size that holds
  the stacks and what the kernel takes of low memory (`SizeAssumption`); the boot
  CPU is the first of `cpus[]`, without which it is false (section 6).

  The routines have no steps, so their theorems are about every input that the
  preconditions of section 3 allow, and every size: `MemmoveMoves`, `StrlcpyFits`,
  `StabSearchKeepsPromise` (that the search ends included), `RangesAreChecked`
  (which ranges are accepted, and of those that end at or below `UTOP` which byte is
  reported; `UTOP` a multiple of the page size), `RegionsAreMapped` (a region within the
  tables and a multiple of the size of its pages), `CpusAreFound`,
  `PagesAreAccounted` (the kernel's image ends behind the hole for devices) and
  `ProgramsAreLoaded` (a segment has at least as much memory as file, `env.c:332`,
  and lies below the stack).  Of a loop that is a
  recursive function, `Recursion` says that there is exactly one, and
  `RecursionStays` that what each round keeps holds at its end.
* **FisopfsProofs.**  `FileInv` says what holds *while* handlers are at work,
  where `TableRight` and `DataSecured` speak of rest.  One slot may be half made
  or half removed (`InTransit`), every other is marked exactly when it is named;
  each handler finds what its earlier step has found (`Relies`): a create its
  name unused and its directory there, an unlink its inode, an rmdir its
  directory childless, a write its file.  These hold together because the
  kernel's locks let one handler at a time make or remove an inode
  (`OneMaker`) and never the file another one changes (`OtherFile`).  `RootStays`
  needs none of this and is proved of histories with races too.  `DiskInv` says
  what is on the disk while several stores empty the file under one another: once
  none of them has its inodes still to write, each that has its states to write finds
  on the disk the inodes of all slots but those changed since it began
  (`InodesWritten`), a slot that a handler has half changed is one of these
  (`HalfwaySeen`), and when the last store has ended the file is whole (`Stored`).
  From it: `TableStaysRight`, `DataStaysSecured`.

* **ShellProofs.**  `StatusInv` says that while `run_cmd()` waits for its child,
  what the child has ended with is `last`, and once somebody has reaped it
  `status` is that, unless the handler has reaped another child since
  (`OwnStatusIsReported`).
* **PipesProofs** (ShellPipe and Sieve).  `LineInv` says of each process of a
  line which ends of which pipes it can have (`EndsRight`), that its children live
  from its `fork()` to its `waitpid()` (`ChildrenRight`) and that none is made
  twice (`MadeOnce`); with it nobody is left when the prompt comes back
  (`LineLeavesNoProcess`), whatever fails on the way.  `SieveInv` has a witness
  `t`, the last number each process has taken: a pipe holds, in order, what the
  processes to its left let through between the numbers last taken at its two ends
  (`FlowRight`), each prime is the first number that none before it divides
  (`PrimeRight`, with some theory of divisors), and what is printed are those
  primes (`PrintedRight`); while nothing has failed the processes end in order
  (`EndedRight`).  From it `SieveFindsPrimes`; `PipesStayRight` joins the two as
  the run does.

Induction over data is done where it is over numbers, by a least counterexample
(`LeastExists`, from the well-foundedness of the subsets of a finite set), since
the library's induction theorems take an operator that no installed prover can
instantiate.  The definition of `EnvFreeVm` as a recursive function and that of
`Mappings` without a tuple pattern are what tlapm accepts.

Only model-checked: Traps, of which MCLibrary tries every vector and cause; the
algorithms that MCLibrary calls and that are not named above (`strtol`, the
formats, command lines, the terminal, `xargs`); and every liveness property.
Liveness and ENABLED, induction over sequences and recursive operators are beyond
the installed provers.

## 6. Where the code departs from its documents

Met while modelling.  The models contain the behaviour, except where "left out"
says that programs or inputs that lead to it are not considered; the properties
are those that hold beside it.

Kernel:

* `sched_yield()` takes whatever is ENV_RUNNABLE and `sys_env_set_status()`
  (`syscall.c:183`) makes a child that runs on another CPU runnable, so that it
  can be current twice; `sched.c:31` says a running environment is never chosen.
  KernelLib leaves such programs out.
* A second `sys_env_destroy()` of a zombie finds it ENV_DYING, not ENV_RUNNING
  (`env.c:467`), and frees it, with the page directory that its CPU uses, while it
  runs; left out of KernelLib and, as `DestroyChild`, of Tlb.
* `sys_page_map()` does not check `perm` (`syscall.c:260` says it fails if it is
  inappropriate; `check_perm()` is there) and `page_insert()` ORs it into the entry
  (`pmap.c:501`): bits from 12 up make the entry that of another page, which is not
  counted and which the caller may then write.  `pp_ref` has 16 bits
  (`memlayout.h:187`) and wraps when a page is mapped 2^16 times.  Both are in Memory
  and left out by `MapCall`.
* `user_mem_check()` rejects what is over `UTOP`, where `pmap.c:633` says ULIM, and of a
  range that goes over it reports the start, which may be a byte that is allowed
  (`pmap.c:650`), where `pmap.c:637` says the first that is wrong.  `RangeChecked`
  claims the address for the other ranges only.
* `sys_ipc_recv()` leaves `env_ipc_recving` set when it rejects `dstva`
  (`syscall.c:416`), so that a send to a target that is not blocked succeeds,
  against `syscall.c:322` (run `find_bad_receive`).
* There is no gate for the vector of spurious interrupts (`trap.c:96`,
  `lapic.c:66`): the processor reports a protection fault instead, and
  `trap_dispatch()` destroys the environment, or panics if the CPU was halted,
  where `trap.c:216` says they are ignored (run `find_spurious`).
* `trap_init_percpu()` runs on the boot CPU before `mp_init()`, when `cpunum()` is
  0 whatever its place in the table (`trap.c:130`): when the boot CPU is not the
  first one it shares task state and kernel stack with CPU 0.  With `bootcpu = 1`
  `StartRight` fails; the run assumes that it is first.
* `tlb_invalidate()` flushes the entry on its own CPU only (`pmap.c:578`): a child
  that runs on another one may go on using a page its parent has unmapped, even
  after that page has been given to somebody else, until it traps.  `TlbRight`
  claims nothing of those addresses.
* `mem_init()` clears `pages[]` and `envs[]` through `entry_pgdir`, which maps 4 MB:
  with so much memory that `pages[]` does not fit below, it would fault.  StartUp
  takes for granted that they fit.
* From the last slot the scan starts at `envs[NENV]` (`sched.c:37`) and with
  nothing runnable does not end.  After an exit it starts at slot 0 instead of
  after the environment that last ran (`sched.c:23`), so that programs in low
  slots that exit and fork for ever starve one in a higher slot.
* The priorities scheduler stops at the first environment it accepts
  (`sched.c:82`), where `sched.md:20` says the best one is sought; one whose
  priority is set to MIN_PRIORITY or worse never runs when no other is left to
  switch to, because the boost counts switches (`sched.c:61`, `sched.md:22`).
* `env_page_alloc()` does not free its page when `page_insert()` fails
  (`syscall.c:57`; `syscall.c:234` says to): `LostOnlyForLackOfTable` says that
  nothing else is lost.
* `sys_ipc_try_send()` has replaced the receiver's page when its second step
  fails (`syscall.c:384`, against `syscall.c:339`), leaves `env_ipc_perm` as it
  was when no page is wanted (`syscall.c:391`, against `syscall.c:332`), and
  then "sends" an unmapped page (`syscall.c:374`, against `syscall.c:350`).  Of an
  unmapped page it follows a pointer that `page_lookup()` has not set: what happens
  depends on what is there, and may be a panic (`SendPanics`, in Kernel and PageIpc;
  KernelLib's programs send pages that are mapped).
* The test of `pgfault()` (`fork.c:28`) is a flag and-ed with a 0 or 1 and never
  true: a program that writes its read-only pages gets a writable copy.
* An overflow of the exception stack panics the kernel (`trap.c:376`); by
  `trap.c:336` it should destroy the environment.  In Kernel (`StackOverflow`), left
  out of KernelLib.
* `bootcpu` is `&cpus[NCPU]` when the boot CPU comes after `NCPU` others
  (`mpconfig.c:185`); left out by a precondition.

Console, library and debugging:

* `stab_binsearch()` goes on after an exact match with `addr + 1`
  (`kdebug.c:92`): when the next stab of the type is at that address, it is the
  one returned.  `Promised` and `Located` keep clear of that.
* Of `0x` with no digit behind it `strtol()` leaves `*endptr` behind the x
  (`string.c:263`), where the C standard takes the 0 only; of a string without a
  number it leaves it behind blanks and sign, where the standard goes back to the
  start; and a number that is too large loses its high bits (`string.c:285`).
  `Reads` is what the standard says, with these three exceptions.
* `%-5d` pads in front of the number, with minus signs: `'-'` is taken for the
  padding character (`printfmt.c:111`, `printnum`).
* `readline()` stores the DEL typed on an empty line (`readline.c:26`).
* In `%5.0s` the 0 is taken for the padding flag (`printfmt.c:117`), and a minus
  sign is printed before the padding of its number.
* The monitor says "max 16" and takes 15 arguments (`monitor.c:88`).

fisopfs:

* `fisopfs_destroy()` empties `filedisk` before it writes it (`fisopfs.c:237`);
  a process that is killed then loses what earlier stores had saved, against
  `fisopfs.md:44`.
* `rmdir` of a directory below another does not find the files in it, because
  the parent is spelt in two ways (`utils.c:156`).
* `rmdir` marks an inode free, then clears it (`fisopfs.c:153`): a create in
  another directory may have filled it in between.
* `size` is `strlen(content)` (`fisopfs.c:226`): a full buffer has no terminator
  and the size counts bytes of `directory_path`, which a later truncate clears;
  what follows a zero byte is not part of the file.

Fork:

* When standard output is not a terminal, `fork()` copies what `printf()` has
  collected (`primes.c`), and numbers come out more than once;
  `tests/primes-test.py` compares sets.  `PrimesInOrder` is claimed of a
  terminal, `AllPrimes` of both.

Shell:

* The handler writes the raw status of a background child to `status`, which is
  `$?` (`background_handler.c:24`), and waits once for a signal that may stand
  for several children (`background_handler.c:18`).
* The process of a pipe exits with 0 whatever its last command returns
  (`exec.c:191`; `shell.md:55` says it is the last command's).
* A `fork()` that fails gives `waitpid(-1)`, any child (`runcmd.c:58`).
* Only the first `&` of a command counts: `p 2>&1 &` is not run in the background
  (`parsing.c:206`).  A setting whose value has a `-` is passed as an argument
  (`parsing.c:79`).  `$?` is printed into four bytes (`parsing.c:112`).

## 7. What is not modelled

* The image's headers, the ports of the 8259A and of the clock, `entry_pgtable`
  (`#if 0`), `env_init_percpu()`; the serial and parallel outputs and the character
  attributes of the console; most keys of the keyboard tables, NumLock,
  ScrollLock and the reboot of Ctrl-Alt-Del; the search for the MP tables in
  memory (`mpsearch`, `mpconfig`).
* `mem_init()`'s self-checks but `check_kern_pgdir()`, and the parts of
  `check_page_free_list()` and `check_page()` that leave something behind;
  `user_mem_assert()` beyond the range it checks.
* `%c`, `%e`, `%p` and `#` of `vprintfmt()`; `strcpy`, `strcmp`, `strchr` and the
  other one-loop functions of `lib/string.c`.
* `read` and `utimens` of fisopfs, which copy bytes out and set times; an `fopen()` or
  `fwrite()` of `filedisk` that fails, which `fisopfs_destroy()` does not report; owners,
  modes and times.  The command line and the container of fisopfs.
* The redirections `exec_cmd()` opens and the variables it sets, what `cd` does
  to the prompt, `read_line()`, `free_command()`.
* The programs in `user/`, tests and demonstrations of calls that the models let
  any program make.

## 8. Plan

Done, in this order: kernel lock, kernel, library programs, abstract life,
memory, page IPC, fork, exception stack, fisopfs, shell, console, algorithms,
TLBs, start of the CPUs, trap frames, the Fork exercises, listings of fisopfs,
the proofs of section 5.  Next:

1. The redirections of a command in the processes of *ShellPipe*.
2. The rest of `lib/string.c` and the conversions `vprintfmt()` still lacks.
