------------------------------- MODULE StartUp -------------------------------
(***************************************************************************)
(* The address spaces, stacks and task states in which the kernel runs     *)
(* while it starts: kern/entry.S and kern/mpentry.S, i386_init(),          *)
(* mem_init(), boot_aps() and mp_main(), up to the first environment that  *)
(* runs on any CPU.  A CPU uses entry_pgdir, then kern_pgdir, then that of *)
(* an environment, and is nowhere to touch what the current one does not   *)
(* map.  Module Kernel has what the CPUs do afterwards, module Boot the    *)
(* details of page_init() and boot_map_region().                           *)
(*                                                                         *)
(* Memory is counted in pages, and what is of interest in it has one page. *)
(***************************************************************************)
EXTENDS Integers, SequencesExt

CONSTANTS NCPU,     \* entries of cpus[]
          bootcpu,  \* where the boot CPU is in the MP table, from 0
          PTSIZE    \* pages that a page table maps

ASSUME BootCpuAssumption == NCPU \in Nat \ {0} /\ bootcpu \in 0 .. NCPU - 1

\* The stacks have one page table, and below what the kernel takes of the
\* memory that entry_pgdir maps there is room for all page tables.
ASSUME SizeAssumption == PTSIZE \in Nat /\ PTSIZE >= 2 * NCPU /\ PTSIZE >= NCPU + 16

CpuIds == 0 .. NCPU - 1
Aps == CpuIds \ {bootcpu}

-----------------------------------------------------------------------------
(* inc/memlayout.h                                                         *)

npages == 2 * PTSIZE
KSTKSIZE == 1
KSTKGAP == 1
UENVS == PTSIZE
UPAGES == UENVS + PTSIZE
UVPT == UPAGES + PTSIZE
MMIOBASE == UVPT + PTSIZE
MMIOLIM == MMIOBASE + PTSIZE
KSTACKTOP == MMIOLIM + PTSIZE
KERNBASE == KSTACKTOP
Vas == 0 .. KERNBASE + npages - 1
PDX(va) == va \div PTSIZE
Pdxs == {PDX(va) : va \in Vas}
KADDR(pa) == KERNBASE + pa

kstacktop(i) == KSTACKTOP - i * (KSTKSIZE + KSTKGAP)

\* Physical memory; the kernel's image starts at EXTPHYSMEM.
MPENTRY_PADDR == 1
IOPHYSMEM == 3
EXTPHYSMEM == 5
Text == 5
bootstack == 6
percpu_kstacks(i) == 7 + i
kern_pgdir == 7 + NCPU
pages == kern_pgdir + 1
envs == pages + 1
lapicaddr == 100

NotPresent == [pa |-> -1, perm |-> {}]
NoPde == [kind |-> "none", pa |-> -1, perm |-> {}]
Large(pa, perm) == [kind |-> "large", pa |-> pa, perm |-> perm]
Table(pa) == [kind |-> "table", pa |-> pa, perm |-> {"W", "U"}]
Self == [kind |-> "self", pa |-> -1, perm |-> {"U"}]

\* kern/entrypgdir.c
entry_pgdir == [i \in Pdxs |-> CASE i = 0 -> Large(0, {})
                                 [] i = PDX(KERNBASE) -> Large(0, {"W"})
                                 [] OTHER -> NoPde]

-----------------------------------------------------------------------------
VARIABLES
    pse,             \* whether the kernel is built with TP1_PSE
    found,           \* CPUs in the MP table, or 0 without a table
    at,              \* where each CPU is
    cr3,             \* its page directory
    stack,           \* the page of its stack
    ts_esp0,         \* of each task state, the page below it
    tr,              \* the task state it has loaded
    cpu_status,
    memory,             \* kern_pgdir, the entries of its tables, page_free_list,
                     \* and base of mmio_map_region()
    lapic,           \* the page it is mapped at, or 0
    mpentry_kstack,
    env_pgdir,       \* of the environment, or kern_pgdir's until there is one
    kernel_lock      \* the CPU in the kernel, or -1

startVars == <<pse, found, at, cr3, stack, ts_esp0, tr, cpu_status, memory, lapic,
               mpentry_kstack, env_pgdir, kernel_lock>>
cpuState == <<stack, ts_esp0, tr>>

ncpu == IF found < NCPU THEN found ELSE NCPU

EmptyMemory == [dir |-> [i \in Pdxs |-> NoPde], pte |-> [va \in Vas |-> NotPresent], free |-> <<>>, base |-> MMIOBASE]

StartInit == /\ pse \in BOOLEAN /\ found \in {0} \cup bootcpu + 1 .. NCPU + 1
             /\ at = [c \in CpuIds |-> IF c = bootcpu THEN "entry" ELSE "off"]
             /\ cr3 = [c \in CpuIds |-> "off"]
             /\ stack = [c \in CpuIds |-> 0] /\ ts_esp0 = [c \in CpuIds |-> 0]
             /\ tr = [c \in CpuIds |-> -1]
             /\ cpu_status = [c \in CpuIds |-> "UNUSED"]
             /\ memory = EmptyMemory
             /\ lapic = 0 /\ mpentry_kstack = 0 /\ env_pgdir = EmptyMemory.dir
             /\ kernel_lock = -1

Moves(c, from, to) == at[c] = from /\ at' = [at EXCEPT ![c] = to]

-----------------------------------------------------------------------------
(* mem_init().                                                             *)

InUse(p) == p \in {0, MPENTRY_PADDR} \/ p \in IOPHYSMEM .. envs

\* What a list has of a set, in its order.
Among(list, S) ==
    LET kept[n \in 0 .. Len(list)] ==
            IF n = 0 THEN <<>> ELSE IF list[n] \in S THEN Append(kept[n - 1], list[n]) ELSE kept[n - 1]
    IN  kept[Len(list)]

page_init == Among([k \in 1 .. npages |-> npages - k], {p \in 0 .. npages - 1 : ~InUse(p)})

\* Mutant of LowFirst: the list stays as page_init() has left it.
LowFirstNot(list) == list

\* check_page_free_list(1): what entry_pgdir maps goes first.
LowFirst(list) == Among(list, 0 .. PTSIZE - 1) \o Among(list, PTSIZE .. npages - 1)

\* boot_map_region() of r = <<va, size, pa, perm>>, in large pages if it may.
\* pgdir_walk() gives each table that is absent the next free page.
Mapped(m, r) ==
    LET va == r[1]
        larges == IF pse /\ va % PTSIZE = 0 /\ r[3] % PTSIZE = 0 THEN r[2] \div PTSIZE ELSE 0
        small == va + larges * PTSIZE .. va + r[2] - 1
        absent == {i \in {PDX(v) : v \in small} : m.dir[i] = NoPde}
        nth(i) == Cardinality({j \in absent : j <= i})
    IN  [dir |-> [i \in Pdxs |-> CASE i \in PDX(va) .. PDX(va) + larges - 1 -> Large(r[3] + (i - PDX(va)) * PTSIZE, r[4])
                                   [] i \in absent -> Table(m.free[nth(i)])
                                   [] OTHER -> m.dir[i]],
         pte |-> [v \in Vas |-> IF v \in small THEN [pa |-> r[3] + v - va, perm |-> r[4]] ELSE m.pte[v]],
         free |-> SubSeq(m.free, Cardinality(absent) + 1, Len(m.free)),
         base |-> m.base]

mmio_map_region(m, pa, size) == [Mapped(m, <<m.base, size, pa, {"W"}>>) EXCEPT !.base = @ + size]

\* check_page() maps three pages of devices and clears the entries.
check_page(m) == [mmio_map_region(mmio_map_region(m, 0, 2), 0, 1) EXCEPT !.pte = m.pte]

mem_init_mp(m) ==
    LET after[n \in 0 .. NCPU] ==
            IF n = 0 THEN m
            ELSE Mapped(after[n - 1], <<kstacktop(n - 1) - KSTKSIZE, KSTKSIZE, percpu_kstacks(n - 1), {"W"}>>)
    IN  after[NCPU]

mem_init ==
    LET first == check_page([EmptyMemory EXCEPT !.dir[PDX(UVPT)] = Self, !.free = LowFirst(page_init)])
    IN  mem_init_mp(Mapped(Mapped(Mapped(first, <<UPAGES, 1, pages, {"U"}>>),
                                  <<UENVS, 1, envs, {"U"}>>),
                           <<KERNBASE, npages, 0, {"W"}>>))

MemInit(c) == /\ Moves(c, "init", "mapped")
              /\ memory' = mem_init
              /\ UNCHANGED <<pse, found, cr3, cpuState, cpu_status, lapic, mpentry_kstack, env_pgdir, kernel_lock>>

-----------------------------------------------------------------------------
(* The rest of the way of a CPU, with paging from entry_pgdir on.          *)

Paging(c, from, to) ==
    /\ Moves(c, from, to)
    /\ cr3' = [cr3 EXCEPT ![c] = "entry"]
    /\ UNCHANGED <<pse, found, cpuState, cpu_status, memory, lapic, mpentry_kstack, env_pgdir, kernel_lock>>

\* The jump to high addresses, on the stack that is there for it.
Relocated(c, from, to, page) ==
    /\ Moves(c, from, to)
    /\ stack' = [stack EXCEPT ![c] = page]
    /\ UNCHANGED <<pse, found, cr3, ts_esp0, tr, cpu_status, memory, lapic, mpentry_kstack, env_pgdir, kernel_lock>>

LoadKernPgdir(c, from, to) ==
    /\ Moves(c, from, to)
    /\ cr3' = [cr3 EXCEPT ![c] = "kern"]
    /\ UNCHANGED <<pse, found, cpuState, cpu_status, memory, lapic, mpentry_kstack, env_pgdir, kernel_lock>>

\* mp_init(), of which module Boot has the rest.
MpInit(c) == /\ Moves(c, "traps", "mp")
             /\ cpu_status' = IF found = 0 THEN cpu_status ELSE [cpu_status EXCEPT ![bootcpu] = "STARTED"]
             /\ UNCHANGED <<pse, found, cr3, cpuState, memory, lapic, mpentry_kstack, env_pgdir, kernel_lock>>

\* lapic_init(): each CPU maps the controller again, at a page of its own.
LapicInit(c, from, to) ==
    /\ Moves(c, from, to)
    /\ IF found = 0 THEN UNCHANGED <<memory, lapic>>
       ELSE /\ memory.base + 1 < MMIOLIM
            /\ memory' = mmio_map_region(memory, lapicaddr, 1)
            /\ lapic' = memory.base
    /\ UNCHANGED <<pse, found, cr3, cpuState, cpu_status, mpentry_kstack, env_pgdir, kernel_lock>>

cpunum(c) == IF lapic = 0 THEN 0 ELSE c

\* trap_init_percpu(); the boot CPU comes here before it has the controller.
TrapInitPercpu(c, from, to) ==
    /\ Moves(c, from, to)
    /\ ts_esp0' = [ts_esp0 EXCEPT ![cpunum(c)] = kstacktop(cpunum(c)) - 1]
    /\ tr' = [tr EXCEPT ![c] = cpunum(c)]
    /\ UNCHANGED <<pse, found, cr3, stack, cpu_status, memory, lapic, mpentry_kstack, env_pgdir, kernel_lock>>

Lock(c, from, to) ==
    /\ Moves(c, from, to) /\ kernel_lock = -1
    /\ kernel_lock' = c
    /\ UNCHANGED <<pse, found, cr3, cpuState, cpu_status, memory, lapic, mpentry_kstack, env_pgdir>>

Told(c) == /\ Moves(c, "told", "spin")
           /\ cpu_status' = [cpu_status EXCEPT ![c] = "STARTED"]
           /\ UNCHANGED <<pse, found, cr3, cpuState, memory, lapic, mpentry_kstack, env_pgdir, kernel_lock>>

-----------------------------------------------------------------------------
(* boot_aps() and what i386_init() does next.                              *)

Before(c) == \A d \in (0 .. c - 1) \ {bootcpu} : cpu_status[d] = "STARTED"

BootAp(c) ==
    /\ at[bootcpu] = "aps" /\ c < ncpu /\ Before(c)
    /\ Moves(c, "off", "mpentry")
    /\ mpentry_kstack' = KADDR(percpu_kstacks(c))
    /\ UNCHANGED <<pse, found, cr3, cpuState, cpu_status, memory, lapic, env_pgdir, kernel_lock>>

\* env_setup_vm() for ENV_CREATE.
EnvCreate == /\ Before(ncpu)
             /\ Moves(bootcpu, "aps", "sched")
             /\ env_pgdir' = [memory.dir EXCEPT ![PDX(UVPT)] = Self]
             /\ memory' = [memory EXCEPT !.free = Tail(@)]
             /\ UNCHANGED <<pse, found, cr3, cpuState, cpu_status, lapic, mpentry_kstack, kernel_lock>>

-----------------------------------------------------------------------------
(* Whether there is an environment for a CPU is what module Kernel says;   *)
(* here it may always run one, or halt if another CPU may be running one.  *)

EnvRun(c) == /\ Moves(c, "sched", "user")
             /\ cr3' = [cr3 EXCEPT ![c] = "env"]
             /\ kernel_lock' = -1
             /\ UNCHANGED <<pse, found, cpuState, cpu_status, memory, lapic, mpentry_kstack, env_pgdir>>

SchedHalt(c) == /\ ncpu > 1
                /\ Moves(c, "sched", "halted")
                /\ cr3' = [cr3 EXCEPT ![c] = "kern"]
                /\ cpu_status' = [cpu_status EXCEPT ![c] = "HALTED"]
                /\ stack' = [stack EXCEPT ![c] = ts_esp0[cpunum(c)]]
                /\ kernel_lock' = -1
                /\ UNCHANGED <<pse, found, ts_esp0, tr, memory, lapic, mpentry_kstack, env_pgdir>>

\* A trap of the environment, or the timer's, on the stack of the task state.
Trap(c) == /\ at[c] \in {"user", "halted"}
           /\ Moves(c, at[c], "spin")
           /\ stack' = [stack EXCEPT ![c] = ts_esp0[tr[c]]]
           /\ cpu_status' = [cpu_status EXCEPT ![c] = "STARTED"]
           /\ UNCHANGED <<pse, found, cr3, ts_esp0, tr, memory, lapic, mpentry_kstack, env_pgdir, kernel_lock>>

-----------------------------------------------------------------------------
\* entry.S and i386_init()
Boot == \/ Paging(bootcpu, "entry", "low")
        \/ Relocated(bootcpu, "low", "init", KADDR(bootstack))
        \/ MemInit(bootcpu)
        \/ LoadKernPgdir(bootcpu, "mapped", "mem")
        \/ TrapInitPercpu(bootcpu, "mem", "traps")
        \/ MpInit(bootcpu)
        \/ LapicInit(bootcpu, "mp", "locking")
        \/ Lock(bootcpu, "locking", "aps")
        \/ \E c \in Aps : BootAp(c)
        \/ EnvCreate

MpMain(c) == \/ LoadKernPgdir(c, "mp_main", "high")
             \/ LapicInit(c, "high", "lapic")
             \/ TrapInitPercpu(c, "lapic", "told")
             \/ Told(c)

\* mpentry.S
Mpentry(c) == \/ Paging(c, "mpentry", "mplow")
              \/ Relocated(c, "mplow", "mp_main", mpentry_kstack)

StartNext == \/ Boot
             \/ \E c \in Aps : Mpentry(c) \/ MpMain(c)
             \/ \E c \in CpuIds : Lock(c, "spin", "sched") \/ EnvRun(c) \/ SchedHalt(c) \/ Trap(c)

StartSpec == StartInit /\ [][StartNext]_startVars

-----------------------------------------------------------------------------
(* What the processor makes of an address.                                 *)

Directory(name) == CASE name = "entry" -> entry_pgdir [] name = "kern" -> memory.dir [] name = "env" -> env_pgdir

TranslatedBy(dir, va) ==
    LET pde == dir[PDX(va)]
    IN  CASE pde.kind = "large" -> [pa |-> pde.pa + (va % PTSIZE), perm |-> pde.perm]
          [] pde.kind = "table" -> memory.pte[va]
          [] OTHER -> NotPresent

OwnStack(c) == IF c = bootcpu /\ stack[c] = KADDR(bootstack) THEN bootstack ELSE percpu_kstacks(c)

\* What a CPU touches until its next step here, as <<address, page, right>>:
\* its code, its stack, the controller once it has been mapped and is asked
\* which CPU this is, and what the step before has written.
Touches(c) ==
    {CASE at[c] = "low" -> <<Text, Text, {}>>
       [] at[c] = "mplow" -> <<MPENTRY_PADDR, MPENTRY_PADDR, {}>>
       [] OTHER -> <<KADDR(Text), Text, {}>>}
    \cup (IF at[c] \in {"low", "mplow"} THEN {<<KADDR(Text), Text, {}>>}
                                        ELSE {<<stack[c], OwnStack(c), {"W"}>>})
    \cup (IF lapic = 0 \/ at[c] \in {"mplow", "mp_main"} THEN {} ELSE {<<lapic, lapicaddr, {"W"}>>})
    \cup (IF at[c] \in {"user", "halted"} THEN {<<ts_esp0[tr[c]], percpu_kstacks(c), {"W"}>>} ELSE {})
    \cup (CASE at[c] = "mapped" -> {<<KADDR(memory.dir[i].pa), memory.dir[i].pa, {"W"}>> :
                                       i \in {j \in Pdxs : memory.dir[j].kind = "table"}}
            [] at[c] = "mem" -> {<<KADDR(p), p, {"W"}>> : p \in ToSet(memory.free)}
            [] OTHER -> {})

\* No CPU faults on its way, and what it reaches is what it means: its own
\* stack, not another CPU's.
NobodyFaults ==
    \A c \in CpuIds : cr3[c] # "off" =>
        \A t \in Touches(c) : LET e == TranslatedBy(Directory(cr3[c]), t[1])
                              IN  e.pa = t[2] /\ t[3] \subseteq e.perm

\* Below each stack there is a page that nobody has, and no two CPUs have one
\* task state (kern/trap.c:121).
StacksApart == \A c \in CpuIds : tr[c] # -1 =>
                  /\ TranslatedBy(memory.dir, ts_esp0[tr[c]] - 1) = NotPresent
                  /\ \A d \in CpuIds : tr[c] = tr[d] => c = d

\* Environments have the memory above UTOP that the kernel has, whatever it
\* maps later; of it they may read pages[] and envs[], and write nothing.
KernelShared == env_pgdir # EmptyMemory.dir =>
    \A va \in Vas : va >= UENVS /\ PDX(va) # PDX(UVPT) =>
        LET e == TranslatedBy(env_pgdir, va)
        IN  /\ e = TranslatedBy(memory.dir, va)
            /\ "U" \in e.perm => "W" \notin e.perm /\ e.pa \in {pages, envs}

\* What mem_init() asserts of the page directory it has built, as long as the
\* kernel runs: each region is where it should be, no stack reaches the next,
\* and nothing else is mapped (check_kern_pgdir).
check_kern_pgdir ==
    LET pa(va) == TranslatedBy(memory.dir, va).pa
        sparse == {PDX(UVPT), PDX(KSTACKTOP - 1), PDX(UPAGES), PDX(UENVS), PDX(MMIOBASE)}
    IN  /\ pa(UPAGES) = pages /\ pa(UENVS) = envs
        /\ \A p \in 0 .. npages - 1 : pa(KADDR(p)) = p
        /\ \A c \in CpuIds : /\ pa(kstacktop(c) - 1) = percpu_kstacks(c)
                            /\ pa(kstacktop(c) - 2) = NotPresent.pa
        /\ \A i \in Pdxs : memory.dir[i] # NoPde <=> i \in sparse \/ i >= PDX(KERNBASE)

\* From the first instruction to the first environment every CPU runs on
\* mapped memory and on a stack of its own, whichever CPUs there are and
\* however they overtake one another (mem_init, mp_main, mpentry.S).
StartRight == /\ NobodyFaults /\ StacksApart /\ KernelShared
              /\ at[bootcpu] \notin {"entry", "low", "init"} => check_kern_pgdir
=============================================================================
