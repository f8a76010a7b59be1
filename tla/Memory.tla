-------------------------------- MODULE Memory --------------------------------
(***************************************************************************)
(* Physical pages and address spaces of the JOS kernel (kern/pmap.c, the   *)
(* memory part of kern/env.c and kern/syscall.c): reference counts, the    *)
(* free list, page tables allocated on demand, and the system calls that   *)
(* map pages, each of which may run out of memory half-way.                *)
(*                                                                         *)
(* A system call runs under the kernel lock (module Kernel), so it is one  *)
(* action.  An address is the number of a page below UTOP that is not      *)
(* page 0; the pages above UTOP are the kernel's and never counted.        *)
(*                                                                         *)
(* Programs call what they like, on themselves and on their children, but  *)
(* for two things that MapCall leaves out, for the counts would be wrong:  *)
(* they give sys_page_map() no bits of an address in perm, which it should *)
(* check (syscall.c:196-203, 260) and does not, and they map no page so    *)
(* often that pp_ref, of 16 bits, wraps.                                   *)
(***************************************************************************)
EXTENDS Naturals, Sequences, FiniteSets, SequencesExt

CONSTANTS Envs,        \* slots of envs[]
          Pages,       \* physical pages that page_init() puts on the free list
          NoPage,      \* a null struct PageInfo *, an absent entry
          NVas,        \* user virtual pages
          PerTable,    \* how many of them a page table covers
          RefLimit,    \* 2^16: pp_ref is a uint16_t
          NoEnv        \* no parent

\* There is memory for the first environment, or the kernel panics at boot.
ASSUME MemoryAssumption == /\ IsFiniteSet(Envs) /\ IsFiniteSet(Pages) /\ Pages # {}
                           /\ NVas \in Nat \ {0} /\ PerTable \in Nat \ {0}
                           /\ RefLimit \in Nat /\ RefLimit > 2
                           /\ NoPage \notin Pages /\ NoEnv \notin Envs

Vas == 1 .. NVas
TableOf(va) == (va - 1) \div PerTable      \* PDX(va)
Tables == {TableOf(va) : va \in Vas}
Absent == [page |-> NoPage, w |-> FALSE]
Ptes == {Absent} \cup [page : Pages, w : BOOLEAN]
Counts == 0 .. RefLimit - 1                \* values of pp_ref

VARIABLES
    m,         \* pages[], page_free_list and every page directory and table
    parent     \* the living environment whose id is e's env_parent_id, or NoEnv

vars == <<m, parent>>

Alive == {e \in Envs : m.env_pgdir[e] # NoPage}

-----------------------------------------------------------------------------
(* kern/pmap.c: what each function makes of the memory.                    *)

\* page_alloc(): the first free page leaves the list.
PageAlloc(n) == [n EXCEPT !.page_free_list = Tail(@)]

PageFree(n, p) == [n EXCEPT !.page_free_list = <<p>> \o @]

\* pp_ref++ and pp_ref--, which wrap.
PageIncref(n, p) == [n EXCEPT !.pp_ref[p] = IF @ + 1 = RefLimit THEN 0 ELSE @ + 1]
PageDecount(n, p) == [n EXCEPT !.pp_ref[p] = IF @ = 0 THEN RefLimit - 1 ELSE @ - 1]

\* Mutant of PageDecref: the page stays allocated.
PageDecrefKeeps(n, p) == PageDecount(n, p)

PageDecref(n, p) == LET d == PageDecount(n, p) IN
                    IF d.pp_ref[p] = 0 THEN PageFree(d, p) ELSE d

HasTable(n, e, va) == n.pde[e][TableOf(va)] # NoPage

\* pgdir_walk() with create: a missing page table is allocated if there is memory.
PgdirWalk(n, e, va) ==
    IF HasTable(n, e, va) \/ n.page_free_list = <<>> THEN n
    ELSE LET p == Head(n.page_free_list) IN
         [PageIncref(PageAlloc(n), p) EXCEPT !.pde[e][TableOf(va)] = p]

PageRemove(n, e, va) ==
    IF n.pte[e][va] = Absent THEN n
    ELSE [PageDecref(n, n.pte[e][va].page) EXCEPT !.pte[e][va] = Absent]

\* The argument perm: whether it has PTE_W, and the page that page2pa(p) | perm
\* is the address of, p itself unless perm has bits above the low 12.
PlainPerm(w) == [w |-> w, frame |-> [p \in Pages |-> p]]
Entry(p, perm) == [page |-> perm.frame[p], w |-> perm.w]

\* Mutant of PageInsert: the old page is removed before the new one is counted.
PageInsertRemovesFirst(n, e, p, va, perm) ==
    LET t == PgdirWalk(n, e, va) IN
    IF ~HasTable(t, e, va) THEN n
    ELSE [PageIncref(PageRemove(t, e, va), p) EXCEPT !.pte[e][va] = Entry(p, perm)]

\* page_insert(): on failure nothing has changed.
PageInsert(n, e, p, va, perm) ==
    LET t == PgdirWalk(n, e, va) IN
    IF ~HasTable(t, e, va) THEN n
    ELSE [PageRemove(PageIncref(t, p), e, va) EXCEPT !.pte[e][va] = Entry(p, perm)]

-----------------------------------------------------------------------------
(* kern/env.c.                                                             *)

\* env_setup_vm(): the page directory.
EnvSetupVm(n, e) == LET p == Head(n.page_free_list) IN
                    [PageIncref(PageAlloc(n), p) EXCEPT !.env_pgdir[e] = p]

LastOfTable(va) == \A vb \in Vas : vb > va => TableOf(vb) # TableOf(va)

\* One address in the loops of env_free(): what it maps, and after the last
\* one of a page table the table.
FreeVa(n, e, va) ==
    LET unmapped == PageRemove(n, e, va) IN
    IF HasTable(n, e, va) /\ LastOfTable(va)
    THEN PageDecref([unmapped EXCEPT !.pde[e][TableOf(va)] = NoPage], n.pde[e][TableOf(va)])
    ELSE unmapped

\* The memory env_free() gives back: pages and tables, then the directory.
EnvFreeVm(n, e) ==
    LET freed[va \in 0 .. NVas] == IF va = 0 THEN n ELSE FreeVa(freed[va - 1], e, va)
    IN  PageDecref([freed[NVas] EXCEPT !.env_pgdir[e] = NoPage], n.env_pgdir[e])

-----------------------------------------------------------------------------
(* Boot, and the environments that system calls create and free.           *)

\* The first environment of i386_init(), in which these addresses are unused.
Init == \E free \in SetToSeqs(Pages), first \in Envs :
    /\ m = EnvSetupVm([pp_ref |-> [p \in Pages |-> 0],
                       page_free_list |-> free,
                       env_pgdir |-> [e \in Envs |-> NoPage],
                       pde |-> [e \in Envs |-> [t \in Tables |-> NoPage]],
                       pte |-> [e \in Envs |-> [va \in Vas |-> Absent]]], first)
    /\ parent = [e \in Envs |-> NoEnv]

\* envid2env(..., 1): e itself and its children.
Mine(e) == {f \in Alive : f = e \/ parent[f] = e}

\* sys_exofork() with memory for the directory; without, nothing happens.
SysExofork(e, child) ==
    /\ e \in Alive /\ child \notin Alive
    /\ m.page_free_list # <<>>
    /\ m' = EnvSetupVm(m, child)
    /\ parent' = [parent EXCEPT ![child] = e]

\* env_free(): e exits, faults, or is killed, whatever it is doing.  Its
\* children's env_parent_id names nobody from now on.
EnvFree(e) ==
    /\ e \in Alive
    /\ m' = EnvFreeVm(m, e)
    /\ parent' = [f \in Envs |-> IF f = e \/ parent[f] = e THEN NoEnv ELSE parent[f]]

-----------------------------------------------------------------------------
(* kern/syscall.c.                                                         *)

\* env_page_alloc(), with a perm that check_perm() accepts: a page that
\* page_insert() cannot map is lost.
EnvPageAlloc(n, e, va, w) ==
    IF n.page_free_list = <<>> THEN n
    ELSE PageInsert(PageAlloc(n), e, Head(n.page_free_list), va, PlainPerm(w))

\* Whether it succeeds: memory for the page and, if missing, for the table.
RoomFor(n, e, va) == Len(n.page_free_list) >= IF HasTable(n, e, va) THEN 1 ELSE 2

\* Mutant of MayMap: a read-only page may be mapped writable.
MayMapAnything(pte, w) == pte # Absent

\* env_page_map(): a page is there, and no write access is gained.
MayMap(pte, w) == pte # Absent /\ (w => pte.w)

SysPageAlloc(e, f, va, w) ==
    /\ e \in Alive /\ f \in Mine(e)
    /\ m' = EnvPageAlloc(m, f, va, w)
    /\ UNCHANGED parent

\* perm is what the program says: check_perm() is not called.
SysPageMap(e, f, srcva, g, va, perm) ==
    /\ e \in Alive /\ {f, g} \subseteq Mine(e)
    /\ MayMap(m.pte[f][srcva], perm.w)
    /\ m' = PageInsert(m, g, m.pte[f][srcva].page, va, perm)
    /\ UNCHANGED parent

SysPageUnmap(e, f, va) ==
    /\ e \in Alive /\ f \in Mine(e)
    /\ m' = PageRemove(m, f, va)
    /\ UNCHANGED parent

\* The count of page p does not wrap if it is mapped once more.
Countable(n, p) == n.pp_ref[p] + 1 < RefLimit

\* What programs call: sys_page_map() with a perm as it is documented, and not
\* on a page that is mapped 2^16 - 1 times.
MapCall(e) ==
    \/ \E f \in Envs, va \in Vas, w \in BOOLEAN : SysPageAlloc(e, f, va, w)
    \/ \E f, g \in Envs, srcva, va \in Vas, w \in BOOLEAN :
          SysPageMap(e, f, srcva, g, va, PlainPerm(w)) /\ Countable(m, m.pte[f][srcva].page)
    \/ \E f \in Envs, va \in Vas : SysPageUnmap(e, f, va)

Next == \E e \in Envs : \/ MapCall(e) \/ EnvFree(e)
                        \/ \E child \in Envs : SysExofork(e, child)

Spec == Init /\ [][Next]_vars

-----------------------------------------------------------------------------
TypeOK == /\ m \in [pp_ref : [Pages -> Counts], page_free_list : Seq(Pages),
                    env_pgdir : [Envs -> Pages \cup {NoPage}],
                    pde : [Envs -> [Tables -> Pages \cup {NoPage}]],
                    pte : [Envs -> [Vas -> Ptes]]]
          /\ parent \in [Envs -> Envs \cup {NoEnv}]

\* Where page p is used: as a directory, as a table, or mapped.
Directories(p) == {e \in Envs : m.env_pgdir[e] = p}
TablesIn(p) == {x \in Envs \X Tables : m.pde[x[1]][x[2]] = p}
Mappings(p) == {x \in Envs \X Vas : m.pte[x[1]][x[2]].page = p}

\* pp_ref counts exactly the directories, tables and mappings a page is used
\* for, whatever calls have failed half-way (page_insert, page_remove,
\* env_setup_vm, env_free).
RefCountsRight == \A p \in Pages :
    m.pp_ref[p] = Cardinality(Directories(p)) + Cardinality(TablesIn(p)) + Cardinality(Mappings(p))

\* A page on the free list is there once and nobody uses it (page_decref and
\* page_alloc), so that what is allocated next is nobody else's memory.
FreeMeansUnused == \A i \in DOMAIN m.page_free_list :
    /\ m.pp_ref[m.page_free_list[i]] = 0
    /\ \A j \in DOMAIN m.page_free_list : m.page_free_list[i] = m.page_free_list[j] => i = j

\* A page table or directory is one of one environment only, and never mapped
\* for a user: programs do not write page tables, environments do not share them.
TablesPrivate == \A p \in Pages :
    Directories(p) # {} \/ TablesIn(p) # {} =>
        m.pp_ref[p] = 1 /\ Mappings(p) = {}

\* Memory is only mapped under a table of the environment, and a freed
\* environment has neither (env_free clears the directory entries it frees).
MappedUnderTable == \A e \in Envs, va \in Vas :
    /\ m.pte[e][va] # Absent => HasTable(m, e, va)
    /\ HasTable(m, e, va) => e \in Alive

\* Nobody gains write access by what perm says: a page that everyone maps
\* read-only stays so until it is freed (sys_page_map and sys_ipc_try_send check
\* the source).  With bits of an address in perm sys_page_map() can map any
\* page writable; see MapCall.
Writers(p) == {x \in Mappings(p) : m.pte[x[1]][x[2]].w}
NoWriteGained == [][\A p \in Pages :
    Mappings(p) # {} /\ Writers(p) = {} => Writers(p)' = {}]_vars

\* A page that is neither free nor used is lost; one is lost only by a call
\* that takes the last free page and finds none for the page table it needs
\* (env_page_alloc), never by unmapping, freeing or a failed map.
Lost == {p \in Pages : m.pp_ref[p] = 0 /\ p \notin Range(m.page_free_list)}
LostOnlyForLackOfTable == [][Lost' # Lost =>
    /\ Len(m.page_free_list) = 1
    /\ m'.page_free_list = <<>>
    /\ Lost' = Lost \cup Range(m.page_free_list)]_vars
=============================================================================
