---------------------------------- MODULE Boot ----------------------------------
(***************************************************************************)
(* What the kernel computes while it starts, on one CPU, before anything   *)
(* runs at the same time, as functions: which physical pages are free      *)
(* (boot_alloc, page_init), what the kernel's page directory maps          *)
(* (boot_map_region), what a program's memory holds (load_icode), which    *)
(* ranges a program may pass to the kernel (user_mem_check), and how many  *)
(* CPUs there are (mp_init).  A page has PGSIZE bytes, an address Width of *)
(* them, and a large page LPGSIZE pages.                                   *)
(***************************************************************************)
EXTENDS Integers, SequencesExt

CONSTANTS NCPU,     \* entries of cpus[]
          PGSIZE,
          PAGES,    \* of an address space
          LPGSIZE,  \* pages
          UTOP, USTACKTOP

Width == PGSIZE * PAGES   \* addresses

PGNUM(a) == a \div PGSIZE
ROUNDDOWN(a) == PGNUM(a) * PGSIZE
ROUNDUP(a) == ROUNDDOWN((a + PGSIZE - 1) % Width)

-----------------------------------------------------------------------------
(* Physical pages.  m is [npages, mpentry, io, ext, end]: how many, the    *)
(* page of MPENTRY_PADDR, those at which the I/O hole starts and ends, and *)
(* the first address after the kernel.  Addresses do not wrap here.        *)

UP(a) == PGNUM(a + PGSIZE - 1) * PGSIZE
OutOfMemory == -1

\* boot_alloc(): nextfree after it, or it panics; the result is nextfree.
boot_alloc(m, nextfree, n) == IF nextfree + n >= PGSIZE * m.npages THEN OutOfMemory ELSE UP(nextfree + n)

\* One chunk of n bytes; nothing follows a panic.
Allotted(m, r, n) ==
    IF r.nextfree = OutOfMemory THEN r
    ELSE [chunks |-> Append(r.chunks, <<r.nextfree, n>>), nextfree |-> boot_alloc(m, r.nextfree, n)]

\* The chunks of mem_init(), and nextfree after the last.
BootAllocs(m, sizes) ==
    LET after[k \in 0 .. Len(sizes)] ==
            IF k = 0 THEN [chunks |-> <<>>, nextfree |-> UP(m.end)] ELSE Allotted(m, after[k - 1], sizes[k])
    IN  after[Len(sizes)]

InUse(m, nextfree, i) == i = 0 \/ i = m.mpentry \/ i \in m.io .. m.ext - 1 \/ i \in m.ext .. PGNUM(nextfree) - 1
Pushed(m, nextfree, list, i) == IF InUse(m, nextfree, i) THEN list ELSE <<i>> \o list

\* page_init(): the free list, the page put last first.
page_init(m, nextfree) ==
    LET list[n \in 0 .. m.npages] == IF n = 0 THEN <<>> ELSE Pushed(m, nextfree, list[n - 1], n - 1)
    IN  list[m.npages]

\* Unless memory runs out, no byte of the kernel, of the hole or of a chunk is
\* on a free page, no two chunks overlap, and every other page is free once.
PagesAccounted(m, sizes) ==
    LET boot == BootAllocs(m, sizes)
        free == page_init(m, boot.nextfree)
        bytes(c) == c[1] .. c[1] + c[2] - 1
        taken == (m.ext * PGSIZE .. m.end - 1) \cup UNION {bytes(boot.chunks[k]) : k \in DOMAIN boot.chunks}
    IN  boot.nextfree # OutOfMemory =>
            /\ \A j, k \in DOMAIN boot.chunks : j # k => bytes(boot.chunks[j]) \cap bytes(boot.chunks[k]) = {}
            /\ \A k \in DOMAIN boot.chunks : boot.chunks[k][1] % PGSIZE = 0 /\ bytes(boot.chunks[k]) \cap 0 .. m.end - 1 = {}
            /\ \A j, k \in DOMAIN free : free[j] = free[k] => j = k
            /\ ToSet(free) = {i \in 1 .. m.npages - 1 : /\ i # m.mpentry /\ i \notin m.io .. m.ext - 1
                                                        /\ i \notin {PGNUM(a) : a \in taken}}

-----------------------------------------------------------------------------
(* The kernel's page directory, in pages: an entry of it maps a large page *)
(* or is a table.                                                          *)

NoPage == -1
EmptyDirectory == [large |-> [d \in 0 .. (PAGES \div LPGSIZE) - 1 |-> NoPage], small |-> [v \in 0 .. PAGES - 1 |-> NoPage]]

\* Mutant of MayBeLarge: a large page may start anywhere in physical memory.
MayBeLargeAnywhere(va, size, pa) == va % LPGSIZE = 0 /\ size >= LPGSIZE

MayBeLarge(va, size, pa) == va % LPGSIZE = 0 /\ size >= LPGSIZE /\ pa % LPGSIZE = 0

\* boot_map_region(), large pages first: after one of them va and pa are
\* multiples as they were, so there are more while a whole one is left.
boot_map_region(dir, va, size, pa) ==
    LET larges == IF MayBeLarge(va, size, pa) THEN size \div LPGSIZE ELSE 0
        first == va \div LPGSIZE
        rest == va + larges * LPGSIZE .. va + size - 1
    IN  [large |-> [d \in DOMAIN dir.large |->
                       IF d \in first .. first + larges - 1 THEN pa + (d - first) * LPGSIZE ELSE dir.large[d]],
         small |-> [v \in DOMAIN dir.small |-> IF v \in rest THEN pa + v - va ELSE dir.small[v]]]

\* What the processor makes of it: the low bits of a large page are not kept.
Translated(dir, va) ==
    LET large == dir.large[va \div LPGSIZE]
    IN  IF large = NoPage THEN dir.small[va] ELSE large - (large % LPGSIZE) + (va % LPGSIZE)

RegionMapped(va, size, pa) ==
    \A v \in 0 .. PAGES - 1 : Translated(boot_map_region(EmptyDirectory, va, size, pa), v) =
                                  IF v \in va .. va + size - 1 THEN pa + v - va ELSE NoPage

-----------------------------------------------------------------------------
(* Programs.  ptes is the set of permissions of each page that is mapped.  *)

Fine == -1

\* user_mem_check(): the address at which it fails, or Fine.
user_mem_check(ptes, va, len, perm) ==
    LET hi == ROUNDUP((va + len) % Width)
        bad == {p \in PGNUM(va) .. PGNUM(hi) - 1 : ~ (p \in DOMAIN ptes /\ perm \subseteq ptes[p])}
    IN  CASE hi > UTOP -> va
          [] hi <= UTOP /\ bad # {} -> IF PGSIZE * Min(bad) > va THEN PGSIZE * Min(bad) ELSE va
          [] OTHER -> Fine

\* A range that does not wrap is accepted if and only if every byte of it is
\* below UTOP and permitted; the address reported of one that ends at or below
\* UTOP is its first byte that is not.  pmap.c:637-638 says so of every range,
\* and pmap.c:633-634 that the limit is ULIM; of a range that goes over UTOP the
\* code reports va, be it permitted or not (pmap.c:649-651).
RangeChecked(ptes, va, len, perm) ==
    LET permitted(a) == PGNUM(a) \in DOMAIN ptes /\ perm \subseteq ptes[PGNUM(a)]
        denied == {a \in va .. va + len - 1 : a >= UTOP \/ ~ permitted(a)}
        reported == user_mem_check(ptes, va, len, perm)
    IN  len > 0 /\ va + len <= Width - PGSIZE =>
            /\ reported = Fine <=> denied = {}
            /\ va + len <= UTOP /\ denied # {} => reported = Min(denied)

Junk == "junk"   \* page_alloc(!ALLOC_ZERO)
PagesOf(va, len) == PGNUM(va) .. PGNUM(ROUNDUP(va + len)) - 1
region_alloc(mem, va, len) ==
    [a \in DOMAIN mem \cup {b \in 0 .. Width - 1 : PGNUM(b) \in PagesOf(va, len)} |->
        IF PGNUM(a) \in PagesOf(va, len) THEN Junk ELSE mem[a]]

\* One program header: [load, va, memsz, file].
Loaded(mem, s) ==
    IF ~ s.load THEN mem
    ELSE [a \in DOMAIN region_alloc(mem, s.va, s.memsz) |->
            CASE a \in s.va .. s.va + Len(s.file) - 1 -> s.file[a - s.va + 1]
              [] a \in s.va + Len(s.file) .. s.va + s.memsz - 1 -> "0"
              [] OTHER -> region_alloc(mem, s.va, s.memsz)[a]]

load_icode(segments) ==
    LET mem[k \in 0 .. Len(segments)] == IF k = 0 THEN <<>> ELSE Loaded(mem[k - 1], segments[k])
    IN  region_alloc(mem[Len(segments)], USTACKTOP - PGSIZE, PGSIZE)

\* When no two segments share a page, and none the stack's, each byte of each
\* is the file's or zero, and only their pages and the stack are mapped.
ProgramLoaded(segments) ==
    LET loaded == {segments[k] : k \in {j \in DOMAIN segments : segments[j].load}}
        pages(s) == PagesOf(s.va, s.memsz)
        stack == PGNUM(USTACKTOP) - 1
        apart == /\ \A s \in loaded : stack \notin pages(s)
                 /\ \A j, k \in DOMAIN segments :
                       j # k /\ {segments[j], segments[k]} \subseteq loaded => pages(segments[j]) \cap pages(segments[k]) = {}
    IN  apart => /\ {PGNUM(a) : a \in DOMAIN load_icode(segments)} = {stack} \cup UNION {pages(s) : s \in loaded}
                 /\ \A s \in loaded : \A n \in 1 .. s.memsz :
                       load_icode(segments)[s.va + n - 1] = IF n <= Len(s.file) THEN s.file[n] ELSE "0"

-----------------------------------------------------------------------------
(* The table of CPUs: its entries are "boot", "cpu", "other" and "unknown". *)

NoCpus == [ncpu |-> 0, bootcpu |-> 0, ismp |-> TRUE]

\* One entry, of which nothing counts after one that is unknown.
Found(r, e) ==
    CASE ~ r.ismp \/ e = "other" -> r
      [] r.ismp /\ e = "unknown" -> [r EXCEPT !.ismp = FALSE]
      [] OTHER -> [r EXCEPT !.ncpu = IF @ < NCPU THEN @ + 1 ELSE @,
                            !.bootcpu = IF e = "boot" THEN r.ncpu ELSE @]

mp_init(entries) ==
    LET after[k \in 0 .. Len(entries)] == IF k = 0 THEN NoCpus ELSE Found(after[k - 1], entries[k])
        r == after[Len(entries)]
    IN  IF r.ismp THEN r ELSE [r EXCEPT !.ncpu = 1]

\* As long as the boot CPU is among the first NCPU, it is the one in cpus[]
\* that is marked as started, and boot_aps() has all the others to start.
CpusFound(entries) ==
    LET cpus == {k \in DOMAIN entries : entries[k] \in {"boot", "cpu"}}
        before(k) == Cardinality({j \in cpus : j < k})
        r == mp_init(entries)
    IN  \A b \in cpus :
            "unknown" \notin ToSet(entries) /\ {k \in cpus : entries[k] = "boot"} = {b} /\ before(b) < NCPU =>
                r.ncpu = Min({Cardinality(cpus), NCPU}) /\ r.bootcpu = before(b)
=============================================================================
