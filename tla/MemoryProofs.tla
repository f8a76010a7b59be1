----------------------------- MODULE MemoryProofs ------------------------------
(***************************************************************************)
(* Proofs about physical pages, page tables, pages sent by IPC and what    *)
(* the TLBs cache of them: every page is accounted for, nobody gains write *)
(* access, and no CPU uses a freed page directory, for any number of       *)
(* environments, pages, addresses and CPUs, under the conditions that      *)
(* Memory (MapCall) and Tlb (DestroyChild) put on the programs.            *)
(***************************************************************************)
EXTENDS Tlb, FiniteSetTheorems, SequenceTheorems, TLAPS

-----------------------------------------------------------------------------
(* Numbers, sets and sequences.                                            *)

\* A set of natural numbers that is not empty has a least one.
LEMMA LeastExists ==
    ASSUME NEW S, S \subseteq Nat, S # {}
    PROVE  \E i \in S : \A j \in S : i <= j
<1>1. PICK s \in S : TRUE
  OBVIOUS
<1> DEFINE R == StrictSubsetOrdering(0 .. s)
           T == {0 .. k : k \in S \cap (0 .. s)}
<1>2. IsWellFoundedOn(R, FiniteSubsetsOf(0 .. s))
  BY FS_StrictSubsetOrderingWellFounded
<1>3. T \subseteq FiniteSubsetsOf(0 .. s) /\ T # {}
  <2>1. \A k \in S \cap (0 .. s) : IsFiniteSet(0 .. k) /\ 0 .. k \subseteq 0 .. s
    BY FS_Interval
  <2> QED
    BY <1>1, <2>1 DEF FiniteSubsetsOf
<1>4. PICK x \in T : \A y \in T : <<y, x>> \notin R
  <2> HIDE DEF R, T
  <2> QED BY <1>2, <1>3, WFMin
<1>5. PICK k \in S \cap (0 .. s) : x = 0 .. k
  OBVIOUS
<1>6. ASSUME NEW j \in S, j < k PROVE FALSE
  <2>1. 0 .. j \in T /\ 0 .. j \subseteq 0 .. k /\ 0 .. k \subseteq 0 .. s
    BY <1>5, <1>6
  <2>2. 0 .. j # 0 .. k
    <3>1. k \in 0 .. k /\ k \notin 0 .. j
      BY <1>5, <1>6
    <3> QED BY <3>1
  <2>3. <<0 .. j, 0 .. k>> \in R
    BY <2>1, <2>2 DEF StrictSubsetOrdering
  <2> QED
    BY <1>4, <1>5, <2>1, <2>3
<1> QED
  BY <1>5, <1>6

\* A set of numbers up to k that is not empty has a greatest one.
LEMMA GreatestExists ==
    ASSUME NEW k \in Nat, NEW S, S \subseteq 0 .. k, S # {}
    PROVE  \E i \in S : \A j \in S : j <= i
<1> DEFINE T == {k - i : i \in S}
<1>1. T \subseteq Nat /\ T # {}
  OBVIOUS
<1>2. PICK x \in T : \A y \in T : x <= y
  <2> HIDE DEF T
  <2> QED
    BY <1>1, LeastExists
<1>3. PICK i \in S : x = k - i
  OBVIOUS
<1>4. ASSUME NEW j \in S PROVE j <= i
  <2>1. k - i <= k - j
    BY <1>2, <1>3
  <2> QED
    BY <2>1
<1> QED
  BY <1>4

LEMMA TablesFinite == IsFiniteSet(Tables) /\ IsFiniteSet(Vas) /\ Vas = 1 .. NVas
<1>1. IsFiniteSet(Vas)
  BY MemoryAssumption, FS_Interval DEF Vas
<1> DEFINE f == [va \in Vas |-> TableOf(va)]
<1>2. f \in Surjection(Vas, Tables)
  BY DEF Surjection, Tables
<1> QED
  BY <1>1, <1>2, FS_Surjection DEF Vas

\* No element twice.
Once(s) == \A i, j \in DOMAIN s : s[i] = s[j] => i = j

\* The free list after page_alloc() and after page_free().
LEMMA TailFacts ==
    ASSUME NEW s \in Seq(Pages), s # <<>>
    PROVE  /\ Head(s) \in Pages /\ Tail(s) \in Seq(Pages)
           /\ Len(s) \in Nat \ {0} /\ Len(Tail(s)) = Len(s) - 1
           /\ Range(s) = Range(Tail(s)) \cup {Head(s)}
           /\ Once(s) => Once(Tail(s)) /\ Head(s) \notin Range(Tail(s))
<1> DEFINE t == Tail(s)
<1>1. Len(s) \in Nat \ {0} /\ DOMAIN s = 1 .. Len(s)
  BY EmptySeq
<1>2. t \in Seq(Pages) /\ Len(t) = Len(s) - 1 /\ Head(s) \in Pages /\ Head(s) = s[1]
  BY HeadTailProperties
<1>3. DOMAIN t = 1 .. Len(s) - 1 /\ \A i \in 1 .. Len(s) - 1 : t[i] = s[i + 1]
  BY <1>1, <1>2, HeadTailProperties
<1> HIDE DEF t
<1>4. ASSUME NEW i \in DOMAIN s PROVE s[i] \in Range(t) \cup {s[1]}
  <2>1. CASE i = 1
    BY <2>1
  <2>2. CASE i # 1
    <3>1. i - 1 \in DOMAIN t /\ t[i - 1] = s[i]
      BY <1>1, <1>3, <2>2
    <3> QED
      BY <3>1 DEF Range
  <2> QED
    BY <2>1, <2>2
<1>5. ASSUME NEW i \in DOMAIN t PROVE i + 1 \in DOMAIN s /\ t[i] = s[i + 1] /\ t[i] \in Range(s)
  <2>1. i + 1 \in DOMAIN s /\ t[i] = s[i + 1]
    BY <1>1, <1>3
  <2> QED
    BY <2>1 DEF Range
<1>6. s[1] \in Range(s)
  BY <1>1 DEF Range
<1>7. Range(s) = Range(t) \cup {s[1]}
  BY <1>4, <1>5, <1>6 DEF Range
<1>8. ASSUME Once(s) PROVE Once(t)
  <2> SUFFICES ASSUME NEW i \in DOMAIN t, NEW j \in DOMAIN t, t[i] = t[j] PROVE i = j
    BY DEF Once
  <2>1. i + 1 = j + 1
    BY <1>5, <1>8 DEF Once
  <2> QED
    BY <1>3, <2>1
<1>9. ASSUME Once(s), s[1] \in Range(t) PROVE FALSE
  <2>1. PICK i \in DOMAIN t : t[i] = s[1]
    BY <1>9 DEF Range
  <2>2. i + 1 = 1
    BY <1>1, <1>5, <1>9, <2>1 DEF Once
  <2> QED
    BY <1>3, <2>2
<1> QED
  BY <1>1, <1>2, <1>7, <1>8, <1>9 DEF t

LEMMA ConsFacts ==
    ASSUME NEW s \in Seq(Pages), NEW p \in Pages
    PROVE  /\ <<p>> \o s \in Seq(Pages) /\ Len(<<p>> \o s) = Len(s) + 1 /\ Len(s) \in Nat
           /\ Range(<<p>> \o s) = Range(s) \cup {p}
           /\ Once(s) /\ p \notin Range(s) => Once(<<p>> \o s)
<1> DEFINE t == <<p>> \o s
<1>1. /\ t \in Seq(Pages) /\ Len(t) = Len(s) + 1 /\ Len(s) \in Nat
      /\ DOMAIN t = 1 .. Len(s) + 1 /\ DOMAIN s = 1 .. Len(s)
      /\ t[1] = p /\ \A i \in 2 .. Len(s) + 1 : t[i] = s[i - 1]
  OBVIOUS
<1> HIDE DEF t
<1>2. ASSUME NEW i \in DOMAIN t, i # 1 PROVE i - 1 \in DOMAIN s /\ t[i] = s[i - 1] /\ t[i] \in Range(s)
  <2>1. i - 1 \in DOMAIN s /\ t[i] = s[i - 1]
    BY <1>1, <1>2
  <2> QED
    BY <2>1 DEF Range
<1>3. ASSUME NEW i \in DOMAIN s PROVE s[i] \in Range(t)
  <2>1. i + 1 \in DOMAIN t /\ t[i + 1] = s[i]
    BY <1>1
  <2> QED
    BY <2>1 DEF Range
<1>4. p \in Range(t)
  BY <1>1 DEF Range
<1>5. Range(t) = Range(s) \cup {p}
  BY <1>1, <1>2, <1>3, <1>4 DEF Range
<1>6. ASSUME Once(s), p \notin Range(s), NEW i \in DOMAIN t, NEW j \in DOMAIN t, t[i] = t[j]
      PROVE  i = j
  <2>1. CASE i # 1 /\ j # 1
    <3>1. i - 1 = j - 1
      BY <1>2, <1>6, <2>1 DEF Once
    <3> QED
      BY <1>1, <3>1
  <2>2. CASE i = 1 \/ j = 1
    BY <1>1, <1>2, <1>6, <2>2
  <2> QED
    BY <2>1, <2>2
<1> QED
  BY <1>1, <1>5, <1>6 DEF Once, t

-----------------------------------------------------------------------------
(* The invariant, of any memory n that a call goes through.  The kernel may *)
(* hold a reference to page h that no table has yet.                       *)

Memories == [pp_ref : [Pages -> Counts], page_free_list : Seq(Pages),
             env_pgdir : [Envs -> Pages \cup {NoPage}],
             pde : [Envs -> [Tables -> Pages \cup {NoPage}]],
             pte : [Envs -> [Vas -> Ptes]]]

DirsOf(n, p) == {e \in Envs : n.env_pgdir[e] = p}
TabsOf(n, p) == {x \in Envs \X Tables : n.pde[x[1]][x[2]] = p}
MapsOf(n, p) == {x \in Envs \X Vas : n.pte[x[1]][x[2]].page = p}
UsesOf(n, p) == Cardinality(DirsOf(n, p)) + Cardinality(TabsOf(n, p)) + Cardinality(MapsOf(n, p))
FreeOf(n) == Range(n.page_free_list)
LostOf(n) == {p \in Pages : n.pp_ref[p] = 0 /\ p \notin FreeOf(n)}

Counted(n, h) == \A p \in Pages : n.pp_ref[p] = UsesOf(n, p) + IF p = h THEN 1 ELSE 0
FreeUnused(n) == Once(n.page_free_list) /\ \A p \in FreeOf(n) : n.pp_ref[p] = 0
PrivateTables(n) == \A p \in Pages :
    DirsOf(n, p) # {} \/ TabsOf(n, p) # {} => n.pp_ref[p] = 1 /\ MapsOf(n, p) = {}
UnderTable(n) == \A e \in Envs, va \in Vas :
    /\ n.pte[e][va] # Absent => HasTable(n, e, va)
    /\ HasTable(n, e, va) => n.env_pgdir[e] # NoPage

Sound(n, h) == n \in Memories /\ Counted(n, h) /\ FreeUnused(n) /\ PrivateTables(n) /\ UnderTable(n)

\* A count is a number, and one less or, if it does not wrap, one more is a count.
LEMMA CountsFacts ==
    /\ 0 \in Counts /\ Counts \subseteq Nat
    /\ \A i \in Counts : i > 0 => i - 1 \in Counts
    /\ \A i \in Counts : i + 1 < RefLimit => i + 1 \in Counts /\ i + 1 # RefLimit
BY MemoryAssumption DEF Counts

LEMMA UsesFinite ==
    ASSUME NEW n, NEW p
    PROVE  /\ IsFiniteSet(DirsOf(n, p)) /\ Cardinality(DirsOf(n, p)) \in Nat
           /\ IsFiniteSet(TabsOf(n, p)) /\ Cardinality(TabsOf(n, p)) \in Nat
           /\ IsFiniteSet(MapsOf(n, p)) /\ Cardinality(MapsOf(n, p)) \in Nat
           /\ UsesOf(n, p) \in Nat
           /\ UsesOf(n, p) = 0 => DirsOf(n, p) = {} /\ TabsOf(n, p) = {} /\ MapsOf(n, p) = {}
<1>1. IsFiniteSet(Envs \X Tables) /\ IsFiniteSet(Envs \X Vas)
  BY TablesFinite, MemoryAssumption, FS_Product
<1>2. IsFiniteSet(DirsOf(n, p)) /\ IsFiniteSet(TabsOf(n, p)) /\ IsFiniteSet(MapsOf(n, p))
  <2>1. DirsOf(n, p) \in SUBSET Envs
    BY DEF DirsOf
  <2>2. TabsOf(n, p) \in SUBSET (Envs \X Tables)
    BY DEF TabsOf
  <2>3. MapsOf(n, p) \in SUBSET (Envs \X Vas)
    BY DEF MapsOf
  <2> QED
    BY <1>1, <2>1, <2>2, <2>3, MemoryAssumption, FS_Subset
<1>3. /\ Cardinality(DirsOf(n, p)) \in Nat /\ Cardinality(TabsOf(n, p)) \in Nat
      /\ Cardinality(MapsOf(n, p)) \in Nat
  BY <1>2, FS_CardinalityType
<1>4. UsesOf(n, p) = 0 => /\ Cardinality(DirsOf(n, p)) = 0 /\ Cardinality(TabsOf(n, p)) = 0
                         /\ Cardinality(MapsOf(n, p)) = 0
  BY <1>3 DEF UsesOf
<1>5. UsesOf(n, p) = 0 => DirsOf(n, p) = {} /\ TabsOf(n, p) = {} /\ MapsOf(n, p) = {}
  BY <1>2, <1>4, FS_EmptySet
<1> QED
  BY <1>2, <1>3, <1>5 DEF UsesOf

\* A page on the free list, and a lost one, is used nowhere.
LEMMA UnusedFacts ==
    ASSUME NEW n, NEW h, Sound(n, h), NEW p \in Pages, p \in FreeOf(n) \/ n.pp_ref[p] = 0
    PROVE  n.pp_ref[p] = 0 /\ p # h /\ DirsOf(n, p) = {} /\ TabsOf(n, p) = {} /\ MapsOf(n, p) = {}
<1>1. n.pp_ref[p] = 0
  BY DEF Sound, FreeUnused
<1>2. 0 = UsesOf(n, p) + IF p = h THEN 1 ELSE 0
  BY <1>1 DEF Sound, Counted
<1>3. UsesOf(n, p) = 0 /\ p # h
  BY <1>2, UsesFinite
<1> QED
  BY <1>1, <1>3, UsesFinite

LEMMA PageAllocFacts ==
    ASSUME NEW n, Sound(n, NoPage), n.page_free_list # <<>>
    PROVE  LET p == Head(n.page_free_list)
               a == PageAlloc(n)
           IN  /\ Sound(a, NoPage) /\ p \in Pages /\ p \notin FreeOf(a)
               /\ a.pp_ref = n.pp_ref /\ a.env_pgdir = n.env_pgdir /\ a.pde = n.pde /\ a.pte = n.pte
               /\ a.page_free_list = Tail(n.page_free_list)
               /\ FreeOf(n) = FreeOf(a) \cup {p}
               /\ n.pp_ref[p] = 0
               /\ DirsOf(a, p) = {} /\ TabsOf(a, p) = {} /\ MapsOf(a, p) = {}
<1> DEFINE s == n.page_free_list
           p == Head(s)
           a == PageAlloc(n)
<1>1. s \in Seq(Pages) /\ n \in Memories
  BY DEF Sound, Memories
<1>2. /\ p \in Pages /\ Tail(s) \in Seq(Pages) /\ Range(s) = Range(Tail(s)) \cup {p}
      /\ Once(s) => Once(Tail(s)) /\ p \notin Range(Tail(s))
  BY <1>1, TailFacts
<1>3. /\ a.pp_ref = n.pp_ref /\ a.env_pgdir = n.env_pgdir /\ a.pde = n.pde /\ a.pte = n.pte
      /\ a.page_free_list = Tail(s) /\ a \in Memories
  BY <1>1, <1>2 DEF PageAlloc, Memories
<1> HIDE DEF a
<1>4. FreeOf(n) = FreeOf(a) \cup {p}
  BY <1>2, <1>3 DEF FreeOf
<1>5. Once(s)
  BY DEF Sound, FreeUnused
<1>6. p \notin FreeOf(a) /\ FreeUnused(a)
  BY <1>2, <1>3, <1>4, <1>5 DEF FreeOf, Sound, FreeUnused
<1>7. \A q : DirsOf(a, q) = DirsOf(n, q) /\ TabsOf(a, q) = TabsOf(n, q) /\ MapsOf(a, q) = MapsOf(n, q)
  BY <1>3 DEF DirsOf, TabsOf, MapsOf
<1>8. Sound(a, NoPage)
  BY <1>3, <1>6, <1>7 DEF Sound, Counted, UsesOf, PrivateTables, UnderTable, HasTable
<1>9. n.pp_ref[p] = 0 /\ DirsOf(n, p) = {} /\ TabsOf(n, p) = {} /\ MapsOf(n, p) = {}
  BY <1>2, <1>4, UnusedFacts
<1> QED
  BY <1>2, <1>3, <1>4, <1>6, <1>7, <1>8, <1>9 DEF a

\* The first reference to a page never wraps its count.
LEMMA FirstCountable ==
    ASSUME NEW n, NEW p, n.pp_ref[p] = 0
    PROVE  Countable(n, p)
BY MemoryAssumption DEF Countable

\* A reference is taken that no table has yet ...
LEMMA IncrefFacts ==
    ASSUME NEW n, Sound(n, NoPage), NEW q \in Pages, Countable(n, q),
           q \notin FreeOf(n), DirsOf(n, q) = {}, TabsOf(n, q) = {}
    PROVE  LET k == PageIncref(n, q) IN
           /\ Sound(k, q)
           /\ \A p \in Pages : p # q => k.pp_ref[p] = n.pp_ref[p]
           /\ k.page_free_list = n.page_free_list
           /\ k.env_pgdir = n.env_pgdir /\ k.pde = n.pde /\ k.pte = n.pte
           /\ LostOf(k) = LostOf(n) \ {q}
<1> DEFINE k == PageIncref(n, q)
<1>1. /\ n \in Memories
      /\ n.pp_ref[q] \in Counts /\ n.pp_ref[q] \in Nat
      /\ n.pp_ref[q] + 1 # RefLimit /\ n.pp_ref[q] + 1 \in Counts
  BY CountsFacts DEF Sound, Memories, Countable
<1>2. /\ k \in Memories /\ k.page_free_list = n.page_free_list
      /\ k.env_pgdir = n.env_pgdir /\ k.pde = n.pde /\ k.pte = n.pte
      /\ \A p \in Pages : k.pp_ref[p] = IF p = q THEN n.pp_ref[p] + 1 ELSE n.pp_ref[p]
  <2> DEFINE c == [n.pp_ref EXCEPT ![q] = n.pp_ref[q] + 1]
  <2>1. n.pp_ref \in [Pages -> Counts]
    BY <1>1 DEF Memories
  <2>2. c \in [Pages -> Counts] /\ \A p \in Pages : c[p] = IF p = q THEN n.pp_ref[p] + 1 ELSE n.pp_ref[p]
    BY <1>1, <2>1
  <2>3. k = [n EXCEPT !.pp_ref = c]
    BY <1>1 DEF PageIncref, Memories
  <2> HIDE DEF c, k
  <2> QED
    BY <1>1, <2>2, <2>3 DEF Memories
<1> HIDE DEF k
<1>3. \A p : DirsOf(k, p) = DirsOf(n, p) /\ TabsOf(k, p) = TabsOf(n, p) /\ MapsOf(k, p) = MapsOf(n, p)
  BY <1>2 DEF DirsOf, TabsOf, MapsOf
<1>4. \A p \in Pages : UsesOf(k, p) = UsesOf(n, p) /\ UsesOf(n, p) \in Nat /\ n.pp_ref[p] = UsesOf(n, p)
  <2>1. \A p \in Pages : p # NoPage
    BY MemoryAssumption
  <2> QED
    BY <1>3, <2>1, UsesFinite DEF UsesOf, Sound, Counted
<1>5. Counted(k, q)
  BY <1>2, <1>4 DEF Counted
<1>6. FreeUnused(k) /\ FreeOf(k) = FreeOf(n)
  <2>1. FreeOf(k) = FreeOf(n) /\ Once(k.page_free_list)
    BY <1>2 DEF FreeOf, Sound, FreeUnused
  <2>2. FreeOf(n) \subseteq Pages
    BY <1>1 DEF FreeOf, Range, Memories
  <2>3. \A p \in FreeOf(n) : k.pp_ref[p] = 0
    BY <1>2, <2>2 DEF Sound, FreeUnused
  <2> QED
    BY <2>1, <2>3 DEF FreeUnused
<1>7. PrivateTables(k) /\ UnderTable(k)
  BY <1>2, <1>3 DEF Sound, PrivateTables, UnderTable, HasTable
<1>8. LostOf(k) = LostOf(n) \ {q}
  BY <1>1, <1>2, <1>6 DEF LostOf
<1> QED
  BY <1>2, <1>5, <1>6, <1>7, <1>8 DEF Sound, k

\* ... and put into one.
LEMMA EntrySet ==
    ASSUME NEW n, NEW k, NEW q \in Pages, Sound(n, q), k \in Memories,
           k.pp_ref = n.pp_ref, k.page_free_list = n.page_free_list,
           \A p \in Pages : p # q => /\ DirsOf(k, p) = DirsOf(n, p) /\ TabsOf(k, p) = TabsOf(n, p)
                                    /\ MapsOf(k, p) = MapsOf(n, p),
           UsesOf(k, q) = UsesOf(n, q) + 1,
           DirsOf(k, q) # {} \/ TabsOf(k, q) # {} => UsesOf(k, q) = 1 /\ MapsOf(k, q) = {},
           UnderTable(k)
    PROVE  Sound(k, NoPage) /\ FreeOf(k) = FreeOf(n) /\ LostOf(k) = LostOf(n)
<1>1. \A p \in Pages : p # NoPage /\ UsesOf(k, p) \in Nat /\ UsesOf(n, p) \in Nat
  BY MemoryAssumption, UsesFinite
<1>2. \A p \in Pages : p # q => UsesOf(k, p) = UsesOf(n, p)
  BY DEF UsesOf
<1>3. Counted(k, NoPage)
  BY <1>1, <1>2 DEF Counted, Sound
<1>4. FreeUnused(k) /\ FreeOf(k) = FreeOf(n) /\ LostOf(k) = LostOf(n)
  BY DEF FreeUnused, FreeOf, LostOf, Sound
<1>5. PrivateTables(k)
  <2> SUFFICES ASSUME NEW p \in Pages, DirsOf(k, p) # {} \/ TabsOf(k, p) # {}
               PROVE  k.pp_ref[p] = 1 /\ MapsOf(k, p) = {}
    BY DEF PrivateTables
  <2>1. CASE p = q
    <3>1. k.pp_ref[q] = UsesOf(k, q)
      BY <1>1, <1>3 DEF Counted
    <3> QED
      BY <2>1, <3>1
  <2>2. CASE p # q
    BY <2>2 DEF Sound, PrivateTables
  <2> QED
    BY <2>1, <2>2
<1> QED
  BY <1>3, <1>4, <1>5 DEF Sound

\* page_decref().
LEMMA DecrefFacts ==
    ASSUME NEW n \in Memories, FreeUnused(n), NEW p \in Pages, n.pp_ref[p] > 0
    PROVE  LET d == PageDecref(n, p) IN
           /\ d \in Memories
           /\ d.env_pgdir = n.env_pgdir /\ d.pde = n.pde /\ d.pte = n.pte
           /\ \A q \in Pages : d.pp_ref[q] = IF q = p THEN n.pp_ref[p] - 1 ELSE n.pp_ref[q]
           /\ FreeOf(d) = IF n.pp_ref[p] = 1 THEN FreeOf(n) \cup {p} ELSE FreeOf(n)
           /\ Len(d.page_free_list) >= Len(n.page_free_list)
           /\ FreeUnused(d) /\ LostOf(d) = LostOf(n)
<1> DEFINE r == PageDecount(n, p)
           d == PageDecref(n, p)
<1>1. /\ n.pp_ref[p] \in Nat /\ p \notin FreeOf(n) /\ n.page_free_list \in Seq(Pages)
      /\ n.pp_ref[p] # 0 /\ n.pp_ref[p] - 1 \in Counts
  <2>1. n.pp_ref[p] \in Counts /\ n.page_free_list \in Seq(Pages)
    BY DEF Memories
  <2>2. n.pp_ref[p] \in Nat
    BY <2>1, CountsFacts
  <2>3. n.pp_ref[p] # 0
    BY <2>2
  <2>4. n.pp_ref[p] - 1 \in Counts
    BY <2>1, CountsFacts
  <2>5. p \notin FreeOf(n)
    BY <2>3 DEF FreeUnused
  <2> QED
    BY <2>1, <2>2, <2>3, <2>4, <2>5
<1>2. /\ r \in Memories /\ r.page_free_list = n.page_free_list
      /\ r.env_pgdir = n.env_pgdir /\ r.pde = n.pde /\ r.pte = n.pte
      /\ \A q \in Pages : r.pp_ref[q] = IF q = p THEN n.pp_ref[p] - 1 ELSE n.pp_ref[q]
  <2> DEFINE c == [n.pp_ref EXCEPT ![p] = n.pp_ref[p] - 1]
  <2>1. n.pp_ref \in [Pages -> Counts] /\ n.pp_ref[p] - 1 \in Counts
    BY <1>1 DEF Memories
  <2>2. c \in [Pages -> Counts] /\ \A q \in Pages : c[q] = IF q = p THEN n.pp_ref[p] - 1 ELSE n.pp_ref[q]
    BY <2>1
  <2>3. r = [n EXCEPT !.pp_ref = c]
    BY <1>1 DEF PageDecount, Memories
  <2> HIDE DEF c, r
  <2> QED
    BY <2>2, <2>3 DEF Memories
<1>3. d = IF r.pp_ref[p] = 0 THEN [r EXCEPT !.page_free_list = <<p>> \o r.page_free_list] ELSE r
  BY DEF PageDecref, PageFree
<1> HIDE DEF r, d
<1>4. FreeOf(n) \subseteq Pages
  BY <1>1 DEF FreeOf, Range
<1>5. CASE n.pp_ref[p] = 1
  <2> DEFINE s == n.page_free_list
  <2>1. d = [r EXCEPT !.page_free_list = <<p>> \o s]
    BY <1>2, <1>3, <1>5
  <2>2. /\ <<p>> \o s \in Seq(Pages) /\ Len(<<p>> \o s) = Len(s) + 1 /\ Len(s) \in Nat
        /\ Range(<<p>> \o s) = Range(s) \cup {p}
        /\ Once(s) /\ p \notin Range(s) => Once(<<p>> \o s)
    BY <1>1, ConsFacts
  <2>3. /\ d \in Memories /\ d.page_free_list = <<p>> \o s
        /\ d.env_pgdir = r.env_pgdir /\ d.pde = r.pde /\ d.pte = r.pte /\ d.pp_ref = r.pp_ref
    BY <1>2, <2>1, <2>2 DEF Memories
  <2>4. FreeOf(d) = FreeOf(n) \cup {p} /\ Once(d.page_free_list)
    BY <1>1, <2>2, <2>3 DEF FreeOf, FreeUnused
  <2>5. FreeUnused(d)
    BY <1>2, <1>4, <1>5, <2>3, <2>4 DEF FreeUnused
  <2>6. LostOf(d) = LostOf(n)
    BY <1>1, <1>2, <1>5, <2>3, <2>4 DEF LostOf
  <2> QED
    BY <1>2, <1>5, <2>2, <2>3, <2>4, <2>5, <2>6 DEF d
<1>6. CASE n.pp_ref[p] # 1
  <2>1. d = r
    BY <1>1, <1>2, <1>3, <1>6
  <2>2. FreeOf(d) = FreeOf(n)
    BY <1>2, <2>1 DEF FreeOf
  <2>3. FreeUnused(d)
    BY <1>1, <1>2, <1>4, <2>1, <2>2 DEF FreeUnused
  <2>4. LostOf(d) = LostOf(n)
    BY <1>1, <1>2, <1>6, <2>1, <2>2 DEF LostOf
  <2>5. Len(d.page_free_list) >= Len(n.page_free_list)
    BY <1>1, <1>2, <2>1
  <2> QED
    BY <1>2, <1>6, <2>1, <2>2, <2>3, <2>4, <2>5 DEF d
<1> QED
  BY <1>5, <1>6

\* ... when an entry that had the page is cleared.
LEMMA EntryCleared ==
    ASSUME NEW n, NEW h, Sound(n, h), NEW p \in Pages, n.pp_ref[p] > 0,
           NEW k \in Memories,
           \A q \in Pages : k.pp_ref[q] = IF q = p THEN n.pp_ref[p] - 1 ELSE n.pp_ref[q],
           FreeUnused(k), UnderTable(k),
           \A q \in Pages : q # p => /\ DirsOf(k, q) = DirsOf(n, q) /\ TabsOf(k, q) = TabsOf(n, q)
                                    /\ MapsOf(k, q) = MapsOf(n, q),
           UsesOf(k, p) = UsesOf(n, p) - 1,
           DirsOf(k, p) \subseteq DirsOf(n, p), TabsOf(k, p) \subseteq TabsOf(n, p)
    PROVE  Sound(k, h)
<1>1. \A q \in Pages : UsesOf(k, q) \in Nat /\ UsesOf(n, q) \in Nat
  BY UsesFinite
<1>2. \A q \in Pages : q # p => UsesOf(k, q) = UsesOf(n, q)
  BY DEF UsesOf
<1>3. Counted(k, h)
  BY <1>1, <1>2 DEF Counted, Sound
<1>4. PrivateTables(k)
  <2> SUFFICES ASSUME NEW q \in Pages, DirsOf(k, q) # {} \/ TabsOf(k, q) # {}
               PROVE  k.pp_ref[q] = 1 /\ MapsOf(k, q) = {}
    BY DEF PrivateTables
  <2>1. CASE q = p
    <3>1. n.pp_ref[p] = 1
      BY <2>1 DEF Sound, PrivateTables
    <3>2. UsesOf(k, p) + (IF p = h THEN 1 ELSE 0) = 0
      BY <3>1, <1>3 DEF Counted
    <3>3. UsesOf(k, p) = 0
      BY <1>1, <3>2
    <3> QED
      BY <2>1, <3>3, UsesFinite
  <2>2. CASE q # p
    BY <2>2 DEF Sound, PrivateTables
  <2> QED
    BY <2>1, <2>2
<1> QED
  BY <1>3, <1>4 DEF Sound

-----------------------------------------------------------------------------
(* What the functions of kern/pmap.c make of a sound memory.               *)

LEMMA TableOfType == \A va \in Vas : TableOf(va) \in Tables
BY DEF Tables

\* pgdir_walk(): a new page table is its environment's own.
LEMMA PgdirWalkFacts ==
    ASSUME NEW n, Sound(n, NoPage), NEW e \in Envs, NEW va \in Vas, n.env_pgdir[e] # NoPage
    PROVE  LET t == PgdirWalk(n, e, va) IN
           /\ Sound(t, NoPage) /\ LostOf(t) = LostOf(n)
           /\ t.env_pgdir = n.env_pgdir /\ t.pte = n.pte
           /\ FreeOf(t) \subseteq FreeOf(n)
           /\ \A p \in Pages : p \notin FreeOf(n) =>
                 /\ DirsOf(t, p) = DirsOf(n, p) /\ TabsOf(t, p) = TabsOf(n, p)
                 /\ t.pp_ref[p] = n.pp_ref[p]
           /\ HasTable(t, e, va) <=> HasTable(n, e, va) \/ n.page_free_list # <<>>
           /\ ~HasTable(t, e, va) => t = n
<1>1. CASE HasTable(n, e, va) \/ n.page_free_list = <<>>
  BY <1>1 DEF PgdirWalk
<1>2. CASE ~HasTable(n, e, va) /\ n.page_free_list # <<>>
  <2> DEFINE T == TableOf(va)
             p == Head(n.page_free_list)
             a == PageAlloc(n)
             i == PageIncref(a, p)
             k == [i EXCEPT !.pde[e][T] = p]
  <2>1. PgdirWalk(n, e, va) = k
    BY <1>2 DEF PgdirWalk
  <2>2. /\ Sound(a, NoPage) /\ p \in Pages /\ p \notin FreeOf(a)
        /\ a.pp_ref = n.pp_ref /\ a.env_pgdir = n.env_pgdir /\ a.pde = n.pde /\ a.pte = n.pte
        /\ FreeOf(n) = FreeOf(a) \cup {p} /\ n.pp_ref[p] = 0
        /\ DirsOf(a, p) = {} /\ TabsOf(a, p) = {} /\ MapsOf(a, p) = {}
    BY <1>2, PageAllocFacts
  <2> HIDE DEF p, a
  <2>3. /\ Sound(i, p) /\ i.page_free_list = a.page_free_list
        /\ i.env_pgdir = n.env_pgdir /\ i.pde = n.pde /\ i.pte = n.pte
        /\ LostOf(i) = LostOf(a) \ {p}
        /\ \A q \in Pages : q # p => i.pp_ref[q] = a.pp_ref[q]
    <3>1. Countable(a, p)
      BY <2>2, FirstCountable
    <3> QED
      BY <2>2, <3>1, IncrefFacts
  <2> HIDE DEF i
  <2>4. T \in Tables /\ i.pde[e][T] = NoPage /\ p # NoPage
    BY <1>2, <2>2, <2>3, TableOfType, MemoryAssumption DEF HasTable
  <2>5. /\ k \in Memories /\ k.pp_ref = i.pp_ref /\ k.page_free_list = i.page_free_list
        /\ k.env_pgdir = i.env_pgdir /\ k.pte = i.pte
        /\ \A d \in Envs, x \in Tables : k.pde[d][x] = IF d = e /\ x = T THEN p ELSE i.pde[d][x]
    <3> DEFINE c == [i.pde EXCEPT ![e][T] = p]
    <3>1. i \in Memories /\ i.pde \in [Envs -> [Tables -> Pages \cup {NoPage}]]
      BY <2>3 DEF Sound, Memories
    <3>2. /\ c \in [Envs -> [Tables -> Pages \cup {NoPage}]]
          /\ \A d \in Envs, x \in Tables : c[d][x] = IF d = e /\ x = T THEN p ELSE i.pde[d][x]
      BY <2>2, <2>4, <3>1
    <3>3. k = [i EXCEPT !.pde = c]
      BY <3>1 DEF Memories
    <3> HIDE DEF c, k
    <3> QED
      BY <3>1, <3>2, <3>3 DEF Memories
  <2> HIDE DEF k, T
  <2>6. /\ \A q : DirsOf(k, q) = DirsOf(n, q) /\ MapsOf(k, q) = MapsOf(n, q)
        /\ \A q : DirsOf(i, q) = DirsOf(n, q) /\ MapsOf(i, q) = MapsOf(n, q) /\ TabsOf(i, q) = TabsOf(n, q)
        /\ \A q : DirsOf(a, q) = DirsOf(n, q) /\ MapsOf(a, q) = MapsOf(n, q) /\ TabsOf(a, q) = TabsOf(n, q)
    BY <2>2, <2>3, <2>5 DEF DirsOf, MapsOf, TabsOf
  <2>7. \A q \in Pages : q # p => TabsOf(k, q) = TabsOf(n, q)
    <3>1. ASSUME NEW q \in Pages, q # p, NEW x \in Envs \X Tables
          PROVE  k.pde[x[1]][x[2]] = q <=> n.pde[x[1]][x[2]] = q
      <4>1. x[1] \in Envs /\ x[2] \in Tables
        OBVIOUS
      <4>2. k.pde[x[1]][x[2]] = IF x[1] = e /\ x[2] = T THEN p ELSE n.pde[x[1]][x[2]]
        BY <2>3, <2>5, <4>1
      <4>3. n.pde[e][T] = NoPage /\ q # NoPage
        BY <2>3, <2>4, MemoryAssumption
      <4> QED
        BY <3>1, <4>2, <4>3
    <3> QED
      BY <3>1 DEF TabsOf
  <2>8. TabsOf(k, p) = {<<e, T>>}
    <3>1. \A d \in Envs, x \in Tables : n.pde[d][x] # p
      <4>1. \A d \in Envs, x \in Tables : n.pde[d][x] = p => <<d, x>> \in TabsOf(n, p)
        BY DEF TabsOf
      <4> QED
        BY <2>2, <2>6, <4>1
    <3> QED
      BY <2>3, <2>4, <2>5, <3>1 DEF TabsOf
  <2>9. UsesOf(i, p) = 0 /\ UsesOf(k, p) = 1 /\ MapsOf(k, p) = {}
    <3>1. /\ DirsOf(i, p) = {} /\ MapsOf(i, p) = {} /\ TabsOf(i, p) = {}
          /\ DirsOf(k, p) = {} /\ MapsOf(k, p) = {}
      BY <2>2, <2>6
    <3>2. Cardinality({}) = 0 /\ Cardinality({<<e, T>>}) = 1
      BY FS_EmptySet, FS_Singleton
    <3> QED
      BY <2>8, <3>1, <3>2 DEF UsesOf
  <2>10. UnderTable(k)
    <3>1. UnderTable(n)
      BY DEF Sound
    <3>2. \A d \in Envs, vb \in Vas :
             HasTable(k, d, vb) <=> HasTable(n, d, vb) \/ (d = e /\ TableOf(vb) = T)
      BY <2>3, <2>4, <2>5, TableOfType DEF HasTable
    <3> QED
      BY <2>3, <2>5, <3>1, <3>2 DEF UnderTable
  <2>11. Sound(k, NoPage) /\ FreeOf(k) = FreeOf(i) /\ LostOf(k) = LostOf(i)
    BY <2>2, <2>3, <2>5, <2>6, <2>7, <2>9, <2>10, EntrySet
  <2>12. HasTable(k, e, va)
    BY <2>4, <2>5 DEF HasTable, T
  <2>13. LostOf(k) = LostOf(n)
    BY <2>2, <2>3, <2>11 DEF LostOf
  <2>14. FreeOf(k) = FreeOf(a)
    BY <2>3, <2>11 DEF FreeOf
  <2>15. \A q \in Pages : q \notin FreeOf(n) => /\ DirsOf(k, q) = DirsOf(n, q) /\ TabsOf(k, q) = TabsOf(n, q)
                                               /\ k.pp_ref[q] = n.pp_ref[q]
    BY <2>2, <2>3, <2>5, <2>6, <2>7
  <2> QED
    BY <1>2, <2>1, <2>2, <2>3, <2>5, <2>11, <2>12, <2>13, <2>14, <2>15
<1> QED
  BY <1>1, <1>2

\* page_remove(): the entry is cleared and its page counted down, whoever else
\* maps it and whatever the kernel holds.
LEMMA PageRemoveFacts ==
    ASSUME NEW n, NEW h, Sound(n, h), NEW e \in Envs, NEW va \in Vas
    PROVE  LET r == PageRemove(n, e, va) IN
           /\ Sound(r, h) /\ LostOf(r) = LostOf(n)
           /\ r.env_pgdir = n.env_pgdir /\ r.pde = n.pde
           /\ \A d \in Envs, vb \in Vas : r.pte[d][vb] = IF d = e /\ vb = va THEN Absent ELSE n.pte[d][vb]
<1>1. CASE n.pte[e][va] = Absent
  BY <1>1 DEF PageRemove
<1>2. CASE n.pte[e][va] # Absent
  <2> DEFINE p == n.pte[e][va].page
             d == PageDecref(n, p)
             r == [d EXCEPT !.pte[e][va] = Absent]
  <2>1. PageRemove(n, e, va) = r
    BY <1>2 DEF PageRemove
  <2>2. n \in Memories /\ n.pte \in [Envs -> [Vas -> Ptes]] /\ FreeUnused(n)
    BY DEF Sound, Memories
  <2>3. p \in Pages /\ p # NoPage
    BY <1>2, <2>2, MemoryAssumption DEF Ptes
  <2>4. <<e, va>> \in MapsOf(n, p)
    BY DEF MapsOf
  <2>5. n.pp_ref[p] > 0
    <3>1. n.pp_ref[p] \in Nat /\ n.pp_ref[p] # 0
      BY <2>2, <2>3, <2>4, UnusedFacts, CountsFacts DEF Memories
    <3> QED
      BY <3>1
  <2> HIDE DEF p
  <2>6. /\ d \in Memories
        /\ d.env_pgdir = n.env_pgdir /\ d.pde = n.pde /\ d.pte = n.pte
        /\ \A q \in Pages : d.pp_ref[q] = IF q = p THEN n.pp_ref[p] - 1 ELSE n.pp_ref[q]
        /\ FreeUnused(d) /\ LostOf(d) = LostOf(n)
    BY <2>2, <2>3, <2>5, DecrefFacts
  <2> HIDE DEF d
  <2>7. /\ r \in Memories /\ r.pp_ref = d.pp_ref /\ r.page_free_list = d.page_free_list
        /\ r.env_pgdir = n.env_pgdir /\ r.pde = n.pde
        /\ \A f \in Envs, vb \in Vas : r.pte[f][vb] = IF f = e /\ vb = va THEN Absent ELSE n.pte[f][vb]
    <3> DEFINE c == [d.pte EXCEPT ![e][va] = Absent]
    <3>1. d.pte \in [Envs -> [Vas -> Ptes]] /\ Absent \in Ptes
      BY <2>2, <2>6 DEF Ptes
    <3>2. /\ c \in [Envs -> [Vas -> Ptes]]
          /\ \A f \in Envs, vb \in Vas : c[f][vb] = IF f = e /\ vb = va THEN Absent ELSE d.pte[f][vb]
      BY <3>1
    <3>3. r = [d EXCEPT !.pte = c]
      BY <2>6 DEF Memories
    <3> HIDE DEF c, r
    <3> QED
      BY <2>6, <3>2, <3>3, ZenonT(40) DEF Memories
  <2> HIDE DEF r
  <2>8. \A q : DirsOf(r, q) = DirsOf(n, q) /\ TabsOf(r, q) = TabsOf(n, q)
    BY <2>7 DEF DirsOf, TabsOf
  <2>9. \A q \in Pages : MapsOf(r, q) = IF q = p THEN MapsOf(n, p) \ {<<e, va>>} ELSE MapsOf(n, q)
    <3>1. ASSUME NEW q \in Pages, NEW x \in Envs \X Vas
          PROVE  r.pte[x[1]][x[2]].page = q <=> n.pte[x[1]][x[2]].page = q /\ ~(q = p /\ x = <<e, va>>)
      <4>1. x[1] \in Envs /\ x[2] \in Vas /\ x = <<x[1], x[2]>>
        OBVIOUS
      <4>2. r.pte[x[1]][x[2]] = IF x[1] = e /\ x[2] = va THEN Absent ELSE n.pte[x[1]][x[2]]
        BY <2>7, <4>1
      <4>3. n.pte[e][va].page = p /\ Absent.page = NoPage /\ q # NoPage
        BY MemoryAssumption DEF p, Absent
      <4> QED
        BY <4>1, <4>2, <4>3
    <3> QED
      BY <3>1 DEF MapsOf
  <2>10. UsesOf(r, p) = UsesOf(n, p) - 1
    <3> DEFINE S == MapsOf(n, p)
    <3>1. IsFiniteSet(S) /\ Cardinality(S) \in Nat /\ <<e, va>> \in S
      BY <2>4, UsesFinite
    <3>2. DirsOf(r, p) = DirsOf(n, p) /\ TabsOf(r, p) = TabsOf(n, p) /\ MapsOf(r, p) = S \ {<<e, va>>}
      BY <2>3, <2>8, <2>9
    <3>3. Cardinality(DirsOf(n, p)) \in Nat /\ Cardinality(TabsOf(n, p)) \in Nat
      BY UsesFinite
    <3>4. UsesOf(n, p) = Cardinality(DirsOf(n, p)) + Cardinality(TabsOf(n, p)) + Cardinality(S)
      BY DEF UsesOf
    <3>5. UsesOf(r, p) = Cardinality(DirsOf(n, p)) + Cardinality(TabsOf(n, p)) + Cardinality(S \ {<<e, va>>})
      BY <3>2 DEF UsesOf
    <3> HIDE DEF S
    <3>6. Cardinality(S \ {<<e, va>>}) = Cardinality(S) - 1
      BY <3>1, FS_RemoveElement
    <3> QED
      BY <3>1, <3>3, <3>4, <3>5, <3>6
  <2>11. UnderTable(r)
    BY <2>7 DEF Sound, UnderTable, HasTable
  <2>12. FreeUnused(r) /\ LostOf(r) = LostOf(n)
    BY <2>6, <2>7 DEF FreeUnused, FreeOf, LostOf
  <2>13. \A q \in Pages : r.pp_ref[q] = IF q = p THEN n.pp_ref[p] - 1 ELSE n.pp_ref[q]
    BY <2>6, <2>7
  <2>14. Sound(r, h)
    BY <2>3, <2>5, <2>7, <2>8, <2>9, <2>10, <2>11, <2>12, <2>13, EntryCleared
  <2> QED
    BY <2>1, <2>7, <2>12, <2>14
<1> QED
  BY <1>1, <1>2

\* A page that may be mapped for a user: it is neither free nor a page table.
Mappable(n, p) == p \in Pages /\ p \notin FreeOf(n) /\ DirsOf(n, p) = {} /\ TabsOf(n, p) = {}

\* page_insert(): all or nothing.  The page is counted before the old one is
\* removed, so mapping a page over itself does not free it.
LEMMA PageInsertFacts ==
    ASSUME NEW n, Sound(n, NoPage), NEW e \in Envs, NEW va \in Vas, n.env_pgdir[e] # NoPage,
           NEW p, Mappable(n, p), Countable(n, p), NEW w, [page |-> p, w |-> w] \in Ptes
    PROVE  LET k == PageInsert(n, e, p, va, PlainPerm(w)) IN
           IF HasTable(n, e, va) \/ n.page_free_list # <<>>
           THEN /\ Sound(k, NoPage) /\ LostOf(k) = LostOf(n) \ {p}
                /\ k.env_pgdir = n.env_pgdir
                /\ \A d \in Envs, vb \in Vas :
                      k.pte[d][vb] = IF d = e /\ vb = va THEN [page |-> p, w |-> w] ELSE n.pte[d][vb]
           ELSE k = n
<1> DEFINE t == PgdirWalk(n, e, va)
           i == PageIncref(t, p)
           r == PageRemove(i, e, va)
           k == [r EXCEPT !.pte[e][va] = [page |-> p, w |-> w]]
<1>1. /\ Sound(t, NoPage) /\ LostOf(t) = LostOf(n)
      /\ t.env_pgdir = n.env_pgdir /\ t.pte = n.pte
      /\ FreeOf(t) \subseteq FreeOf(n)
      /\ p \in Pages /\ p \notin FreeOf(n) /\ DirsOf(t, p) = {} /\ TabsOf(t, p) = {}
      /\ HasTable(t, e, va) <=> HasTable(n, e, va) \/ n.page_free_list # <<>>
      /\ t.pp_ref[p] = n.pp_ref[p]
  BY PgdirWalkFacts DEF Mappable
<1>2. PageInsert(n, e, p, va, PlainPerm(w)) = IF ~HasTable(t, e, va) THEN n ELSE k
  <2>1. Entry(p, PlainPerm(w)) = [page |-> p, w |-> w]
    BY <1>1 DEF Entry, PlainPerm
  <2> QED
    BY <2>1 DEF PageInsert
<1> HIDE DEF t
<1>3. CASE ~HasTable(t, e, va)
  BY <1>1, <1>2, <1>3
<1>4. CASE HasTable(t, e, va)
  <2>1. /\ Sound(i, p) /\ LostOf(i) = LostOf(n) \ {p}
        /\ i.env_pgdir = n.env_pgdir /\ i.pde = t.pde /\ i.pte = n.pte
    <3>1. Countable(t, p)
      BY <1>1 DEF Countable
    <3> QED
      BY <1>1, <3>1, IncrefFacts
  <2> HIDE DEF i
  <2>2. /\ Sound(r, p) /\ LostOf(r) = LostOf(n) \ {p}
        /\ r.env_pgdir = n.env_pgdir /\ r.pde = t.pde
        /\ \A d \in Envs, vb \in Vas : r.pte[d][vb] = IF d = e /\ vb = va THEN Absent ELSE n.pte[d][vb]
    BY <2>1, PageRemoveFacts, SMTT(20)
  <2> HIDE DEF r
  <2>3. r \in Memories /\ r.pte \in [Envs -> [Vas -> Ptes]] /\ [page |-> p, w |-> w] \in Ptes
    BY <1>1, <2>2 DEF Sound, Memories, Ptes
  <2>4. /\ k \in Memories /\ k.pp_ref = r.pp_ref /\ k.page_free_list = r.page_free_list
        /\ k.env_pgdir = r.env_pgdir /\ k.pde = r.pde
        /\ \A d \in Envs, vb \in Vas :
              k.pte[d][vb] = IF d = e /\ vb = va THEN [page |-> p, w |-> w] ELSE r.pte[d][vb]
    <3> DEFINE new == [page |-> p, w |-> w]
               c == [r.pte EXCEPT ![e][va] = new]
    <3> HIDE DEF new
    <3>1. /\ c \in [Envs -> [Vas -> Ptes]]
          /\ \A d \in Envs, vb \in Vas : c[d][vb] = IF d = e /\ vb = va THEN new ELSE r.pte[d][vb]
      BY <2>3 DEF new
    <3>2. k = [r EXCEPT !.pte = c]
      BY <2>3 DEF Memories, new
    <3> HIDE DEF c, k
    <3> QED
      BY <2>3, <3>1, <3>2 DEF Memories, new
  <2> HIDE DEF k
  <2>5. /\ \A q : DirsOf(k, q) = DirsOf(r, q) /\ TabsOf(k, q) = TabsOf(r, q)
        /\ DirsOf(r, p) = {} /\ TabsOf(r, p) = {}
    BY <1>1, <2>2, <2>4 DEF DirsOf, TabsOf
  <2>6. \A q \in Pages : MapsOf(k, q) = IF q = p THEN MapsOf(r, p) \cup {<<e, va>>} ELSE MapsOf(r, q)
    <3>1. ASSUME NEW q \in Pages, NEW x \in Envs \X Vas
          PROVE  k.pte[x[1]][x[2]].page = q <=> r.pte[x[1]][x[2]].page = q \/ (q = p /\ x = <<e, va>>)
      <4>1. x[1] \in Envs /\ x[2] \in Vas /\ x = <<x[1], x[2]>>
        OBVIOUS
      <4>2. k.pte[x[1]][x[2]] = IF x[1] = e /\ x[2] = va THEN [page |-> p, w |-> w] ELSE r.pte[x[1]][x[2]]
        BY <2>4, <4>1
      <4>3. r.pte[e][va].page = NoPage /\ q # NoPage
        BY <2>2, MemoryAssumption DEF Absent
      <4> QED
        BY <4>1, <4>2, <4>3
    <3> QED
      BY <3>1 DEF MapsOf
  <2>7. UsesOf(k, p) = UsesOf(r, p) + 1
    <3> DEFINE S == MapsOf(r, p)
    <3>1. IsFiniteSet(S) /\ Cardinality(S) \in Nat /\ <<e, va>> \notin S
      <4>1. r.pte[e][va].page # p
        BY <1>1, <2>2, MemoryAssumption DEF Absent
      <4>2. <<e, va>> \notin S
        BY <4>1 DEF MapsOf
      <4> QED
        BY <4>2, UsesFinite
    <3>2. MapsOf(k, p) = S \cup {<<e, va>>}
      BY <1>1, <2>6
    <3>3. Cardinality(DirsOf(r, p)) \in Nat /\ Cardinality(TabsOf(r, p)) \in Nat
      BY UsesFinite
    <3>4. UsesOf(r, p) = Cardinality(DirsOf(r, p)) + Cardinality(TabsOf(r, p)) + Cardinality(S)
      BY DEF UsesOf
    <3>5. UsesOf(k, p) = Cardinality(DirsOf(r, p)) + Cardinality(TabsOf(r, p)) + Cardinality(S \cup {<<e, va>>})
      BY <2>5, <3>2 DEF UsesOf
    <3> HIDE DEF S
    <3>6. Cardinality(S \cup {<<e, va>>}) = Cardinality(S) + 1
      BY <3>1, FS_AddElement
    <3> QED
      BY <3>1, <3>3, <3>4, <3>5, <3>6
  <2>8. UnderTable(k)
    <3>1. HasTable(k, e, va) /\ \A d \in Envs, vb \in Vas : HasTable(k, d, vb) <=> HasTable(r, d, vb)
      BY <1>4, <2>2, <2>4 DEF HasTable
    <3> QED
      BY <2>2, <2>4, <3>1 DEF Sound, UnderTable
  <2>9. Sound(k, NoPage) /\ LostOf(k) = LostOf(r)
    BY <1>1, <2>2, <2>4, <2>5, <2>6, <2>7, <2>8, EntrySet
  <2>10. \A d \in Envs, vb \in Vas :
            k.pte[d][vb] = IF d = e /\ vb = va THEN [page |-> p, w |-> w] ELSE n.pte[d][vb]
    BY <2>2, <2>4
  <2> QED
    BY <1>1, <1>2, <1>4, <2>2, <2>4, <2>9, <2>10
<1> QED
  BY <1>3, <1>4

\* A page that somebody maps may be mapped again.
LEMMA MappedMappable ==
    ASSUME NEW n, Sound(n, NoPage), NEW e \in Envs, NEW va \in Vas, n.pte[e][va] # Absent
    PROVE  Mappable(n, n.pte[e][va].page)
<1> DEFINE p == n.pte[e][va].page
<1>1. p \in Pages
  BY DEF Sound, Memories, Ptes
<1>2. <<e, va>> \in MapsOf(n, p)
  BY DEF MapsOf
<1> HIDE DEF p
<1>3. p \notin FreeOf(n) /\ DirsOf(n, p) = {} /\ TabsOf(n, p) = {}
  BY <1>1, <1>2, UnusedFacts DEF Sound, PrivateTables
<1> QED
  BY <1>1, <1>3 DEF Mappable, p

\* env_page_alloc(): with room, a new page is mapped; without, nothing is.
LEMMA EnvPageAllocFacts ==
    ASSUME NEW n, Sound(n, NoPage), NEW e \in Envs, NEW va \in Vas, n.env_pgdir[e] # NoPage,
           NEW w, \A p \in Pages : [page |-> p, w |-> w] \in Ptes
    PROVE  LET k == EnvPageAlloc(n, e, va, w) IN
           /\ Sound(k, NoPage) /\ k.env_pgdir = n.env_pgdir
           /\ IF RoomFor(n, e, va)
              THEN /\ LostOf(k) = LostOf(n) /\ HasTable(k, e, va)
                   /\ \E p \in FreeOf(n) : \A d \in Envs, vb \in Vas :
                         k.pte[d][vb] = IF d = e /\ vb = va THEN [page |-> p, w |-> w] ELSE n.pte[d][vb]
              ELSE /\ k.pte = n.pte
                   /\ \/ k = n
                      \/ /\ Len(n.page_free_list) = 1 /\ k.page_free_list = <<>>
                         /\ LostOf(k) = LostOf(n) \cup FreeOf(n)
<1> DEFINE k == EnvPageAlloc(n, e, va, w)
<1>1. n.page_free_list \in Seq(Pages) /\ Len(n.page_free_list) \in Nat
  BY DEF Sound, Memories
<1>2. CASE n.page_free_list = <<>>
  <2>1. Len(n.page_free_list) = 0 /\ ~RoomFor(n, e, va)
    BY <1>2 DEF RoomFor
  <2> QED
    BY <1>2, <2>1 DEF EnvPageAlloc
<1>3. CASE n.page_free_list # <<>>
  <2> DEFINE p == Head(n.page_free_list)
             a == PageAlloc(n)
  <2>1. k = PageInsert(a, e, p, va, PlainPerm(w))
    BY <1>3 DEF EnvPageAlloc
  <2>2. /\ Sound(a, NoPage) /\ p \in Pages /\ p \notin FreeOf(a)
        /\ a.pp_ref = n.pp_ref /\ a.env_pgdir = n.env_pgdir /\ a.pde = n.pde /\ a.pte = n.pte
        /\ a.page_free_list = Tail(n.page_free_list)
        /\ FreeOf(n) = FreeOf(a) \cup {p} /\ n.pp_ref[p] = 0
        /\ DirsOf(a, p) = {} /\ TabsOf(a, p) = {} /\ MapsOf(a, p) = {}
    BY <1>3, PageAllocFacts
  <2> HIDE DEF a, p, k
  <2>3. /\ Len(n.page_free_list) \in Nat \ {0} /\ a.page_free_list \in Seq(Pages)
        /\ Len(a.page_free_list) = Len(n.page_free_list) - 1
        /\ a.page_free_list = <<>> <=> Len(n.page_free_list) = 1
    <3>1. Tail(n.page_free_list) \in Seq(Pages) /\ Len(n.page_free_list) \in Nat \ {0}
          /\ Len(Tail(n.page_free_list)) = Len(n.page_free_list) - 1
      BY <1>1, <1>3, TailFacts
    <3>2. Tail(n.page_free_list) = <<>> <=> Len(Tail(n.page_free_list)) = 0
      BY <3>1, EmptySeq
    <3>3. a.page_free_list = Tail(n.page_free_list)
      BY <2>2
    <3> DEFINE l == Len(n.page_free_list)
               u == a.page_free_list
    <3>4. l \in Nat \ {0} /\ u \in Seq(Pages) /\ Len(u) = l - 1 /\ (u = <<>> <=> Len(u) = 0)
      BY <3>1, <3>2, <3>3
    <3> HIDE DEF l, u
    <3>5. u = <<>> <=> l = 1
      BY <3>4
    <3> QED
      BY <3>4, <3>5 DEF l, u
  <2>4. Mappable(a, p) /\ Countable(a, p) /\ [page |-> p, w |-> w] \in Ptes
    BY <2>2, FirstCountable DEF Mappable
  <2>5. HasTable(a, e, va) <=> HasTable(n, e, va)
    BY <2>2 DEF HasTable
  <2>6. RoomFor(n, e, va) <=> HasTable(a, e, va) \/ a.page_free_list # <<>>
    BY <2>3, <2>5 DEF RoomFor
  <2>7. CASE RoomFor(n, e, va)
    <3>1. /\ Sound(k, NoPage) /\ LostOf(k) = LostOf(a) \ {p}
          /\ k.env_pgdir = n.env_pgdir
          /\ \A d \in Envs, vb \in Vas :
                k.pte[d][vb] = IF d = e /\ vb = va THEN [page |-> p, w |-> w] ELSE n.pte[d][vb]
      <4>1. a.env_pgdir[e] # NoPage /\ (HasTable(a, e, va) \/ a.page_free_list # <<>>)
        BY <2>2, <2>6, <2>7
      <4>2. /\ Sound(k, NoPage) /\ LostOf(k) = LostOf(a) \ {p}
            /\ k.env_pgdir = a.env_pgdir
            /\ \A d \in Envs, vb \in Vas :
                  k.pte[d][vb] = IF d = e /\ vb = va THEN [page |-> p, w |-> w] ELSE a.pte[d][vb]
        <5> DEFINE z == PageInsert(a, e, p, va, PlainPerm(w))
        <5>0. /\ Sound(a, NoPage) /\ a.env_pgdir[e] # NoPage /\ Mappable(a, p) /\ Countable(a, p)
              /\ [page |-> p, w |-> w] \in Ptes
          BY <2>2, <2>4, <4>1
        <5>1. IF HasTable(a, e, va) \/ a.page_free_list # <<>>
              THEN /\ Sound(z, NoPage) /\ LostOf(z) = LostOf(a) \ {p}
                   /\ z.env_pgdir = a.env_pgdir
                   /\ \A d \in Envs, vb \in Vas :
                         z.pte[d][vb] = IF d = e /\ vb = va THEN [page |-> p, w |-> w] ELSE a.pte[d][vb]
              ELSE z = a
          BY <5>0, PageInsertFacts
        <5>2. k = z
          BY <2>1
        <5> HIDE DEF z
        <5> QED
          BY <4>1, <5>1, <5>2
      <4> QED
        BY <2>2, <4>2
    <3>2. LostOf(k) = LostOf(n)
      BY <2>2, <3>1 DEF LostOf
    <3>3. HasTable(k, e, va)
      <4>1. k.pte[e][va] # Absent
        BY <2>2, <3>1, MemoryAssumption DEF Absent
      <4> QED
        BY <3>1, <4>1 DEF Sound, UnderTable
    <3> QED
      BY <2>2, <2>7, <3>1, <3>2, <3>3 DEF k
  <2>8. CASE ~RoomFor(n, e, va)
    <3>1. k = a
      <4>1. ~HasTable(a, e, va) /\ ~(a.page_free_list # <<>>)
        BY <2>6, <2>8
      <4>2. /\ Sound(a, NoPage) /\ a.env_pgdir[e] # NoPage /\ Mappable(a, p) /\ Countable(a, p)
            /\ [page |-> p, w |-> w] \in Ptes
        BY <2>2, <2>4
      <4> QED
        BY <2>1, <4>1, <4>2, PageInsertFacts
    <3>2. Len(n.page_free_list) = 1 /\ k.page_free_list = <<>>
      BY <2>3, <2>6, <2>8, <3>1
    <3>3. FreeOf(a) = {}
      BY <3>1, <3>2 DEF FreeOf, Range
    <3>4. LostOf(k) = LostOf(n) \cup FreeOf(n)
      BY <2>2, <3>1, <3>3 DEF LostOf
    <3> QED
      BY <2>2, <2>8, <3>1, <3>2, <3>4 DEF k
  <2> QED
    BY <2>7, <2>8
<1> QED
  BY <1>2, <1>3

-----------------------------------------------------------------------------
(* kern/env.c.                                                             *)

\* env_setup_vm(): the first free page becomes the directory.
LEMMA EnvSetupVmFacts ==
    ASSUME NEW n, Sound(n, NoPage), NEW e \in Envs, n.env_pgdir[e] = NoPage, n.page_free_list # <<>>
    PROVE  LET k == EnvSetupVm(n, e) IN
           /\ Sound(k, NoPage) /\ LostOf(k) = LostOf(n)
           /\ k.pde = n.pde /\ k.pte = n.pte
           /\ \A d \in Envs : k.env_pgdir[d] = IF d = e THEN Head(n.page_free_list) ELSE n.env_pgdir[d]
           /\ Head(n.page_free_list) \in Pages
<1> DEFINE p == Head(n.page_free_list)
           a == PageAlloc(n)
           i == PageIncref(a, p)
           k == [i EXCEPT !.env_pgdir[e] = p]
<1>1. EnvSetupVm(n, e) = k
  BY DEF EnvSetupVm
<1>2. /\ Sound(a, NoPage) /\ p \in Pages /\ p \notin FreeOf(a)
      /\ a.pp_ref = n.pp_ref /\ a.env_pgdir = n.env_pgdir /\ a.pde = n.pde /\ a.pte = n.pte
      /\ FreeOf(n) = FreeOf(a) \cup {p} /\ n.pp_ref[p] = 0
      /\ DirsOf(a, p) = {} /\ TabsOf(a, p) = {} /\ MapsOf(a, p) = {}
  BY PageAllocFacts
<1> HIDE DEF p, a
<1>3. /\ Sound(i, p) /\ i.page_free_list = a.page_free_list
      /\ i.env_pgdir = n.env_pgdir /\ i.pde = n.pde /\ i.pte = n.pte
      /\ LostOf(i) = LostOf(a) \ {p}
  <2>1. Countable(a, p)
    BY <1>2, FirstCountable
  <2> QED
    BY <1>2, <2>1, IncrefFacts
<1> HIDE DEF i
<1>4. /\ k \in Memories /\ k.pp_ref = i.pp_ref /\ k.page_free_list = i.page_free_list
      /\ k.pde = i.pde /\ k.pte = i.pte
      /\ \A d \in Envs : k.env_pgdir[d] = IF d = e THEN p ELSE i.env_pgdir[d]
  <2> DEFINE c == [i.env_pgdir EXCEPT ![e] = p]
  <2>1. i \in Memories /\ i.env_pgdir \in [Envs -> Pages \cup {NoPage}]
    BY <1>3 DEF Sound, Memories
  <2>2. /\ c \in [Envs -> Pages \cup {NoPage}]
        /\ \A d \in Envs : c[d] = IF d = e THEN p ELSE i.env_pgdir[d]
    BY <1>2, <2>1
  <2>3. k = [i EXCEPT !.env_pgdir = c]
    BY <2>1 DEF Memories
  <2> HIDE DEF c, k
  <2> QED
    BY <2>1, <2>2, <2>3 DEF Memories
<1> HIDE DEF k
<1>5. /\ \A q : TabsOf(k, q) = TabsOf(n, q) /\ MapsOf(k, q) = MapsOf(n, q)
      /\ \A q : DirsOf(i, q) = DirsOf(n, q) /\ MapsOf(i, q) = MapsOf(n, q) /\ TabsOf(i, q) = TabsOf(n, q)
      /\ \A q : DirsOf(a, q) = DirsOf(n, q) /\ MapsOf(a, q) = MapsOf(n, q) /\ TabsOf(a, q) = TabsOf(n, q)
  BY <1>2, <1>3, <1>4 DEF DirsOf, MapsOf, TabsOf
<1>6. p # NoPage /\ \A q \in Pages : q # NoPage
  BY <1>2, MemoryAssumption
<1>7. \A q \in Pages : q # p => DirsOf(k, q) = DirsOf(n, q)
  BY <1>3, <1>4, <1>6 DEF DirsOf
<1>8. DirsOf(k, p) = {e}
  <2>1. \A d \in Envs : n.env_pgdir[d] # p
    BY <1>2, <1>5 DEF DirsOf
  <2> QED
    BY <1>3, <1>4, <2>1 DEF DirsOf
<1>9. UsesOf(i, p) = 0 /\ UsesOf(k, p) = 1 /\ MapsOf(k, p) = {}
  <2>1. /\ DirsOf(i, p) = {} /\ MapsOf(i, p) = {} /\ TabsOf(i, p) = {}
        /\ TabsOf(k, p) = {} /\ MapsOf(k, p) = {}
    BY <1>2, <1>5
  <2>2. Cardinality({}) = 0 /\ Cardinality({e}) = 1
    BY FS_EmptySet, FS_Singleton
  <2> QED
    BY <1>8, <2>1, <2>2 DEF UsesOf
<1>10. UnderTable(k)
  BY <1>3, <1>4, <1>6 DEF Sound, UnderTable, HasTable
<1>11. Sound(k, NoPage) /\ FreeOf(k) = FreeOf(i) /\ LostOf(k) = LostOf(i)
  BY <1>2, <1>3, <1>4, <1>5, <1>7, <1>9, <1>10, EntrySet
<1>12. LostOf(k) = LostOf(n)
  BY <1>2, <1>3, <1>11 DEF LostOf
<1> QED
  BY <1>1, <1>2, <1>3, <1>4, <1>11, <1>12 DEF p

\* One address in the loops of env_free(): a page table is given back after the
\* last of its addresses, when nothing is mapped under it any more.
LEMMA FreeVaFacts ==
    ASSUME NEW n, Sound(n, NoPage), NEW e \in Envs, NEW va \in Vas,
           \A vb \in Vas : vb < va => n.pte[e][vb] = Absent
    PROVE  LET k == FreeVa(n, e, va) IN
           /\ Sound(k, NoPage) /\ LostOf(k) = LostOf(n) /\ k.env_pgdir = n.env_pgdir
           /\ \A d \in Envs, vb \in Vas : k.pte[d][vb] = IF d = e /\ vb = va THEN Absent ELSE n.pte[d][vb]
           /\ \A d \in Envs, x \in Tables :
                 k.pde[d][x] = IF d = e /\ x = TableOf(va) /\ LastOfTable(va) THEN NoPage ELSE n.pde[d][x]
<1> DEFINE T == TableOf(va)
           u == PageRemove(n, e, va)
<1>1. /\ Sound(u, NoPage) /\ LostOf(u) = LostOf(n)
      /\ u.env_pgdir = n.env_pgdir /\ u.pde = n.pde
      /\ \A d \in Envs, vb \in Vas : u.pte[d][vb] = IF d = e /\ vb = va THEN Absent ELSE n.pte[d][vb]
  BY PageRemoveFacts
<1>2. T \in Tables
  BY TableOfType
<1> HIDE DEF u
<1>3. CASE ~(HasTable(n, e, va) /\ LastOfTable(va))
  <2>1. FreeVa(n, e, va) = u
    BY <1>3 DEF FreeVa, u
  <2>2. LastOfTable(va) => n.pde[e][T] = NoPage
    BY <1>3 DEF HasTable
  <2> QED
    BY <1>1, <2>1, <2>2
<1>4. CASE HasTable(n, e, va) /\ LastOfTable(va)
  <2> DEFINE p == n.pde[e][T]
             c == [u EXCEPT !.pde[e][T] = NoPage]
             k == PageDecref(c, p)
  <2>1. FreeVa(n, e, va) = k
    BY <1>4 DEF FreeVa, u
  <2>2. u \in Memories /\ u.pde \in [Envs -> [Tables -> Pages \cup {NoPage}]] /\ FreeUnused(u)
    BY <1>1 DEF Sound, Memories
  <2>3. p \in Pages /\ p # NoPage
    BY <1>1, <1>2, <1>4, <2>2 DEF HasTable
  <2>4. <<e, T>> \in TabsOf(u, p)
    BY <1>1, <1>2 DEF TabsOf
  <2>5. u.pp_ref[p] > 0
    <3>1. u.pp_ref[p] \in Nat /\ u.pp_ref[p] # 0
      BY <1>1, <2>2, <2>3, <2>4, UnusedFacts, CountsFacts DEF Memories
    <3> QED
      BY <3>1
  <2> HIDE DEF p
  <2>6. /\ c \in Memories /\ c.pp_ref = u.pp_ref /\ c.page_free_list = u.page_free_list
        /\ c.env_pgdir = u.env_pgdir /\ c.pte = u.pte
        /\ \A d \in Envs, x \in Tables : c.pde[d][x] = IF d = e /\ x = T THEN NoPage ELSE u.pde[d][x]
    <3> DEFINE z == [u.pde EXCEPT ![e][T] = NoPage]
    <3> HIDE DEF T
    <3>1. /\ z \in [Envs -> [Tables -> Pages \cup {NoPage}]]
          /\ \A d \in Envs, x \in Tables : z[d][x] = IF d = e /\ x = T THEN NoPage ELSE u.pde[d][x]
      BY <1>2, <2>2
    <3>2. c = [u EXCEPT !.pde = z]
      BY <2>2 DEF Memories
    <3> HIDE DEF c, z
    <3> QED
      BY <2>2, <3>1, <3>2 DEF Memories
  <2> HIDE DEF c
  <2>7. FreeUnused(c) /\ LostOf(c) = LostOf(u) /\ c.pp_ref[p] > 0
    BY <2>2, <2>5, <2>6 DEF FreeUnused, FreeOf, LostOf
  <2>8. /\ k \in Memories
        /\ k.env_pgdir = c.env_pgdir /\ k.pde = c.pde /\ k.pte = c.pte
        /\ \A q \in Pages : k.pp_ref[q] = IF q = p THEN c.pp_ref[p] - 1 ELSE c.pp_ref[q]
        /\ FreeUnused(k) /\ LostOf(k) = LostOf(c)
    BY <2>3, <2>6, <2>7, DecrefFacts
  <2> HIDE DEF k, T
  <2>9. \A d \in Envs, x \in Tables : k.pde[d][x] = IF d = e /\ x = T THEN NoPage ELSE n.pde[d][x]
    BY <1>1, <2>6, <2>8
  <2>10. \A d \in Envs, vb \in Vas : k.pte[d][vb] = IF d = e /\ vb = va THEN Absent ELSE n.pte[d][vb]
    BY <1>1, <2>6, <2>8
  <2>11. \A q : DirsOf(k, q) = DirsOf(u, q) /\ MapsOf(k, q) = MapsOf(u, q)
    BY <2>6, <2>8 DEF DirsOf, MapsOf
  <2>12. \A q \in Pages : TabsOf(k, q) = IF q = p THEN TabsOf(u, p) \ {<<e, T>>} ELSE TabsOf(u, q)
    <3>1. ASSUME NEW q \in Pages, NEW x \in Envs \X Tables
          PROVE  k.pde[x[1]][x[2]] = q <=> u.pde[x[1]][x[2]] = q /\ ~(q = p /\ x = <<e, T>>)
      <4>1. x[1] \in Envs /\ x[2] \in Tables /\ x = <<x[1], x[2]>>
        OBVIOUS
      <4>2. k.pde[x[1]][x[2]] = IF x[1] = e /\ x[2] = T THEN NoPage ELSE u.pde[x[1]][x[2]]
        BY <1>1, <2>9, <4>1
      <4>3. u.pde[e][T] = p /\ q # NoPage
        BY <1>1, MemoryAssumption DEF p
      <4> QED
        BY <4>1, <4>2, <4>3
    <3> QED
      BY <3>1 DEF TabsOf
  <2>13. UsesOf(k, p) = UsesOf(u, p) - 1
    <3> DEFINE S == TabsOf(u, p)
    <3>1. IsFiniteSet(S) /\ Cardinality(S) \in Nat /\ <<e, T>> \in S
      BY <2>4, UsesFinite DEF T
    <3>2. DirsOf(k, p) = DirsOf(u, p) /\ MapsOf(k, p) = MapsOf(u, p) /\ TabsOf(k, p) = S \ {<<e, T>>}
      BY <2>3, <2>11, <2>12
    <3>3. Cardinality(DirsOf(u, p)) \in Nat /\ Cardinality(MapsOf(u, p)) \in Nat
      BY UsesFinite
    <3>4. UsesOf(u, p) = Cardinality(DirsOf(u, p)) + Cardinality(S) + Cardinality(MapsOf(u, p))
      BY DEF UsesOf
    <3>5. UsesOf(k, p) = Cardinality(DirsOf(u, p)) + Cardinality(S \ {<<e, T>>}) + Cardinality(MapsOf(u, p))
      BY <3>2 DEF UsesOf
    <3> HIDE DEF S
    <3>6. Cardinality(S \ {<<e, T>>}) = Cardinality(S) - 1
      BY <3>1, FS_RemoveElement
    <3> QED
      BY <3>1, <3>3, <3>4, <3>5, <3>6
  <2>14. UnderTable(k)
    <3>1. \A vb \in Vas : TableOf(vb) = T => k.pte[e][vb] = Absent
      <4>1. ASSUME NEW vb \in Vas, TableOf(vb) = T PROVE vb = va \/ vb < va
        BY <1>4, <4>1 DEF LastOfTable, T, Vas
      <4> QED
        BY <2>10, <4>1
    <3>2. \A d \in Envs, vb \in Vas :
             HasTable(k, d, vb) <=> HasTable(u, d, vb) /\ ~(d = e /\ TableOf(vb) = T)
      BY <1>1, <2>9, TableOfType DEF HasTable
    <3>3. UnderTable(u) /\ k.env_pgdir = u.env_pgdir /\ k.pte = u.pte
      BY <1>1, <2>6, <2>8 DEF Sound
    <3> QED
      BY <3>1, <3>2, <3>3 DEF UnderTable
  <2>15. \A q \in Pages : k.pp_ref[q] = IF q = p THEN u.pp_ref[p] - 1 ELSE u.pp_ref[q]
    BY <2>6, <2>8
  <2>16. /\ \A q \in Pages : q # p => /\ DirsOf(k, q) = DirsOf(u, q) /\ TabsOf(k, q) = TabsOf(u, q)
                                     /\ MapsOf(k, q) = MapsOf(u, q)
         /\ DirsOf(k, p) \subseteq DirsOf(u, p) /\ TabsOf(k, p) \subseteq TabsOf(u, p)
    BY <2>3, <2>11, <2>12
  <2>17. Sound(k, NoPage)
    BY <1>1, <2>3, <2>5, <2>8, <2>13, <2>14, <2>15, <2>16, EntryCleared
  <2> QED
    BY <1>1, <1>4, <2>1, <2>6, <2>7, <2>8, <2>9, <2>10, <2>17 DEF T
<1> QED
  BY <1>3, <1>4

\* The loops of env_free() up to address k: there is a function that says what
\* memory each round leaves.
IsFreed(f, n, e, k) == f = [va \in 0 .. k |-> IF va = 0 THEN n ELSE FreeVa(f[va - 1], e, va)]

LEMMA FreedExists ==
    ASSUME NEW n, NEW e, NEW k \in Nat
    PROVE  \E f : IsFreed(f, n, e, k)
<1> DEFINE B == {i \in Nat : ~ \E f : IsFreed(f, n, e, i)}
<1>1. CASE B = {}
  BY <1>1
<1>2. CASE B # {}
  <2>1. PICK i \in B : \A j \in B : i <= j
    <3>1. B \subseteq Nat
      OBVIOUS
    <3> HIDE DEF B
    <3> QED
      BY <1>2, <3>1, LeastExists
  <2>2. CASE i = 0
    <3> DEFINE f == [va \in 0 .. 0 |-> n]
    <3>1. IsFreed(f, n, e, 0)
      BY DEF IsFreed
    <3> QED
      BY <2>1, <2>2, <3>1
  <2>3. CASE i # 0
    <3>1. i - 1 \in Nat /\ i \in Nat /\ i - 1 \notin B
      BY <2>1, <2>3
    <3>2. PICK g : IsFreed(g, n, e, i - 1)
      BY <3>1
    <3> DEFINE last == FreeVa(g[i - 1], e, i)
               f == [va \in 0 .. i |-> IF va = i THEN last ELSE g[va]]
    <3>3. \A va \in 0 .. i - 1 : f[va] = g[va] /\ g[va] = IF va = 0 THEN n ELSE FreeVa(g[va - 1], e, va)
      BY <3>1, <3>2 DEF IsFreed
    <3>4. f[i] = last /\ i - 1 \in 0 .. i - 1
      BY <3>1
    <3>5. ASSUME NEW va \in 0 .. i PROVE f[va] = IF va = 0 THEN n ELSE FreeVa(f[va - 1], e, va)
      <4>1. CASE va = i
        BY <2>3, <3>3, <3>4, <4>1
      <4>2. CASE va # i
        <5>1. va \in 0 .. i - 1 /\ (va # 0 => va - 1 \in 0 .. i - 1)
          BY <3>1, <4>2
        <5> HIDE DEF f, last
        <5> QED
          BY <3>3, <5>1
      <4> QED
        BY <4>1, <4>2
    <3>6. f = [va \in 0 .. i |-> f[va]]
      OBVIOUS
    <3> HIDE DEF f
    <3>7. IsFreed(f, n, e, i)
      BY <3>5, <3>6 DEF IsFreed
    <3> QED
      BY <2>1, <3>7
  <2> QED
    BY <2>2, <2>3
<1> QED
  BY <1>1, <1>2

LEMMA EnvFreeVmDef ==
    ASSUME NEW n, NEW e
    PROVE  \E f : /\ IsFreed(f, n, e, NVas)
                  /\ EnvFreeVm(n, e) = PageDecref([f[NVas] EXCEPT !.env_pgdir[e] = NoPage], n.env_pgdir[e])
<1> DEFINE f == CHOOSE f : IsFreed(f, n, e, NVas)
<1>1. IsFreed(f, n, e, NVas)
  BY FreedExists, MemoryAssumption
<1>2. EnvFreeVm(n, e) = PageDecref([f[NVas] EXCEPT !.env_pgdir[e] = NoPage], n.env_pgdir[e])
  BY DEF EnvFreeVm, IsFreed
<1> QED
  BY <1>1, <1>2

\* What the first k rounds have given back of e's memory.
Given(f, n, e, k) ==
    /\ Sound(f[k], NoPage) /\ LostOf(f[k]) = LostOf(n) /\ f[k].env_pgdir = n.env_pgdir
    /\ \A d \in Envs, vb \in Vas : f[k].pte[d][vb] = IF d = e /\ vb <= k THEN Absent ELSE n.pte[d][vb]
    /\ \A d \in Envs, x \in Tables :
          f[k].pde[d][x] = IF d = e /\ \E vb \in Vas : vb <= k /\ TableOf(vb) = x /\ LastOfTable(vb)
                           THEN NoPage ELSE n.pde[d][x]

LEMMA GivenFirst ==
    ASSUME NEW n, Sound(n, NoPage), NEW e \in Envs, NEW f, IsFreed(f, n, e, NVas)
    PROVE  Given(f, n, e, 0)
<1>1. f[0] = n
  <2>1. NVas \in Nat /\ 0 \in 0 .. NVas
    BY MemoryAssumption
  <2> QED
    BY <2>1 DEF IsFreed
<1>2. \A vb \in Vas : ~(vb <= 0)
  BY MemoryAssumption DEF Vas
<1> QED
  BY <1>1, <1>2 DEF Given

LEMMA GivenNext ==
    ASSUME NEW n, Sound(n, NoPage), NEW e \in Envs, NEW f, IsFreed(f, n, e, NVas),
           NEW k \in Vas, Given(f, n, e, k - 1)
    PROVE  Given(f, n, e, k)
<1> DEFINE b == f[k - 1]
<1>1. k \in 0 .. NVas /\ k # 0 /\ k \in Nat
  BY MemoryAssumption DEF Vas
<1>2. f[k] = FreeVa(b, e, k)
  BY <1>1 DEF IsFreed
<1>3. /\ Sound(b, NoPage) /\ LostOf(b) = LostOf(n) /\ b.env_pgdir = n.env_pgdir
      /\ \A d \in Envs, vb \in Vas : b.pte[d][vb] = IF d = e /\ vb <= k - 1 THEN Absent ELSE n.pte[d][vb]
      /\ \A d \in Envs, x \in Tables :
            b.pde[d][x] = IF d = e /\ \E vb \in Vas : vb <= k - 1 /\ TableOf(vb) = x /\ LastOfTable(vb)
                          THEN NoPage ELSE n.pde[d][x]
  BY DEF Given
<1>4. \A vb \in Vas : (vb < k <=> vb <= k - 1) /\ (vb <= k <=> vb <= k - 1 \/ vb = k)
  BY <1>1 DEF Vas
<1> DEFINE z == f[k]
<1> HIDE DEF b
<1>5. /\ Sound(z, NoPage) /\ LostOf(z) = LostOf(b) /\ z.env_pgdir = b.env_pgdir
      /\ \A d \in Envs, vb \in Vas : z.pte[d][vb] = IF d = e /\ vb = k THEN Absent ELSE b.pte[d][vb]
      /\ \A d \in Envs, x \in Tables :
            z.pde[d][x] = IF d = e /\ x = TableOf(k) /\ LastOfTable(k) THEN NoPage ELSE b.pde[d][x]
  <2>1. \A vb \in Vas : vb < k => b.pte[e][vb] = Absent
    BY <1>3, <1>4
  <2> QED
    BY <1>2, <1>3, <2>1, FreeVaFacts
<1> HIDE DEF z
<1>6. \A d \in Envs, vb \in Vas : z.pte[d][vb] = IF d = e /\ vb <= k THEN Absent ELSE n.pte[d][vb]
  BY <1>3, <1>4, <1>5
<1>7. ASSUME NEW d \in Envs, NEW x \in Tables
      PROVE  z.pde[d][x] = IF d = e /\ \E vb \in Vas : vb <= k /\ TableOf(vb) = x /\ LastOfTable(vb)
                           THEN NoPage ELSE n.pde[d][x]
  <2>1. (\E vb \in Vas : vb <= k /\ TableOf(vb) = x /\ LastOfTable(vb))
        <=> \/ \E vb \in Vas : vb <= k - 1 /\ TableOf(vb) = x /\ LastOfTable(vb)
            \/ x = TableOf(k) /\ LastOfTable(k)
    BY <1>4
  <2> QED
    BY <1>3, <1>5, <2>1
<1> QED
  BY <1>3, <1>5, <1>6, <1>7 DEF Given, z

\* Every table has a last address, so that env_free() frees every table.
LEMMA TableHasLast ==
    ASSUME NEW x \in Tables
    PROVE  \E va \in Vas : TableOf(va) = x /\ LastOfTable(va)
<1> DEFINE S == {va \in Vas : TableOf(va) = x}
<1>1. S # {} /\ S \subseteq 0 .. NVas /\ NVas \in Nat
  BY MemoryAssumption DEF Tables, Vas
<1>2. PICK i \in S : \A j \in S : j <= i
  <2> HIDE DEF S
  <2> QED
    BY <1>1, GreatestExists
<1>3. LastOfTable(i)
  <2> SUFFICES ASSUME NEW vb \in Vas, vb > i, TableOf(vb) = TableOf(i) PROVE FALSE
    BY DEF LastOfTable
  <2>1. vb \in S /\ i \in S
    OBVIOUS
  <2>2. vb <= i /\ vb \in Int /\ i \in Int
    BY <1>2, <2>1 DEF Vas
  <2> QED
    BY <2>2
<1> QED
  BY <1>3

LEMMA GivenAll ==
    ASSUME NEW n, Sound(n, NoPage), NEW e \in Envs, NEW f, IsFreed(f, n, e, NVas)
    PROVE  Given(f, n, e, NVas)
<1> DEFINE B == {i \in 0 .. NVas : ~ Given(f, n, e, i)}
<1>1. NVas \in Nat /\ NVas \in 0 .. NVas
  BY MemoryAssumption
<1>2. CASE B = {}
  BY <1>1, <1>2
<1>3. CASE B # {}
  <2>1. PICK i \in B : \A j \in B : i <= j
    <3>1. B \subseteq Nat
      BY <1>1
    <3> HIDE DEF B
    <3> QED
      BY <1>3, <3>1, LeastExists
  <2>2. i \in 0 .. NVas /\ ~Given(f, n, e, i)
    OBVIOUS
  <2>3. i # 0
    BY <2>2, GivenFirst
  <2>4. i \in Vas /\ i - 1 \in 0 .. NVas /\ ~(i <= i - 1)
    BY <1>1, <2>2, <2>3 DEF Vas
  <2>5. Given(f, n, e, i - 1)
    BY <2>1, <2>4
  <2> QED
    BY <2>2, <2>4, <2>5, GivenNext
<1> QED
  BY <1>2, <1>3

\* env_free(): everything e had is given back, nothing else is touched, and
\* no page is lost.
LEMMA EnvFreeVmFacts ==
    ASSUME NEW n, Sound(n, NoPage), NEW e \in Envs, n.env_pgdir[e] # NoPage
    PROVE  LET k == EnvFreeVm(n, e) IN
           /\ Sound(k, NoPage) /\ LostOf(k) = LostOf(n)
           /\ \A d \in Envs : k.env_pgdir[d] = IF d = e THEN NoPage ELSE n.env_pgdir[d]
           /\ \A d \in Envs, vb \in Vas : k.pte[d][vb] = IF d = e THEN Absent ELSE n.pte[d][vb]
<1>1. PICK f : /\ IsFreed(f, n, e, NVas)
               /\ EnvFreeVm(n, e) = PageDecref([f[NVas] EXCEPT !.env_pgdir[e] = NoPage], n.env_pgdir[e])
  BY EnvFreeVmDef
<1>2. Given(f, n, e, NVas)
  BY <1>1, GivenAll
<1> DEFINE u == f[NVas]
           p == n.env_pgdir[e]
           c == [u EXCEPT !.env_pgdir[e] = NoPage]
           k == PageDecref(c, p)
<1>3. /\ Sound(u, NoPage) /\ LostOf(u) = LostOf(n) /\ u.env_pgdir = n.env_pgdir
      /\ \A d \in Envs, vb \in Vas : u.pte[d][vb] = IF d = e THEN Absent ELSE n.pte[d][vb]
      /\ \A x \in Tables : u.pde[e][x] = NoPage
  <2>1. \A vb \in Vas : vb <= NVas
    BY MemoryAssumption DEF Vas
  <2> QED
    BY <1>2, <2>1, TableHasLast DEF Given
<1>4. EnvFreeVm(n, e) = k
  BY <1>1
<1> HIDE DEF u
<1>5. u \in Memories /\ u.env_pgdir \in [Envs -> Pages \cup {NoPage}] /\ FreeUnused(u)
  BY <1>3 DEF Sound, Memories
<1>6. p \in Pages /\ p # NoPage
  BY <1>3, <1>5
<1>7. e \in DirsOf(u, p)
  BY <1>3 DEF DirsOf
<1>8. u.pp_ref[p] > 0
  <2>1. u.pp_ref[p] \in Nat /\ u.pp_ref[p] # 0
    BY <1>3, <1>5, <1>6, <1>7, UnusedFacts, CountsFacts DEF Memories
  <2> QED
    BY <2>1
<1> HIDE DEF p
<1>9. /\ c \in Memories /\ c.pp_ref = u.pp_ref /\ c.page_free_list = u.page_free_list
      /\ c.pde = u.pde /\ c.pte = u.pte
      /\ \A d \in Envs : c.env_pgdir[d] = IF d = e THEN NoPage ELSE u.env_pgdir[d]
  <2> DEFINE z == [u.env_pgdir EXCEPT ![e] = NoPage]
  <2>1. /\ z \in [Envs -> Pages \cup {NoPage}]
        /\ \A d \in Envs : z[d] = IF d = e THEN NoPage ELSE u.env_pgdir[d]
    BY <1>5
  <2>2. c = [u EXCEPT !.env_pgdir = z]
    BY <1>5 DEF Memories
  <2> HIDE DEF c, z
  <2> QED
    BY <1>5, <2>1, <2>2 DEF Memories
<1> HIDE DEF c
<1>10. FreeUnused(c) /\ LostOf(c) = LostOf(u) /\ c.pp_ref[p] > 0
  BY <1>5, <1>8, <1>9 DEF FreeUnused, FreeOf, LostOf
<1>11. /\ k \in Memories
       /\ k.env_pgdir = c.env_pgdir /\ k.pde = c.pde /\ k.pte = c.pte
       /\ \A q \in Pages : k.pp_ref[q] = IF q = p THEN c.pp_ref[p] - 1 ELSE c.pp_ref[q]
       /\ FreeUnused(k) /\ LostOf(k) = LostOf(c)
  BY <1>6, <1>9, <1>10, DecrefFacts
<1> HIDE DEF k
<1>12. \A q : TabsOf(k, q) = TabsOf(u, q) /\ MapsOf(k, q) = MapsOf(u, q)
  BY <1>9, <1>11 DEF TabsOf, MapsOf
<1>13. \A q \in Pages : DirsOf(k, q) = IF q = p THEN DirsOf(u, p) \ {e} ELSE DirsOf(u, q)
  <2>1. u.env_pgdir[e] = p /\ \A q \in Pages : q # NoPage
    BY <1>3, MemoryAssumption DEF p
  <2>2. ASSUME NEW q \in Pages, NEW d \in Envs
        PROVE  k.env_pgdir[d] = q <=> u.env_pgdir[d] = q /\ ~(q = p /\ d = e)
    BY <1>9, <1>11, <2>1
  <2> QED
    BY <2>2 DEF DirsOf
<1>14. UsesOf(k, p) = UsesOf(u, p) - 1
  <2> DEFINE S == DirsOf(u, p)
  <2>1. IsFiniteSet(S) /\ Cardinality(S) \in Nat /\ e \in S
    BY <1>7, UsesFinite
  <2>2. TabsOf(k, p) = TabsOf(u, p) /\ MapsOf(k, p) = MapsOf(u, p) /\ DirsOf(k, p) = S \ {e}
    BY <1>6, <1>12, <1>13
  <2>3. Cardinality(TabsOf(u, p)) \in Nat /\ Cardinality(MapsOf(u, p)) \in Nat
    BY UsesFinite
  <2>4. UsesOf(u, p) = Cardinality(S) + Cardinality(TabsOf(u, p)) + Cardinality(MapsOf(u, p))
    BY DEF UsesOf
  <2>5. UsesOf(k, p) = Cardinality(S \ {e}) + Cardinality(TabsOf(u, p)) + Cardinality(MapsOf(u, p))
    BY <2>2 DEF UsesOf
  <2> HIDE DEF S
  <2>6. Cardinality(S \ {e}) = Cardinality(S) - 1
    BY <2>1, FS_RemoveElement
  <2> QED
    BY <2>1, <2>3, <2>4, <2>5, <2>6
<1>15. UnderTable(k)
  <2>1. UnderTable(u) /\ k.pde = u.pde /\ k.pte = u.pte
    BY <1>3, <1>9, <1>11 DEF Sound
  <2>2. \A vb \in Vas : ~HasTable(u, e, vb)
    BY <1>3, TableOfType DEF HasTable
  <2>3. \A d \in Envs, vb \in Vas : HasTable(k, d, vb) <=> HasTable(u, d, vb)
    BY <2>1 DEF HasTable
  <2> QED
    BY <1>9, <1>11, <2>1, <2>2, <2>3 DEF UnderTable
<1>16. \A q \in Pages : k.pp_ref[q] = IF q = p THEN u.pp_ref[p] - 1 ELSE u.pp_ref[q]
  BY <1>9, <1>11
<1>17. /\ \A q \in Pages : q # p => /\ DirsOf(k, q) = DirsOf(u, q) /\ TabsOf(k, q) = TabsOf(u, q)
                                   /\ MapsOf(k, q) = MapsOf(u, q)
       /\ DirsOf(k, p) \subseteq DirsOf(u, p) /\ TabsOf(k, p) \subseteq TabsOf(u, p)
  BY <1>6, <1>12, <1>13
<1>18. Sound(k, NoPage)
  BY <1>3, <1>6, <1>8, <1>11, <1>14, <1>15, <1>16, <1>17, EntryCleared
<1> QED
  BY <1>3, <1>4, <1>9, <1>10, <1>11, <1>18

-----------------------------------------------------------------------------
(* What any call may make k of the memory n: a page that is writable in k  *)
(* was already writable somewhere or is new, and a page is lost only for   *)
(* lack of a page table.                                                   *)

WritableIn(n, p) == \E d \in Envs, vb \in Vas : n.pte[d][vb].page = p /\ n.pte[d][vb].w

NothingGained(n, k) == \A d \in Envs, vb \in Vas :
    k.pte[d][vb].w => k.pte[d][vb].page \in FreeOf(n) \/ WritableIn(n, k.pte[d][vb].page)

LostForTable(n, k) == LostOf(k) # LostOf(n) =>
    /\ Len(n.page_free_list) = 1 /\ k.page_free_list = <<>>
    /\ LostOf(k) = LostOf(n) \cup FreeOf(n)

Legal(n, k) == Sound(k, NoPage) /\ NothingGained(n, k) /\ LostForTable(n, k)

\* Entries that are kept or cleared give nobody anything.
LEMMA LessIsLegal ==
    ASSUME NEW n, NEW k, Sound(k, NoPage), LostOf(k) = LostOf(n),
           \A d \in Envs, vb \in Vas : k.pte[d][vb] = n.pte[d][vb] \/ k.pte[d][vb] = Absent
    PROVE  Legal(n, k)
<1>1. ~Absent.w
  BY DEF Absent
<1>2. NothingGained(n, k)
  BY <1>1 DEF NothingGained, WritableIn
<1> QED
  BY <1>2 DEF Legal, LostForTable

LEMMA EnvPageAllocLegal ==
    ASSUME NEW n, Sound(n, NoPage), NEW e \in Envs, NEW va \in Vas, n.env_pgdir[e] # NoPage,
           NEW w, \A p \in Pages : [page |-> p, w |-> w] \in Ptes
    PROVE  Legal(n, EnvPageAlloc(n, e, va, w)) /\ EnvPageAlloc(n, e, va, w).env_pgdir = n.env_pgdir
<1> DEFINE k == EnvPageAlloc(n, e, va, w)
<1>1. /\ Sound(k, NoPage) /\ k.env_pgdir = n.env_pgdir
      /\ IF RoomFor(n, e, va)
         THEN /\ LostOf(k) = LostOf(n) /\ HasTable(k, e, va)
              /\ \E p \in FreeOf(n) : \A d \in Envs, vb \in Vas :
                    k.pte[d][vb] = IF d = e /\ vb = va THEN [page |-> p, w |-> w] ELSE n.pte[d][vb]
         ELSE /\ k.pte = n.pte
              /\ \/ k = n
                 \/ /\ Len(n.page_free_list) = 1 /\ k.page_free_list = <<>>
                    /\ LostOf(k) = LostOf(n) \cup FreeOf(n)
  BY EnvPageAllocFacts
<1> HIDE DEF k
<1>2. LostForTable(n, k)
  BY <1>1 DEF LostForTable
<1>3. NothingGained(n, k)
  <2>1. CASE RoomFor(n, e, va)
    <3>1. PICK p \in FreeOf(n) : \A d \in Envs, vb \in Vas :
             k.pte[d][vb] = IF d = e /\ vb = va THEN [page |-> p, w |-> w] ELSE n.pte[d][vb]
      BY <1>1, <2>1
    <3> QED
      BY <3>1 DEF NothingGained, WritableIn
  <2>2. CASE ~RoomFor(n, e, va)
    BY <1>1, <2>2, SMTT(30) DEF NothingGained, WritableIn
  <2> QED
    BY <2>1, <2>2
<1> QED
  BY <1>1, <1>2, <1>3 DEF Legal, k

\* env_page_map(): what is mapped was mapped, and writable if it is now.
PageMapped(n, k, p, e, va, w) ==
    /\ Sound(k, NoPage) /\ LostOf(k) = LostOf(n) /\ k.env_pgdir = n.env_pgdir
    /\ \A d \in Envs, vb \in Vas : k.pte[d][vb].w => WritableIn(n, k.pte[d][vb].page)
    /\ IF HasTable(n, e, va) \/ n.page_free_list # <<>>
       THEN \A d \in Envs, vb \in Vas :
               k.pte[d][vb] = IF d = e /\ vb = va THEN [page |-> p, w |-> w] ELSE n.pte[d][vb]
       ELSE k = n

LEMMA PageMapFacts ==
    ASSUME NEW n, Sound(n, NoPage), NEW f \in Envs, NEW srcva \in Vas,
           NEW e \in Envs, NEW va \in Vas, n.env_pgdir[e] # NoPage,
           NEW w, MayMap(n.pte[f][srcva], w), Countable(n, n.pte[f][srcva].page),
           \A p \in Pages : [page |-> p, w |-> w] \in Ptes
    PROVE  PageMapped(n, PageInsert(n, e, n.pte[f][srcva].page, va, PlainPerm(w)),
                      n.pte[f][srcva].page, e, va, w)
<1> DEFINE p == n.pte[f][srcva].page
           k == PageInsert(n, e, p, va, PlainPerm(w))
<1>1. n.pte[f][srcva] # Absent /\ (w => n.pte[f][srcva].w)
  BY DEF MayMap
<1>2. Mappable(n, p) /\ Countable(n, p)
  BY <1>1, MappedMappable
<1>3. p \in Pages /\ [page |-> p, w |-> w] \in Ptes
  BY <1>2 DEF Mappable
<1>4. <<f, srcva>> \in MapsOf(n, p)
  BY DEF MapsOf
<1>5. w => WritableIn(n, p)
  BY <1>1 DEF WritableIn
<1> HIDE DEF p
<1>6. p \notin LostOf(n)
  BY <1>3, <1>4, UnusedFacts DEF LostOf
<1>7. IF HasTable(n, e, va) \/ n.page_free_list # <<>>
      THEN /\ Sound(k, NoPage) /\ LostOf(k) = LostOf(n) \ {p}
           /\ k.env_pgdir = n.env_pgdir
           /\ \A d \in Envs, vb \in Vas :
                 k.pte[d][vb] = IF d = e /\ vb = va THEN [page |-> p, w |-> w] ELSE n.pte[d][vb]
      ELSE k = n
  BY <1>2, <1>3, PageInsertFacts
<1> HIDE DEF k
<1>8. \A d \in Envs, vb \in Vas : n.pte[d][vb].w => WritableIn(n, n.pte[d][vb].page)
  BY DEF WritableIn
<1>9. \A d \in Envs, vb \in Vas : k.pte[d][vb].w => WritableIn(n, k.pte[d][vb].page)
  <2>1. CASE HasTable(n, e, va) \/ n.page_free_list # <<>>
    <3> SUFFICES ASSUME NEW d \in Envs, NEW vb \in Vas, k.pte[d][vb].w
                 PROVE  WritableIn(n, k.pte[d][vb].page)
      OBVIOUS
    <3>1. k.pte[d][vb] = IF d = e /\ vb = va THEN [page |-> p, w |-> w] ELSE n.pte[d][vb]
      BY <1>7, <2>1
    <3>2. CASE d = e /\ vb = va
      <4>1. k.pte[d][vb] = [page |-> p, w |-> w]
        BY <3>1, <3>2
      <4>2. k.pte[d][vb].page = p /\ k.pte[d][vb].w = w
        BY <4>1
      <4> QED
        BY <1>5, <4>2
    <3>3. CASE ~(d = e /\ vb = va)
      BY <1>8, <3>1, <3>3
    <3> QED
      BY <3>2, <3>3
  <2>2. CASE ~(HasTable(n, e, va) \/ n.page_free_list # <<>>)
    <3>1. k = n
      BY <1>7, <2>2
    <3> QED
      BY <1>8, <3>1
  <2> QED
    BY <2>1, <2>2
<1>10. Sound(k, NoPage) /\ LostOf(k) = LostOf(n) /\ k.env_pgdir = n.env_pgdir
  <2>1. CASE HasTable(n, e, va) \/ n.page_free_list # <<>>
    BY <1>6, <1>7, <2>1
  <2>2. CASE ~(HasTable(n, e, va) \/ n.page_free_list # <<>>)
    BY <1>7, <2>2
  <2> QED
    BY <2>1, <2>2
<1> QED
  BY <1>7, <1>9, <1>10 DEF p, k, PageMapped

\* A page that is mapped is counted no higher in a memory a, where entries differ
\* from those of n only by pages that were free.
LEMMA CountKept ==
    ASSUME NEW n, Sound(n, NoPage), NEW a, Sound(a, NoPage),
           \A d \in Envs, vb \in Vas : a.pte[d][vb] = n.pte[d][vb] \/ a.pte[d][vb].page \in FreeOf(n),
           NEW e \in Envs, NEW va \in Vas, n.pte[e][va] # Absent, a.pte[e][va] = n.pte[e][va],
           Countable(n, n.pte[e][va].page)
    PROVE  Countable(a, n.pte[e][va].page)
<1> DEFINE p == n.pte[e][va].page
<1>1. Mappable(n, p) /\ Mappable(a, p)
  BY MappedMappable
<1>2. Countable(n, p)
  OBVIOUS
<1> HIDE DEF p
<1>3. p \in Pages /\ p # NoPage /\ p \notin FreeOf(n)
  BY <1>1, MemoryAssumption DEF Mappable
<1>4. DirsOf(a, p) = DirsOf(n, p) /\ TabsOf(a, p) = TabsOf(n, p)
  BY <1>1 DEF Mappable
<1>5. MapsOf(a, p) \subseteq MapsOf(n, p)
  BY <1>3 DEF MapsOf
<1>6. Cardinality(MapsOf(a, p)) <= Cardinality(MapsOf(n, p))
  <2>1. IsFiniteSet(MapsOf(n, p))
    BY UsesFinite
  <2> QED
    BY <1>5, <2>1, FS_Subset
<1>7. a.pp_ref[p] = UsesOf(a, p) /\ n.pp_ref[p] = UsesOf(n, p)
  <2>1. /\ a.pp_ref[p] = UsesOf(a, p) + IF p = NoPage THEN 1 ELSE 0
        /\ n.pp_ref[p] = UsesOf(n, p) + IF p = NoPage THEN 1 ELSE 0
    BY <1>3 DEF Sound, Counted
  <2>2. UsesOf(a, p) \in Nat /\ UsesOf(n, p) \in Nat
    BY UsesFinite
  <2> QED
    BY <1>3, <2>1, <2>2
<1>8. a.pp_ref[p] <= n.pp_ref[p] /\ a.pp_ref[p] \in Nat /\ n.pp_ref[p] \in Nat
  <2> DEFINE i == Cardinality(DirsOf(n, p))
             j == Cardinality(TabsOf(n, p))
             k == Cardinality(MapsOf(n, p))
             l == Cardinality(MapsOf(a, p))
  <2>1. i \in Nat /\ j \in Nat /\ k \in Nat /\ l \in Nat /\ l <= k
    BY <1>6, UsesFinite
  <2>2. a.pp_ref[p] = i + j + l /\ n.pp_ref[p] = i + j + k
    BY <1>4, <1>7 DEF UsesOf
  <2> HIDE DEF i, j, k, l
  <2> QED
    BY <2>1, <2>2
<1>9. Countable(a, p)
  BY <1>2, <1>8, MemoryAssumption DEF Countable
<1> QED
  BY <1>9 DEF p

\* sys_ipc_try_send(): two steps in the receiver f, of which the first may be
\* all; if both are made, f has the sender's page where it asked for it.
LEMMA IpcPageMapFacts ==
    ASSUME NEW n, Sound(n, NoPage), NEW e \in Envs, NEW srcva \in Vas,
           NEW f \in Envs, NEW va \in Vas, n.env_pgdir[f] # NoPage, e # f,
           NEW w, \A p \in Pages : [page |-> p, w |-> w] \in Ptes,
           n.pte[e][srcva] # Absent => Countable(n, n.pte[e][srcva].page)
    PROVE  LET k == IpcPageMap(n, e, srcva, f, va, w) IN
           /\ Legal(n, k) /\ k.env_pgdir = n.env_pgdir
           /\ RoomFor(n, f, va) /\ MayMap(n.pte[e][srcva], w)
                 => k.pte[f][va] = [page |-> n.pte[e][srcva].page, w |-> w]
<1> DEFINE a == EnvPageAlloc(n, f, va, w)
           k == IpcPageMap(n, e, srcva, f, va, w)
<1>1. Legal(n, a) /\ a.env_pgdir = n.env_pgdir
  BY EnvPageAllocLegal
<1>2. Sound(a, NoPage) /\ a.env_pgdir[f] # NoPage
  BY <1>1 DEF Legal
<1>3. IF RoomFor(n, f, va)
      THEN /\ LostOf(a) = LostOf(n) /\ HasTable(a, f, va)
           /\ \E p \in FreeOf(n) : \A d \in Envs, vb \in Vas :
                 a.pte[d][vb] = IF d = f /\ vb = va THEN [page |-> p, w |-> w] ELSE n.pte[d][vb]
      ELSE a.pte = n.pte
  <2>1. /\ Sound(a, NoPage) /\ a.env_pgdir = n.env_pgdir
        /\ IF RoomFor(n, f, va)
           THEN /\ LostOf(a) = LostOf(n) /\ HasTable(a, f, va)
                /\ \E p \in FreeOf(n) : \A d \in Envs, vb \in Vas :
                      a.pte[d][vb] = IF d = f /\ vb = va THEN [page |-> p, w |-> w] ELSE n.pte[d][vb]
           ELSE /\ a.pte = n.pte
                /\ \/ a = n
                   \/ /\ Len(n.page_free_list) = 1 /\ a.page_free_list = <<>>
                      /\ LostOf(a) = LostOf(n) \cup FreeOf(n)
    BY EnvPageAllocFacts
  <2> HIDE DEF a
  <2> QED
    BY <2>1
<1>4. a.pte[e][srcva] = n.pte[e][srcva]
  BY <1>3
<1>5. k = IF RoomFor(n, f, va) /\ MayMap(a.pte[e][srcva], w)
          THEN PageInsert(a, f, a.pte[e][srcva].page, va, PlainPerm(w)) ELSE a
  BY DEF IpcPageMap
<1> HIDE DEF a, k
<1>6. CASE ~(RoomFor(n, f, va) /\ MayMap(n.pte[e][srcva], w))
  <2>1. k = a
    BY <1>4, <1>5, <1>6
  <2> QED
    BY <1>1, <1>6, <2>1 DEF k
<1>7. CASE RoomFor(n, f, va) /\ MayMap(n.pte[e][srcva], w)
  <2> DEFINE p == a.pte[e][srcva].page
             z == PageInsert(a, f, p, va, PlainPerm(w))
  <2>0. a.pte[e][srcva] # Absent /\ n.pte[e][srcva] # Absent
    BY <1>4, <1>7 DEF MayMap
  <2>1. /\ MayMap(a.pte[e][srcva], w) /\ \A q \in Pages : [page |-> q, w |-> w] \in Ptes
        /\ Countable(a, a.pte[e][srcva].page)
    <3>1. \A d \in Envs, vb \in Vas : a.pte[d][vb] = n.pte[d][vb] \/ a.pte[d][vb].page \in FreeOf(n)
      <4>1. PICK q \in FreeOf(n) : \A d \in Envs, vb \in Vas :
               a.pte[d][vb] = IF d = f /\ vb = va THEN [page |-> q, w |-> w] ELSE n.pte[d][vb]
        BY <1>3, <1>7
      <4>2. [page |-> q, w |-> w].page = q
        OBVIOUS
      <4> QED
        BY <4>1, <4>2
    <3>2. Countable(a, n.pte[e][srcva].page)
      BY <1>2, <1>4, <2>0, <3>1, CountKept
    <3> QED
      BY <1>4, <1>7, <3>2
  <2>2. /\ Sound(z, NoPage) /\ LostOf(z) = LostOf(a) /\ z.env_pgdir = a.env_pgdir
        /\ \A d \in Envs, vb \in Vas : z.pte[d][vb].w => WritableIn(a, z.pte[d][vb].page)
        /\ IF HasTable(a, f, va) \/ a.page_free_list # <<>>
           THEN \A d \in Envs, vb \in Vas :
                   z.pte[d][vb] = IF d = f /\ vb = va THEN [page |-> p, w |-> w] ELSE a.pte[d][vb]
           ELSE z = a
    <3>1. PageMapped(a, z, p, f, va, w)
      BY <1>2, <2>1, PageMapFacts
    <3> HIDE DEF z, p
    <3> QED
      BY <3>1 DEF PageMapped
  <2>3. k = z
    BY <1>5, <1>7, <2>1
  <2> HIDE DEF z, p
  <2>4. HasTable(a, f, va) /\ LostOf(a) = LostOf(n)
    BY <1>3, <1>7
  <2>5. NothingGained(n, z)
    <3> SUFFICES ASSUME NEW d \in Envs, NEW vb \in Vas, z.pte[d][vb].w
                 PROVE  z.pte[d][vb].page \in FreeOf(n) \/ WritableIn(n, z.pte[d][vb].page)
      BY DEF NothingGained
    <3>1. PICK g \in Envs, vc \in Vas : a.pte[g][vc].page = z.pte[d][vb].page /\ a.pte[g][vc].w
      BY <2>2 DEF WritableIn
    <3> QED
      BY <1>1, <3>1 DEF Legal, NothingGained
  <2>6. z.pte[f][va] = [page |-> n.pte[e][srcva].page, w |-> w]
    BY <1>4, <2>2, <2>4 DEF p
  <2>7. Legal(n, z)
    BY <2>2, <2>4, <2>5 DEF Legal, LostForTable
  <2> QED
    BY <1>1, <2>2, <2>3, <2>6, <2>7 DEF k
<1> QED
  BY <1>6, <1>7

-----------------------------------------------------------------------------
(* The invariant: PagesAccountedFor is inductive, and says of the kernel's *)
(* memory that it is sound with no reference held.                         *)

LEMMA AccountedIsSound == PagesAccountedFor <=> IpcTypeOK /\ Sound(m, NoPage)
<1>1. IpcTypeOK => m \in Memories
  BY DEF IpcTypeOK, TypeOK, Memories
<1>2. \A p : DirsOf(m, p) = Directories(p) /\ TabsOf(m, p) = TablesIn(p) /\ MapsOf(m, p) = Mappings(p)
  BY DEF DirsOf, TabsOf, MapsOf, Directories, TablesIn, Mappings
<1>3. RefCountsRight <=> Counted(m, NoPage)
  <2>1. \A p \in Pages : p # NoPage /\ UsesOf(m, p) \in Nat
    BY MemoryAssumption, UsesFinite
  <2>2. \A p \in Pages : UsesOf(m, p) + (IF p = NoPage THEN 1 ELSE 0) = UsesOf(m, p)
    BY <2>1
  <2>3. \A p \in Pages : UsesOf(m, p) =
           Cardinality(Directories(p)) + Cardinality(TablesIn(p)) + Cardinality(Mappings(p))
    BY <1>2 DEF UsesOf
  <2> QED
    BY <2>2, <2>3 DEF RefCountsRight, Counted
<1>4. FreeMeansUnused <=> FreeUnused(m)
  BY DEF FreeMeansUnused, FreeUnused, Once, FreeOf, Range
<1>5. TablesPrivate <=> PrivateTables(m)
  BY <1>2 DEF TablesPrivate, PrivateTables
<1>6. MappedUnderTable <=> UnderTable(m)
  BY DEF MappedUnderTable, UnderTable, Alive
<1> QED
  BY <1>1, <1>3, <1>4, <1>5, <1>6 DEF PagesAccountedFor, Sound

\* At boot the first environment has its directory and nothing else.
LEMMA InitSound == Init => Sound(m, NoPage) /\ TypeOK
<1> SUFFICES ASSUME NEW free \in SetToSeqs(Pages), NEW first \in Envs,
                    m = EnvSetupVm([pp_ref |-> [p \in Pages |-> 0],
                                    page_free_list |-> free,
                                    env_pgdir |-> [e \in Envs |-> NoPage],
                                    pde |-> [e \in Envs |-> [t \in Tables |-> NoPage]],
                                    pte |-> [e \in Envs |-> [va \in Vas |-> Absent]]], first),
                    parent = [e \in Envs |-> NoEnv]
             PROVE  Sound(m, NoPage) /\ TypeOK
  BY DEF Init
<1> DEFINE b == [pp_ref |-> [p \in Pages |-> 0],
                 page_free_list |-> free,
                 env_pgdir |-> [e \in Envs |-> NoPage],
                 pde |-> [e \in Envs |-> [t \in Tables |-> NoPage]],
                 pte |-> [e \in Envs |-> [va \in Vas |-> Absent]]]
<1>1. m = EnvSetupVm(b, first)
  OBVIOUS
<1>2. /\ Cardinality(Pages) \in Nat /\ Cardinality(Pages) # 0
      /\ free \in [1 .. Cardinality(Pages) -> Pages]
      /\ \A i, j \in 1 .. Cardinality(Pages) : i # j => free[i] # free[j]
  <2>1. Cardinality(Pages) \in Nat /\ Cardinality(Pages) # 0
    BY MemoryAssumption, FS_CardinalityType, FS_EmptySet
  <2> QED
    BY <2>1 DEF SetToSeqs
<1>3. free \in Seq(Pages) /\ Len(free) = Cardinality(Pages)
  BY <1>2, SMTT(30)
<1>4. free # <<>> /\ Once(free)
  BY <1>2, <1>3, EmptySeq DEF Once
<1>5. /\ b.pp_ref = [p \in Pages |-> 0] /\ b.page_free_list = free
      /\ \A e \in Envs : b.env_pgdir[e] = NoPage
      /\ \A e \in Envs, t \in Tables : b.pde[e][t] = NoPage
      /\ \A e \in Envs, va \in Vas : b.pte[e][va] = Absent
      /\ b \in Memories
  <2>1. Absent \in Ptes
    BY DEF Ptes
  <2> QED
    BY <1>3, <2>1, CountsFacts DEF Memories
<1> HIDE DEF b
<1>6. \A p \in Pages : p # NoPage /\ DirsOf(b, p) = {} /\ TabsOf(b, p) = {} /\ MapsOf(b, p) = {}
  <2>1. \A p \in Pages : p # NoPage /\ p # Absent.page
    BY MemoryAssumption DEF Absent
  <2> QED
    BY <1>5, <2>1 DEF DirsOf, TabsOf, MapsOf
<1>7. Counted(b, NoPage)
  <2>1. Cardinality({}) = 0
    BY FS_EmptySet
  <2>2. \A p \in Pages : /\ Cardinality(DirsOf(b, p)) = 0 /\ Cardinality(TabsOf(b, p)) = 0
                          /\ Cardinality(MapsOf(b, p)) = 0
    BY <1>6, <2>1
  <2>3. \A p \in Pages : UsesOf(b, p) = 0
    BY <2>2 DEF UsesOf
  <2> QED
    BY <1>5, <1>6, <2>3 DEF Counted
<1>8. FreeUnused(b)
  BY <1>3, <1>4, <1>5 DEF FreeUnused, FreeOf, Range
<1>9. PrivateTables(b) /\ UnderTable(b)
  BY <1>5, <1>6, TableOfType DEF PrivateTables, UnderTable, HasTable
<1>10. Sound(b, NoPage)
  BY <1>5, <1>7, <1>8, <1>9 DEF Sound
<1>11. Sound(m, NoPage)
  BY <1>1, <1>4, <1>5, <1>10, EnvSetupVmFacts
<1> QED
  BY <1>11 DEF Sound, Memories, TypeOK

LEMMA IpcInitAccounted == IpcInit => PagesAccountedFor
BY InitSound, AccountedIsSound DEF IpcInit, IpcTypeOK

\* The entry that a program asks for.
LEMMA PteType == \A w \in BOOLEAN : \A p \in Pages : [page |-> p, w |-> w] \in Ptes
BY DEF Ptes

\* The calls of Memory that leave the environments as they are.
LEMMA MapCallStep ==
    ASSUME TypeOK, Sound(m, NoPage), NEW e \in Envs, MapCall(e)
    PROVE  Legal(m, m') /\ m'.env_pgdir = m.env_pgdir /\ parent' = parent
<1>1. ASSUME NEW f \in Envs, NEW va \in Vas, NEW w \in BOOLEAN, SysPageAlloc(e, f, va, w)
      PROVE  Legal(m, m') /\ m'.env_pgdir = m.env_pgdir /\ parent' = parent
  <2>1. m.env_pgdir[f] # NoPage /\ m' = EnvPageAlloc(m, f, va, w) /\ parent' = parent
    BY <1>1 DEF SysPageAlloc, Mine, Alive
  <2> QED
    BY <2>1, PteType, EnvPageAllocLegal
<1>2. ASSUME NEW f \in Envs, NEW g \in Envs, NEW srcva \in Vas, NEW va \in Vas, NEW w \in BOOLEAN,
             SysPageMap(e, f, srcva, g, va, PlainPerm(w)), Countable(m, m.pte[f][srcva].page)
      PROVE  Legal(m, m') /\ m'.env_pgdir = m.env_pgdir /\ parent' = parent
  <2> DEFINE p == m.pte[f][srcva].page
  <2>0. PlainPerm(w).w = w
    BY DEF PlainPerm
  <2>1. /\ m.env_pgdir[g] # NoPage /\ MayMap(m.pte[f][srcva], w)
        /\ m' = PageInsert(m, g, p, va, PlainPerm(w)) /\ parent' = parent
    BY <1>2, <2>0 DEF SysPageMap, Mine, Alive
  <2>2. PageMapped(m, m', p, g, va, w)
    BY <1>2, <2>1, PteType, PageMapFacts
  <2> HIDE DEF p
  <2> QED
    BY <2>1, <2>2 DEF PageMapped, Legal, NothingGained, LostForTable
<1>3. ASSUME NEW f \in Envs, NEW va \in Vas, SysPageUnmap(e, f, va)
      PROVE  Legal(m, m') /\ m'.env_pgdir = m.env_pgdir /\ parent' = parent
  <2>1. m' = PageRemove(m, f, va) /\ parent' = parent
    BY <1>3 DEF SysPageUnmap
  <2> DEFINE k == PageRemove(m, f, va)
  <2>2. /\ Sound(k, NoPage) /\ LostOf(k) = LostOf(m) /\ k.env_pgdir = m.env_pgdir
        /\ \A d \in Envs, vb \in Vas : k.pte[d][vb] = IF d = f /\ vb = va THEN Absent ELSE m.pte[d][vb]
    BY PageRemoveFacts
  <2> HIDE DEF k
  <2>3. Legal(m, k)
    BY <2>2, LessIsLegal
  <2> QED
    BY <2>1, <2>2, <2>3 DEF k
<1> QED
  BY <1>1, <1>2, <1>3 DEF MapCall

LEMMA ExoforkStep ==
    ASSUME TypeOK, Sound(m, NoPage), NEW e \in Envs, NEW child \in Envs, SysExofork(e, child)
    PROVE  /\ Legal(m, m') /\ Alive' = Alive \cup {child} /\ child \notin Alive
           /\ parent' \in [Envs -> Envs \cup {NoEnv}]
<1>1. /\ m.env_pgdir[child] = NoPage /\ m.page_free_list # <<>>
      /\ m' = EnvSetupVm(m, child) /\ parent' = [parent EXCEPT ![child] = e]
  BY DEF SysExofork, Alive
<1>2. /\ Sound(m', NoPage) /\ LostOf(m') = LostOf(m) /\ m'.pte = m.pte
      /\ \A d \in Envs : m'.env_pgdir[d] = IF d = child THEN Head(m.page_free_list) ELSE m.env_pgdir[d]
      /\ Head(m.page_free_list) \in Pages
  BY <1>1, EnvSetupVmFacts
<1>3. Legal(m, m')
  BY <1>2, LessIsLegal
<1>4. Alive' = Alive \cup {child} /\ child \notin Alive
  BY <1>1, <1>2, MemoryAssumption DEF Alive
<1> QED
  BY <1>1, <1>3, <1>4 DEF TypeOK

LEMMA EnvFreeStep ==
    ASSUME TypeOK, Sound(m, NoPage), NEW e \in Envs, EnvFree(e)
    PROVE  /\ Legal(m, m') /\ Alive' = Alive \ {e} /\ e \in Alive
           /\ parent' \in [Envs -> Envs \cup {NoEnv}]
<1>1. /\ m.env_pgdir[e] # NoPage /\ m' = EnvFreeVm(m, e)
      /\ parent' = [f \in Envs |-> IF f = e \/ parent[f] = e THEN NoEnv ELSE parent[f]]
  BY DEF EnvFree, Alive
<1>2. /\ Sound(m', NoPage) /\ LostOf(m') = LostOf(m)
      /\ \A d \in Envs : m'.env_pgdir[d] = IF d = e THEN NoPage ELSE m.env_pgdir[d]
      /\ \A d \in Envs, vb \in Vas : m'.pte[d][vb] = IF d = e THEN Absent ELSE m.pte[d][vb]
  BY <1>1, EnvFreeVmFacts
<1>3. Legal(m, m')
  BY <1>2, LessIsLegal
<1>4. Alive' = Alive \ {e} /\ e \in Alive
  BY <1>1, <1>2 DEF Alive
<1> QED
  BY <1>1, <1>3, <1>4 DEF TypeOK

LEMMA SendPageStep ==
    ASSUME IpcTypeOK, Sound(m, NoPage), NEW e \in Envs, NEW f \in Envs,
           NEW srcva \in Vas, NEW w \in BOOLEAN, CountableAt(e, srcva), SendPage(e, f, srcva, w)
    PROVE  /\ Legal(m, m') /\ m'.env_pgdir = m.env_pgdir /\ e # f
           /\ dstva[f] \in Vas /\ parent' = parent
           /\ IF RoomFor(m, f, dstva[f]) /\ MayMap(m.pte[e][srcva], w)
              THEN Sent(f, Perm(w)) /\ m'.pte[f][dstva[f]] = [page |-> m.pte[e][srcva].page, w |-> w]
              ELSE UNCHANGED ipcVars
<1>1. /\ ~recving[e] /\ recving[f] /\ m.env_pgdir[f] # NoPage /\ dstva[f] # NoVa
      /\ m' = IpcPageMap(m, e, srcva, f, dstva[f], w)
      /\ IF RoomFor(m, f, dstva[f]) /\ MayMap(m.pte[e][srcva], w)
         THEN Sent(f, Perm(w)) ELSE UNCHANGED <<parent, ipcVars>>
  BY DEF SendPage, MaySend, Calls, Alive
<1>2. dstva[f] \in Vas /\ e # f
  BY <1>1 DEF IpcTypeOK
<1>3. /\ Legal(m, m') /\ m'.env_pgdir = m.env_pgdir
      /\ RoomFor(m, f, dstva[f]) /\ MayMap(m.pte[e][srcva], w)
           => m'.pte[f][dstva[f]] = [page |-> m.pte[e][srcva].page, w |-> w]
  BY <1>1, <1>2, PteType, IpcPageMapFacts DEF CountableAt
<1> QED
  BY <1>1, <1>2, <1>3 DEF Sent

LEMMA TypeAgain ==
    ASSUME Sound(m, NoPage)', parent' \in [Envs -> Envs \cup {NoEnv}],
           (recving \in [Envs -> BOOLEAN])', (dstva \in [Envs -> Vas \cup {NoVa}])',
           (ipc_perm \in [Envs -> {"none", "R", "W"}])', (panicked \in BOOLEAN)'
    PROVE  IpcTypeOK'
BY DEF Sound, Memories, IpcTypeOK, TypeOK

\* Every step of PageIpc leaves the pages accounted for, gains nobody write
\* access, and loses a page only for lack of a page table.
LEMMA IpcStep ==
    ASSUME PagesAccountedFor, [IpcNext]_allVars
    PROVE  PagesAccountedFor' /\ Legal(m, m')
<1>1. /\ IpcTypeOK /\ TypeOK /\ Sound(m, NoPage)
      /\ parent \in [Envs -> Envs \cup {NoEnv}]
      /\ recving \in [Envs -> BOOLEAN] /\ dstva \in [Envs -> Vas \cup {NoVa}]
      /\ ipc_perm \in [Envs -> {"none", "R", "W"}] /\ panicked \in BOOLEAN
  BY AccountedIsSound DEF IpcTypeOK, TypeOK
<1>2. Legal(m, m)
  BY <1>1, LessIsLegal
<1> SUFFICES IpcTypeOK' /\ Legal(m, m')
  <2>1. Legal(m, m') => Sound(m, NoPage)'
    BY DEF Legal
  <2>2. (PagesAccountedFor <=> IpcTypeOK /\ Sound(m, NoPage))'
    BY AccountedIsSound, PTL
  <2> QED
    BY <2>1, <2>2
<1>3. Legal(m, m') => Sound(m, NoPage)'
  BY DEF Legal
<1>4. ASSUME NEW e \in Envs, Map(e) PROVE IpcTypeOK' /\ Legal(m, m')
  <2>1. Legal(m, m') /\ parent' = parent
    BY <1>1, <1>4, MapCallStep DEF Map
  <2>2. UNCHANGED ipcVars
    BY <1>4 DEF Map
  <2> QED
    BY <1>1, <1>3, <2>1, <2>2, TypeAgain DEF ipcVars
<1>5. ASSUME NEW e \in Envs, Free(e) PROVE IpcTypeOK' /\ Legal(m, m')
  <2>1. Legal(m, m') /\ parent' \in [Envs -> Envs \cup {NoEnv}]
    BY <1>1, <1>5, EnvFreeStep DEF Free
  <2>2. UNCHANGED ipcVars
    BY <1>5 DEF Free
  <2> QED
    BY <1>1, <1>3, <2>1, <2>2, TypeAgain DEF ipcVars
<1>6. ASSUME NEW e \in Envs, NEW f \in Envs, Exofork(e, f) PROVE IpcTypeOK' /\ Legal(m, m')
  <2>1. Legal(m, m') /\ parent' \in [Envs -> Envs \cup {NoEnv}]
    BY <1>1, <1>6, ExoforkStep DEF Exofork
  <2>2. recving' = [recving EXCEPT ![f] = FALSE] /\ UNCHANGED <<dstva, ipc_perm, panicked>>
    BY <1>6 DEF Exofork
  <2> QED
    BY <1>1, <1>3, <2>1, <2>2, TypeAgain
<1>7. ASSUME NEW f \in Envs, NEW perm \in {"none", "R", "W"}, Sent(f, perm), Legal(m, m')
      PROVE  IpcTypeOK' /\ Legal(m, m')
  <2>1. /\ recving' = [recving EXCEPT ![f] = FALSE] /\ ipc_perm' = [ipc_perm EXCEPT ![f] = perm]
        /\ parent' = parent /\ dstva' = dstva /\ panicked' = panicked
    BY <1>7 DEF Sent
  <2> QED
    BY <1>1, <1>3, <1>7, <2>1, TypeAgain
<1>8. ASSUME NEW e \in Envs, NEW f \in Envs, SendValue(e, f) PROVE IpcTypeOK' /\ Legal(m, m')
  <2>1. Sent(f, "none") /\ m' = m
    BY <1>8 DEF SendValue
  <2> QED
    BY <1>2, <1>7, <2>1
<1>9. ASSUME NEW e \in Envs, NEW f \in Envs, NEW srcva \in Vas, NEW w \in BOOLEAN,
             SendPageUnwanted(e, f, srcva, w)
      PROVE  IpcTypeOK' /\ Legal(m, m')
  <2>1. Sent(f, ipc_perm[f]) /\ m' = m /\ ipc_perm[f] \in {"none", "R", "W"}
    BY <1>1, <1>9 DEF SendPageUnwanted
  <2> QED
    BY <1>2, <1>7, <2>1
<1>10. ASSUME NEW e \in Envs, NEW f \in Envs, NEW srcva \in Vas, NEW w \in BOOLEAN,
              CountableAt(e, srcva), SendPage(e, f, srcva, w)
       PROVE  IpcTypeOK' /\ Legal(m, m')
  <2>1. /\ Legal(m, m') /\ parent' = parent
        /\ Sent(f, Perm(w)) \/ UNCHANGED ipcVars
    BY <1>1, <1>10, SendPageStep
  <2>2. CASE Sent(f, Perm(w))
    BY <1>7, <2>1, <2>2 DEF Perm
  <2>3. CASE UNCHANGED ipcVars
    BY <1>1, <1>3, <2>1, <2>3, TypeAgain DEF ipcVars
  <2> QED
    BY <2>1, <2>2, <2>3
<1>11. ASSUME NEW e \in Envs, NEW f \in Envs, NEW srcva \in Vas, SendPanics(e, f, srcva)
       PROVE  IpcTypeOK' /\ Legal(m, m')
  <2>1. panicked' = TRUE /\ UNCHANGED <<m, parent, recving, dstva, ipc_perm>>
    BY <1>11 DEF SendPanics, vars
  <2> QED
    BY <1>1, <1>2, <1>3, <2>1, TypeAgain
<1>12. ASSUME NEW e \in Envs, NEW va \in Vas \cup {NoVa}, SysIpcRecv(e, va)
       PROVE  IpcTypeOK' /\ Legal(m, m')
  <2>1. /\ recving' = [recving EXCEPT ![e] = TRUE] /\ dstva' = [dstva EXCEPT ![e] = va]
        /\ UNCHANGED <<m, parent, ipc_perm, panicked>>
    BY <1>12 DEF SysIpcRecv, vars
  <2> QED
    BY <1>1, <1>2, <1>3, <2>1, TypeAgain
<1>13. CASE UNCHANGED allVars
  <2>1. UNCHANGED <<m, parent, recving, dstva, ipc_perm, panicked>>
    BY <1>13 DEF allVars, vars, ipcVars
  <2> QED
    BY <1>1, <1>2, <1>3, <2>1, TypeAgain
<1> QED
  BY <1>4, <1>5, <1>6, <1>8, <1>9, <1>10, <1>11, <1>12, <1>13 DEF IpcNext, SysIpcTrySend

\* Whatever system calls programs make, and however they fail half-way, if
\* sys_page_map() is given permissions without address bits and no page is
\* mapped so often that pp_ref wraps (MapCall): pp_ref of each page is the
\* number of its uses, what is on the free list is used by nobody, and page
\* tables are private (kern/pmap.c).
THEOREM PagesStayAccountedFor == IpcSpec => []PagesAccountedFor
<1>1. PagesAccountedFor /\ [IpcNext]_allVars => PagesAccountedFor'
  BY IpcStep
<1> QED
  BY IpcInitAccounted, <1>1, PTL DEF IpcSpec

\* A page that everybody maps read-only stays so until it is freed
\* (env_page_map's test of the source's permission), again if sys_page_map() is
\* given no address bits as permissions and no reference count wraps.
THEOREM NobodyGainsWrite == IpcSpec => NoWriteGained
<1>1. ASSUME PagesAccountedFor, [IpcNext]_allVars, NEW p \in Pages, Mappings(p) # {}, Writers(p) = {}
      PROVE  Writers(p)' = {}
  <2>1. Sound(m, NoPage) /\ NothingGained(m, m')
    BY <1>1, IpcStep, AccountedIsSound DEF Legal
  <2>2. p \notin FreeOf(m)
    BY <1>1, <2>1, UnusedFacts DEF Mappings, MapsOf
  <2>3. ~ WritableIn(m, p)
    <3> SUFFICES ASSUME NEW d \in Envs, NEW vb \in Vas, m.pte[d][vb].page = p, m.pte[d][vb].w PROVE FALSE
      BY DEF WritableIn
    <3>1. <<d, vb>> \in Writers(p)
      BY DEF Writers, Mappings
    <3> QED
      BY <1>1, <3>1
  <2> SUFFICES ASSUME NEW x \in Envs \X Vas, m'.pte[x[1]][x[2]].page = p, m'.pte[x[1]][x[2]].w PROVE FALSE
    BY DEF Writers, Mappings
  <2>4. x[1] \in Envs /\ x[2] \in Vas
    OBVIOUS
  <2> QED
    BY <2>1, <2>2, <2>3, <2>4 DEF NothingGained
<1>2. PagesAccountedFor /\ [IpcNext]_allVars =>
        [\A p \in Pages : Mappings(p) # {} /\ Writers(p) = {} => Writers(p)' = {}]_vars
  BY <1>1
<1> QED
  BY PagesStayAccountedFor, <1>2, PTL DEF IpcSpec, NoWriteGained

\* Memory is lost only by env_page_alloc() with the last free page and no page
\* table to map it in; no other call loses any.
THEOREM LossesAreForLackOfTable == IpcSpec => LostOnlyForLackOfTable
<1>1. PagesAccountedFor /\ [IpcNext]_allVars =>
        [Lost' # Lost => /\ Len(m.page_free_list) = 1
                         /\ m'.page_free_list = <<>>
                         /\ Lost' = Lost \cup Range(m.page_free_list)]_vars
  <2> SUFFICES ASSUME PagesAccountedFor, [IpcNext]_allVars, Lost' # Lost
               PROVE  /\ Len(m.page_free_list) = 1 /\ m'.page_free_list = <<>>
                      /\ Lost' = Lost \cup Range(m.page_free_list)
    OBVIOUS
  <2>1. LostForTable(m, m')
    BY IpcStep DEF Legal
  <2>2. Lost = LostOf(m) /\ Lost' = LostOf(m')
    BY DEF Lost, LostOf, FreeOf
  <2> QED
    BY <2>1, <2>2 DEF LostForTable, FreeOf
<1> QED
  BY PagesStayAccountedFor, <1>1, PTL DEF IpcSpec, LostOnlyForLackOfTable

\* A receiver that is told a permission maps the sender's page where it asked
\* for it, with that permission, although sys_ipc_try_send() maps another page
\* there first.
THEOREM ReceiverGetsThePage == IpcSpec => PageDelivered
<1> DEFINE Delivered(f) ==
        LET got == m'.pte[f][dstva[f]] IN
        /\ got # Absent /\ Perm(got.w) = ipc_perm'[f]
        /\ \E e \in Envs \ {f}, va \in Vas : m.pte[e][va].page = got.page /\ (got.w => m.pte[e][va].w)
<1>1. ASSUME PagesAccountedFor, IpcNext, NEW f \in Envs, Wakes(f), dstva[f] # NoVa, ipc_perm'[f] # "none"
      PROVE  Delivered(f)
  <2>1. /\ IpcTypeOK /\ Sound(m, NoPage) /\ f \in Alive /\ recving[f] /\ ~recving'[f]
        /\ recving \in [Envs -> BOOLEAN] /\ ipc_perm \in [Envs -> {"none", "R", "W"}]
    BY <1>1, AccountedIsSound DEF Wakes, IpcTypeOK
  <2>2. recving' # recving
    BY <2>1
  <2>3. \A e \in Envs : ~Map(e) /\ ~Free(e)
    BY <2>2 DEF Map, Free, ipcVars
  <2>4. \A e, g \in Envs : ~Exofork(e, g)
    BY <2>1 DEF Exofork, SysExofork
  <2>5. \A e \in Envs, va \in Vas \cup {NoVa} : ~SysIpcRecv(e, va)
    BY <2>1 DEF SysIpcRecv
  <2>6. PICK e \in Envs, g \in Envs : SysIpcTrySend(e, g)
    BY <1>1, <2>3, <2>4, <2>5 DEF IpcNext
  <2>7. \A perm : Sent(g, perm) => g = f /\ ipc_perm'[f] = perm
    BY <2>1 DEF Sent
  <2>8. ~SendValue(e, g)
    BY <1>1, <2>7 DEF SendValue
  <2>9. \A srcva \in Vas : ~SendPanics(e, g, srcva)
    BY <2>2 DEF SendPanics
  <2>10. \A srcva \in Vas, w \in BOOLEAN : ~SendPageUnwanted(e, g, srcva, w)
    BY <1>1, <2>7 DEF SendPageUnwanted
  <2>11. PICK srcva \in Vas, w \in BOOLEAN : CountableAt(e, srcva) /\ SendPage(e, g, srcva, w)
    BY <2>6, <2>8, <2>9, <2>10 DEF SysIpcTrySend
  <2>12. /\ e # g
         /\ IF RoomFor(m, g, dstva[g]) /\ MayMap(m.pte[e][srcva], w)
            THEN Sent(g, Perm(w)) /\ m'.pte[g][dstva[g]] = [page |-> m.pte[e][srcva].page, w |-> w]
            ELSE UNCHANGED ipcVars
    BY <2>1, <2>11, SendPageStep
  <2>13. /\ MayMap(m.pte[e][srcva], w) /\ Sent(g, Perm(w))
         /\ m'.pte[g][dstva[g]] = [page |-> m.pte[e][srcva].page, w |-> w]
    BY <2>2, <2>12 DEF ipcVars
  <2>14. g = f /\ ipc_perm'[f] = Perm(w)
    BY <2>7, <2>13
  <2> DEFINE got == m'.pte[f][dstva[f]]
             src == m.pte[e][srcva]
  <2>15. got = [page |-> src.page, w |-> w] /\ src # Absent /\ (w => src.w)
    BY <2>13, <2>14 DEF MayMap
  <2>16. src \in Ptes
    BY <2>1 DEF Sound, Memories
  <2> HIDE DEF got, src
  <2>17. got # Absent /\ got.page = src.page /\ got.w = w
    BY <2>15, <2>16, MemoryAssumption DEF Ptes, Absent
  <2> QED
    BY <2>12, <2>14, <2>15, <2>17 DEF got, src
<1>2. PagesAccountedFor /\ [IpcNext]_allVars =>
        [\A f \in Envs : Wakes(f) /\ dstva[f] # NoVa /\ ipc_perm'[f] # "none" => Delivered(f)]_allVars
  <2> HIDE DEF Delivered
  <2> QED
    BY <1>1
<1> QED
  BY PagesStayAccountedFor, <1>2, PTL DEF IpcSpec, PageDelivered

-----------------------------------------------------------------------------
(* The TLBs.                                                               *)

\* What an IPC step does to the environments there are.
LEMMA AliveStep ==
    ASSUME PagesAccountedFor, NEW e \in Envs
    PROVE  /\ Map(e) => Alive' = Alive
           /\ Free(e) => Alive' = Alive \ {e}
           /\ \A f \in Envs : Exofork(e, f) => Alive' = Alive \cup {f}
           /\ \A f \in Envs : SysIpcTrySend(e, f) => Alive' = Alive
           /\ \A va \in Vas \cup {NoVa} : SysIpcRecv(e, va) => Alive' = Alive
<1>1. IpcTypeOK /\ TypeOK /\ Sound(m, NoPage)
  BY AccountedIsSound DEF IpcTypeOK
<1>2. m'.env_pgdir = m.env_pgdir => Alive' = Alive
  BY DEF Alive
<1>3. Map(e) => Alive' = Alive
  BY <1>1, <1>2, MapCallStep DEF Map
<1>4. Free(e) => Alive' = Alive \ {e}
  BY <1>1, EnvFreeStep DEF Free
<1>5. \A f \in Envs : Exofork(e, f) => Alive' = Alive \cup {f}
  BY <1>1, ExoforkStep DEF Exofork
<1>6. \A va \in Vas \cup {NoVa} : SysIpcRecv(e, va) => Alive' = Alive
  BY <1>2 DEF SysIpcRecv, vars
<1>7. ASSUME NEW f \in Envs, SysIpcTrySend(e, f) PROVE Alive' = Alive
  <2>1. SendValue(e, f) => m' = m
    BY DEF SendValue
  <2>2. \A srcva \in Vas, w \in BOOLEAN : SendPageUnwanted(e, f, srcva, w) => m' = m
    BY DEF SendPageUnwanted
  <2>3. \A srcva \in Vas : SendPanics(e, f, srcva) => m' = m
    BY DEF SendPanics, vars
  <2>4. \A srcva \in Vas, w \in BOOLEAN :
           CountableAt(e, srcva) /\ SendPage(e, f, srcva, w) => m'.env_pgdir = m.env_pgdir
    BY <1>1, SendPageStep
  <2> QED
    BY <1>2, <1>7, <2>1, <2>2, <2>3, <2>4 DEF SysIpcTrySend
<1> QED
  BY <1>3, <1>4, <1>5, <1>6, <1>7

\* What an entry of the TLB of c must be for an address no other CPU has changed.
Fresh(c) == \A va \in Vas \ remote[c] : tlb[c][va] # Absent => tlb[c][va] = m.pte[curenv[c]][va]

\* The inductive invariant: what a CPU has in cr3 is the environment it runs,
\* which is alive, and runs nowhere else.
CpusRight ==
    /\ cr3 = curenv
    /\ \A c \in Cpus : curenv[c] # NoEnv =>
         /\ curenv[c] \in Alive
         /\ \A d \in Cpus \ {c} : curenv[d] # curenv[c]
         /\ Fresh(c)

TlbInv == PagesAccountedFor /\ TlbTypeOK /\ CpusRight

LEMMA TlbInitInv == TlbInit => TlbInv
<1> SUFFICES ASSUME TlbInit PROVE TlbInv
  OBVIOUS
<1>1. PagesAccountedFor
  BY IpcInitAccounted DEF TlbInit
<1>2. CpusRight
  BY DEF TlbInit, CpusRight
<1>3. TlbTypeOK
  <2>1. Absent \in Ptes /\ Alive \subseteq Envs
    BY DEF Ptes, Alive
  <2> QED
    BY <2>1 DEF TlbInit, TlbTypeOK, NothingCached
<1> QED
  BY <1>1, <1>2, <1>3 DEF TlbInv

\* lcr3(): whatever the kernel has done to the page tables, every CPU is right
\* after it, if it has freed no environment that another CPU runs, and f is an
\* environment that no other CPU runs.
LEMMA LoadCr3Step ==
    ASSUME TlbTypeOK, CpusRight, NEW c \in Cpus, NEW f \in Envs \cup {NoEnv}, LoadCr3(c, f),
           f # NoEnv => f \in Alive' /\ \A d \in Cpus \ {c} : curenv[d] # f,
           \A d \in Cpus \ {c} : curenv[d] # NoEnv => curenv[d] \in Alive',
           started' \subseteq Envs, zombies' \subseteq Envs
    PROVE  TlbTypeOK' /\ CpusRight'
<1>1. /\ curenv \in [Cpus -> Envs \cup {NoEnv}] /\ cr3 = curenv
      /\ tlb \in [Cpus -> [Vas -> Ptes]] /\ remote \in [Cpus -> SUBSET Vas]
  BY DEF TlbTypeOK, CpusRight
<1>2. /\ curenv' = [curenv EXCEPT ![c] = f] /\ cr3' = [curenv EXCEPT ![c] = f]
      /\ tlb' = [tlb EXCEPT ![c] = NothingCached]
      /\ remote' = [Missed(c) EXCEPT ![c] = {}]
  BY <1>1 DEF LoadCr3
<1>3. NothingCached \in [Vas -> Ptes] /\ \A va \in Vas : NothingCached[va] = Absent
  BY DEF NothingCached, Ptes
<1>4. Missed(c) \in [Cpus -> SUBSET Vas]
  BY <1>1 DEF Missed, Edited
<1>5. TlbTypeOK'
  BY <1>1, <1>2, <1>3, <1>4 DEF TlbTypeOK
<1>6. Fresh(c)'
  BY <1>1, <1>2, <1>3 DEF Fresh
<1>7. ASSUME NEW d \in Cpus \ {c}, curenv[d] # NoEnv PROVE Fresh(d)'
  <2>1. curenv[d] \in Envs /\ curenv'[d] = curenv[d] /\ tlb'[d] = tlb[d]
    BY <1>1, <1>2, <1>7
  <2>2. remote'[d] = remote[d] \cup Edited(curenv[d])
    BY <1>2, <1>4, <2>1 DEF Missed
  <2>3. \A va \in Vas \ remote[d] : tlb[d][va] # Absent => tlb[d][va] = m.pte[curenv[d]][va]
    BY <1>7 DEF CpusRight, Fresh
  <2>4. \A va \in Vas \ remote'[d] : m'.pte[curenv[d]][va] = m.pte[curenv[d]][va]
    BY <2>2 DEF Edited
  <2> QED
    BY <2>1, <2>2, <2>3, <2>4 DEF Fresh
<1>8. \A d \in Cpus : curenv'[d] = IF d = c THEN f ELSE curenv[d]
  BY <1>1, <1>2
<1>9. ASSUME NEW d \in Cpus, curenv'[d] # NoEnv
      PROVE  /\ curenv'[d] \in Alive' /\ \A g \in Cpus \ {d} : curenv'[g] # curenv'[d]
             /\ Fresh(d)'
  <2>1. CASE d = c
    BY <1>6, <1>8, <1>9, <2>1
  <2>2. CASE d # c
    <3>1. curenv[d] # NoEnv /\ curenv'[d] = curenv[d]
      BY <1>8, <1>9, <2>2
    <3>2. \A g \in Cpus \ {d} : curenv'[g] # curenv'[d]
      BY <1>8, <2>2, <3>1 DEF CpusRight
    <3> QED
      BY <1>7, <2>2, <3>1, <3>2
  <2> QED
    BY <2>1, <2>2
<1>10. cr3' = curenv'
  BY <1>2
<1> QED
  BY <1>5, <1>9, <1>10 DEF CpusRight

\* sched_yield() gives the CPU an environment that no other CPU runs, or none.
LEMMA SchedYieldStep ==
    ASSUME TlbTypeOK, CpusRight, NEW c \in Cpus, SchedYield(c),
           \A d \in Cpus \ {c} : curenv[d] # NoEnv => curenv[d] \in Alive',
           started' \subseteq Envs, zombies' \subseteq Envs
    PROVE  TlbTypeOK' /\ CpusRight'
<1>1. \A f \in Eligible(c) : f \in Envs /\ f # NoEnv /\ f \in Alive' /\ \A d \in Cpus \ {c} : curenv[d] # f
  BY MemoryAssumption DEF Eligible, Alive
<1>2. CASE \E f \in Eligible(c) \ {curenv[c]} : EnvRun(c, f)
  BY <1>1, <1>2, LoadCr3Step DEF EnvRun
<1>3. CASE Eligible(c) = {curenv[c]} /\ EnvRun(c, curenv[c])
  <2>1. curenv[c] \in Eligible(c)
    BY <1>3
  <2> QED
    BY <1>1, <1>3, <2>1, LoadCr3Step DEF EnvRun
<1>4. CASE SchedHalt(c)
  BY <1>4, LoadCr3Step DEF SchedHalt
<1> QED
  BY <1>2, <1>3, <1>4 DEF SchedYield

\* A system call that returns to the environment that made it.
LEMMA ReturnStep ==
    ASSUME TlbTypeOK, CpusRight, NEW c \in Cpus, Runs(c), EnvRun(c, curenv[c]),
           \A d \in Cpus : curenv[d] # NoEnv => curenv[d] \in Alive',
           started' \subseteq Envs, zombies' \subseteq Envs
    PROVE  TlbTypeOK' /\ CpusRight'
<1>1. curenv[c] \in Envs /\ curenv[c] # NoEnv
  BY MemoryAssumption DEF Runs
<1>2. curenv[c] \in Alive' /\ \A d \in Cpus \ {c} : curenv[d] # curenv[c]
  BY <1>1 DEF CpusRight
<1> QED
  BY <1>1, <1>2, LoadCr3Step DEF EnvRun

\* A step of the CPUs is one of PageIpc, or one that it does not see.
LEMMA TlbStepIsIpcStep == [TlbNext]_tlbVars => [IpcNext]_allVars
<1> SUFFICES ASSUME NEW c \in Cpus,
                    \/ \E va \in Vas : Fill(c, va)
                    \/ CallReturns(c) \/ ExoforkReturns(c) \/ Start(c)
                    \/ Recv(c) \/ Yield(c) \/ DestroyChild(c) \/ Exit(c)
             PROVE  IpcNext \/ UNCHANGED allVars
  BY DEF TlbNext, tlbVars
<1>1. ASSUME NEW va \in Vas, Fill(c, va) PROVE UNCHANGED allVars
  BY <1>1 DEF Fill
<1>2. Start(c) \/ Yield(c) \/ (\E f \in Envs : Kill(c, f)) => UNCHANGED allVars
  BY DEF Start, Yield, Kill
<1>3. Runs(c) => curenv[c] \in Envs
  BY DEF Runs
<1>4. CallReturns(c) => IpcNext
  BY <1>3 DEF CallReturns, IpcNext
<1>5. ExoforkReturns(c) => IpcNext
  BY <1>3 DEF ExoforkReturns, IpcNext
<1>6. Recv(c) => IpcNext
  BY <1>3 DEF Recv, IpcNext
<1>7. \A f \in Envs : Destroy(c, f) => IpcNext
  BY DEF Destroy, IpcNext
<1>8. Exit(c) => IpcNext
  BY DEF Exit, IpcNext
<1>9. DestroyChild(c) => IpcNext \/ UNCHANGED allVars
  BY <1>2, <1>7 DEF DestroyChild
<1> QED
  BY <1>1, <1>2, <1>4, <1>5, <1>6, <1>8, <1>9

\* Programs on several CPUs make no system call that PageIpc does not know, so
\* that what is proved of the calls holds however the CPUs interleave them.
THEOREM CpusOnlyMakeCalls == TlbSpec => IpcSpec
<1>1. TlbInit => IpcInit
  BY DEF TlbInit
<1> QED
  BY <1>1, TlbStepIsIpcStep, PTL DEF TlbSpec, IpcSpec

LEMMA TlbStep ==
    ASSUME TlbInv, [TlbNext]_tlbVars
    PROVE  TlbInv'
<1>1. /\ PagesAccountedFor /\ TlbTypeOK /\ CpusRight /\ started \subseteq Envs /\ zombies \subseteq Envs
      /\ m.pte \in [Envs -> [Vas -> Ptes]]
  BY AccountedIsSound DEF TlbInv, TlbTypeOK, Sound, Memories
<1>2. PagesAccountedFor'
  BY <1>1, TlbStepIsIpcStep, IpcStep
<1>3. \A d \in Cpus : curenv[d] # NoEnv => curenv[d] \in Alive
  BY <1>1 DEF CpusRight
<1> SUFFICES TlbTypeOK' /\ CpusRight'
  BY <1>2 DEF TlbInv
<1>4. \A c \in Cpus : Runs(c) => curenv[c] \in Envs
  BY DEF Runs
<1>5. Alive \subseteq Envs /\ (UNCHANGED allVars => Alive' = Alive)
  BY DEF Alive, allVars, vars
<1>6. ASSUME NEW c \in Cpus, NEW va \in Vas, Fill(c, va) PROVE TlbTypeOK' /\ CpusRight'
  <2>1. /\ cr3[c] \in Alive /\ tlb' = [tlb EXCEPT ![c][va] = m.pte[cr3[c]][va]]
        /\ curenv' = curenv /\ cr3' = cr3 /\ remote' = remote /\ started' = started /\ zombies' = zombies
        /\ m' = m /\ Alive' = Alive
    BY <1>5, <1>6 DEF Fill, allVars, vars
  <2>2. /\ tlb \in [Cpus -> [Vas -> Ptes]] /\ curenv \in [Cpus -> Envs \cup {NoEnv}]
        /\ remote \in [Cpus -> SUBSET Vas] /\ cr3 = curenv
    BY <1>1 DEF TlbTypeOK, CpusRight
  <2>3. m.pte[cr3[c]][va] \in Ptes
    BY <1>1, <1>5, <2>1
  <2>4. /\ tlb' \in [Cpus -> [Vas -> Ptes]]
        /\ \A d \in Cpus, vb \in Vas :
              tlb'[d][vb] = IF d = c /\ vb = va THEN m.pte[curenv[c]][va] ELSE tlb[d][vb]
    BY <2>1, <2>2, <2>3
  <2>5. TlbTypeOK'
    BY <1>1, <2>1, <2>2, <2>4 DEF TlbTypeOK
  <2>6. \A d \in Cpus : Fresh(d) => Fresh(d)'
    BY <2>1, <2>4 DEF Fresh
  <2> QED
    BY <1>1, <2>1, <2>5, <2>6 DEF CpusRight
<1>7. ASSUME NEW c \in Cpus, CallReturns(c) PROVE TlbTypeOK' /\ CpusRight'
  <2>1. /\ Runs(c) /\ EnvRun(c, curenv[c]) /\ started' = started /\ zombies' = zombies
        /\ Map(curenv[c]) \/ \E f \in Envs : SysIpcTrySend(curenv[c], f)
    BY <1>7 DEF CallReturns
  <2>2. Alive' = Alive
    BY <1>1, <1>4, <2>1, AliveStep
  <2> QED
    BY <1>1, <1>3, <2>1, <2>2, ReturnStep
<1>8. ASSUME NEW c \in Cpus, ExoforkReturns(c) PROVE TlbTypeOK' /\ CpusRight'
  <2>1. PICK child \in Envs : /\ Runs(c) /\ Exofork(curenv[c], child) /\ started' = started \ {child}
                              /\ EnvRun(c, curenv[c]) /\ zombies' = zombies
    BY <1>8 DEF ExoforkReturns
  <2>2. Alive' = Alive \cup {child}
    BY <1>1, <1>4, <2>1, AliveStep
  <2>3. started' \subseteq Envs /\ zombies' \subseteq Envs
    BY <1>1, <2>1
  <2>4. \A d \in Cpus : curenv[d] # NoEnv => curenv[d] \in Alive'
    BY <1>3, <2>2
  <2> QED
    BY <1>1, <2>1, <2>3, <2>4, ReturnStep
<1>9. ASSUME NEW c \in Cpus, Start(c) PROVE TlbTypeOK' /\ CpusRight'
  <2>1. PICK f \in Mine(curenv[c]) : /\ Runs(c) /\ started' = started \cup {f} /\ UNCHANGED allVars
                                     /\ zombies' = zombies /\ EnvRun(c, curenv[c])
    BY <1>9 DEF Start
  <2>2. f \in Envs /\ Alive' = Alive
    BY <1>5, <2>1 DEF Mine
  <2>3. started' \subseteq Envs /\ zombies' \subseteq Envs
    BY <1>1, <2>1, <2>2
  <2>4. \A d \in Cpus : curenv[d] # NoEnv => curenv[d] \in Alive'
    BY <1>3, <2>2
  <2> QED
    BY <1>1, <2>1, <2>3, <2>4, ReturnStep
<1>10. ASSUME NEW c \in Cpus, Recv(c) PROVE TlbTypeOK' /\ CpusRight'
  <2>1. PICK va \in Vas \cup {NoVa} : /\ Runs(c) /\ SysIpcRecv(curenv[c], va)
                                      /\ started' = started /\ zombies' = zombies /\ SchedYield(c)
    BY <1>10 DEF Recv
  <2>2. Alive' = Alive
    BY <1>1, <1>4, <2>1, AliveStep
  <2> QED
    BY <1>1, <1>3, <2>1, <2>2, SchedYieldStep
<1>11. ASSUME NEW c \in Cpus, Yield(c) PROVE TlbTypeOK' /\ CpusRight'
  <2>1. UNCHANGED allVars /\ started' = started /\ zombies' = zombies /\ SchedYield(c)
    BY <1>11 DEF Yield
  <2> QED
    BY <1>1, <1>3, <1>5, <2>1, SchedYieldStep
<1>12. ASSUME NEW c \in Cpus, NEW f \in Envs, Kill(c, f) PROVE TlbTypeOK' /\ CpusRight'
  <2>1. /\ Runs(c) /\ zombies' = zombies \cup {f} /\ UNCHANGED allVars
        /\ started' = started /\ EnvRun(c, curenv[c])
    BY <1>12 DEF Kill
  <2>2. f \in Envs /\ Alive' = Alive
    BY <1>5, <2>1
  <2>3. started' \subseteq Envs /\ zombies' \subseteq Envs
    BY <1>1, <2>1, <2>2
  <2>4. \A d \in Cpus : curenv[d] # NoEnv => curenv[d] \in Alive'
    BY <1>3, <2>2
  <2> QED
    BY <1>1, <2>1, <2>3, <2>4, ReturnStep
<1>13. ASSUME NEW c \in Cpus, NEW f \in Envs \ zombies, Destroy(c, f) PROVE TlbTypeOK' /\ CpusRight'
  <2>1. /\ Runs(c) /\ (\A d \in Cpus : curenv[d] # f) /\ Free(f)
        /\ started' = started /\ zombies' = zombies \ {f} /\ EnvRun(c, curenv[c])
    BY <1>13 DEF Destroy, Running
  <2>2. Alive' = Alive \ {f}
    BY <1>1, <2>1, AliveStep
  <2>3. \A d \in Cpus : curenv[d] # NoEnv => curenv[d] \in Alive'
    BY <1>3, <2>1, <2>2
  <2>4. started' \subseteq Envs /\ zombies' \subseteq Envs
    BY <1>1, <2>1
  <2> QED
    BY <1>1, <2>1, <2>3, <2>4, ReturnStep
<1>14. ASSUME NEW c \in Cpus, Exit(c) PROVE TlbTypeOK' /\ CpusRight'
  <2>1. /\ curenv[c] \in Envs /\ Free(curenv[c]) /\ zombies' = zombies \ {curenv[c]}
        /\ started' = started /\ SchedYield(c)
    BY <1>14 DEF Exit
  <2>2. Alive' = Alive \ {curenv[c]}
    BY <1>1, <2>1, AliveStep
  <2>3. \A d \in Cpus \ {c} : curenv[d] # NoEnv => curenv[d] \in Alive'
    <3>1. curenv[c] # NoEnv
      BY <2>1, MemoryAssumption
    <3> QED
      BY <1>1, <1>3, <2>2, <3>1 DEF CpusRight
  <2>4. started' \subseteq Envs /\ zombies' \subseteq Envs
    BY <1>1, <2>1
  <2> QED
    BY <1>1, <2>1, <2>3, <2>4, SchedYieldStep
<1>15. CASE UNCHANGED tlbVars
  <2>1. UNCHANGED <<m, curenv, cr3, tlb, remote, started, zombies>>
    BY <1>15 DEF tlbVars, allVars, vars, cpuVars
  <2>2. TlbTypeOK'
    BY <1>1, <2>1 DEF TlbTypeOK
  <2>3. Alive' = Alive /\ \A c \in Cpus : Fresh(c) => Fresh(c)'
    BY <2>1 DEF Alive, Fresh
  <2> QED
    BY <1>1, <2>1, <2>2, <2>3 DEF CpusRight
<1> QED
  BY <1>6, <1>7, <1>8, <1>9, <1>10, <1>11, <1>12, <1>13, <1>14, <1>15 DEF TlbNext, DestroyChild

\* If nobody destroys a zombie again (DestroyChild): no CPU uses a freed page
\* directory, no two the same one, and a TLB is stale only where a parent
\* changed the memory of a child on another CPU (lcr3 in env_run, sched_halt and
\* env_free).
THEOREM TlbStaysRight == TlbSpec => []TlbRight
<1>1. TlbInv => TlbRight
  BY DEF TlbInv, TlbRight, CpusRight, Fresh
<1>2. TlbInv /\ [TlbNext]_tlbVars => TlbInv'
  BY TlbStep
<1> QED
  BY TlbInitInv, <1>1, <1>2, PTL DEF TlbSpec
==============================================================================
