----------------------------- MODULE MachineProofs -----------------------------
(***************************************************************************)
(* Proofs about what MCLibrary runs.  Of the machines: the content of a    *)
(* file of fisopfs, for a buffer of any size; the user exception stack,    *)
(* for any size and any depth of nested faults; the console's input, for   *)
(* a buffer of any size and any of the keys; and the start of the kernel,  *)
(* for any number of CPUs and any size of the page tables.  Of the         *)
(* routines: the moves of memmove(), the buffer of strlcpy(), the search   *)
(* of stab_binsearch(), what user_mem_check() accepts, what                *)
(* boot_map_region() maps, which pages page_init() frees, the program      *)
(* load_icode() leaves in memory and the CPUs mp_init() counts, each for   *)
(* every argument.                                                         *)
(***************************************************************************)
EXTENDS FileContent, ExceptionStack, Console, StartUp, FiniteSetsExt, FiniteSetTheorems, SequenceTheorems, TLAPS

CONSTANTS PGSIZE, PAGES, LPGSIZE, UTOP, USTACKTOP   \* of Boot
Lib == INSTANCE CString
Debug == INSTANCE Stabs
Start == INSTANCE Boot

-----------------------------------------------------------------------------
(* Natural numbers.                                                        *)

\* A set of natural numbers that is not empty has a least one.
LEMMA LeastExists ==
    ASSUME NEW S, S \subseteq Nat, S # {}
    PROVE  \E i \in S : \A j \in S : i <= j
<1>1. PICK s \in S : TRUE
  OBVIOUS
<1> DEFINE R == StrictSubsetOrdering(0 .. s)
           T == {0 .. k : k \in S \cap (0 .. s)}
<1>2. IsWellFoundedOn(R, FiniteSubsetsOf(0 .. s))
  BY FS_StrictSubsetOrderingWellFounded
<1>3. T \subseteq FiniteSubsetsOf(0 .. s) /\ T # {}
  <2>1. \A k \in S \cap (0 .. s) : IsFiniteSet(0 .. k) /\ 0 .. k \subseteq 0 .. s
    BY FS_Interval
  <2> QED
    BY <1>1, <2>1 DEF FiniteSubsetsOf
<1>4. PICK x \in T : \A y \in T : <<y, x>> \notin R
  <2> HIDE DEF R, T
  <2> QED BY <1>2, <1>3, WFMin
<1>5. PICK k \in S \cap (0 .. s) : x = 0 .. k
  OBVIOUS
<1>6. ASSUME NEW j \in S, j < k PROVE FALSE
  <2>1. 0 .. j \in T /\ 0 .. j \subseteq 0 .. k /\ 0 .. k \subseteq 0 .. s
    BY <1>5, <1>6
  <2>2. 0 .. j # 0 .. k
    <3>1. k \in 0 .. k /\ k \notin 0 .. j
      BY <1>5, <1>6
    <3> QED BY <3>1
  <2>3. <<0 .. j, 0 .. k>> \in R
    BY <2>1, <2>2 DEF StrictSubsetOrdering
  <2> QED
    BY <1>4, <1>5, <2>1, <2>3
<1> QED
  BY <1>5, <1>6

-----------------------------------------------------------------------------
(* The console: the buffer, whatever its size, whichever keys there are.   *)

ModifierFlags == {"SHIFT", "CTL", "ALT"}
Buffers == [buf : [0 .. CONSBUFSIZE - 1 -> Chars \cup {NO}],
            rpos : 0 .. CONSBUFSIZE - 1, wpos : 0 .. CONSBUFSIZE - 1]
Inputs == [shift : SUBSET Flags, cons : Buffers, waiting : Seq(Chars)]

\* What cons_intr() finds and leaves: the buffer holds what waits.
Queued(r) == r \in Inputs /\ Contents(r.cons) = r.waiting

\* The shift state after each byte.
Shifts(g, s, bytes) == g = [k \in 0 .. Len(bytes) |-> IF k = 0 THEN s ELSE KbdProcData(g[k - 1], bytes[k])[1]]

\* The shift state says which keys are down.
Reflects(s) == /\ s \subseteq Flags /\ "E0ESC" \notin s
               /\ \A f \in ModifierFlags : /\ f \in s => Down(f) # {}
                                           /\ Down(f) # {} /\ f \notin doubled => f \in s

\* The shift state that the bytes make of it.
Leads(s, bytes, to) == \E h : Shifts(h, s, bytes) /\ h[Len(bytes)] = to

\* It will when what the keyboard has sent, and has yet to send, is processed.
WillReflect == \E to : Leads(shift, port \o sending, to) /\ Reflects(to)

\* Of two keys with one flag that are both down, doubled tells.
OneDown == \A f \in ModifierFlags : \A j, k \in Down(f) : f \notin doubled => j = k

ConsoleInv ==
    /\ held \subseteq Keys /\ doubled \subseteq Flags
    /\ port \in Seq(Nat) /\ sending \in Seq(Nat) /\ Len(port) <= PortSize
    /\ uart \in Serial \cup {NO}
    /\ Queued(Now)
    /\ OneDown
    /\ WillReflect

\* kbd_proc_data() makes flags of flags, and a character or none of any byte.
LEMMA KbdProcDataType ==
    ASSUME NEW s \in SUBSET Flags, NEW data
    PROVE  KbdProcData(s, data)[1] \in SUBSET Flags /\ KbdProcData(s, data)[2] \in Chars \cup {NO}
<1>1. \A d : shiftcode(d) \subseteq Flags /\ togglecode(d) \subseteq Flags
  BY DEF shiftcode, togglecode, Flags
<1>2. \A t, d : charcode(t, d) \in Chars \cup {NO}
  BY DEF charcode, Chars
<1>3. \A c \in Chars \cup {NO} : SwapCase(c) \in Chars \cup {NO}
  BY DEF SwapCase, Chars
<1> DEFINE d == IF "E0ESC" \in s THEN data + 128 ELSE data
           released == IF "E0ESC" \in s THEN data ELSE data - 128
           now == Toggle((s \ {"E0ESC"}) \cup shiftcode(d), togglecode(d))
           c == charcode(now, d)
<1>4. now \in SUBSET Flags
  BY <1>1 DEF Toggle
<1>5. c \in Chars \cup {NO} /\ SwapCase(c) \in Chars \cup {NO}
  BY <1>2, <1>3
<1>6. "E0ESC" \in Flags
  BY DEF Flags
<1>7. KbdProcData(s, data) = CASE data = E0 -> <<s \cup {"E0ESC"}, NO>>
          [] data # E0 /\ data >= 128 -> <<s \ (shiftcode(released) \cup {"E0ESC"}), NO>>
          [] OTHER -> <<now, IF "CAPSLOCK" \in now THEN SwapCase(c) ELSE c>>
  BY DEF KbdProcData
<1> HIDE DEF d, released, now, c
<1>8. CASE data = E0
  BY <1>6, <1>7, <1>8
<1>9. CASE data # E0 /\ data >= 128
  BY <1>7, <1>9
<1>10. CASE data # E0 /\ ~(data >= 128)
  BY <1>4, <1>5, <1>7, <1>10
<1> QED
  BY <1>8, <1>9, <1>10

-----------------------------------------------------------------------------
(* The buffer.                                                             *)

\* One more character is behind all that wait, or nothing waits.
LEMMA PutQueues ==
    ASSUME NEW r, Queued(r), NEW c \in Chars \cup {NO}
    PROVE  Queued(Put(r, c)) /\ Put(r, c).shift = r.shift
<1> DEFINE b == r.cons
           q == r.waiting
           n == Put(r, c)
<1>1. CASE c = NO
  BY <1>1 DEF Put
<1>2. CASE c # NO
  <2>1. /\ r \in Inputs /\ b \in Buffers /\ q \in Seq(Chars) /\ Contents(b) = q
        /\ b.rpos \in 0 .. CONSBUFSIZE - 1 /\ b.wpos \in 0 .. CONSBUFSIZE - 1
        /\ CONSBUFSIZE \in Nat /\ CONSBUFSIZE > 1
    BY ConsoleAssumption DEF Queued, Inputs, Buffers
  <2>2. Len(q) = Held(b) /\ \A i \in 1 .. Held(b) : q[i] = b.buf[Slot(b, i)]
    <3>1. Held(b) \in Nat
      BY <2>1, SMTT(30) DEF Held
    <3> QED
      BY <2>1, <3>1 DEF Contents
  <2> DEFINE m == [buf |-> [b.buf EXCEPT ![b.wpos] = c], rpos |-> b.rpos, wpos |-> Following(b.wpos)]
             w == IF Len(q) = CONSBUFSIZE - 1 THEN <<>> ELSE Append(q, c)
  <2>3. n.shift = r.shift /\ n.cons = m /\ n.waiting = w /\ n = [shift |-> r.shift, cons |-> m, waiting |-> w]
    BY <1>2, <2>1 DEF Put, Inputs, Buffers
  <2>4. Following(b.wpos) \in 0 .. CONSBUFSIZE - 1
    BY <2>1 DEF Following
  <2>5. m \in Buffers /\ w \in Seq(Chars)
    BY <1>2, <2>1, <2>4 DEF Buffers
  <2>6. n \in Inputs
    BY <2>1, <2>3, <2>5 DEF Inputs
  <2>7. Contents(m) = w
    <3>11. /\ m.rpos = b.rpos /\ m.wpos = Following(b.wpos)
          /\ b.rpos \in 0 .. CONSBUFSIZE - 1 /\ b.wpos \in 0 .. CONSBUFSIZE - 1
          /\ CONSBUFSIZE \in Nat /\ CONSBUFSIZE > 1
      BY <2>1
    <3>12. Held(m) = IF Held(b) = CONSBUFSIZE - 1 THEN 0 ELSE Held(b) + 1
      <4> HIDE DEF m, b
      <4> QED
        BY <3>11 DEF Held, Following
    <3>13. Held(b) # CONSBUFSIZE - 1 =>
             \A i \in 1 .. Held(b) : Slot(m, i) = Slot(b, i) /\ Slot(b, i) # b.wpos /\ Slot(b, i) \in 0 .. CONSBUFSIZE - 1
      <4> HIDE DEF m, b
      <4> QED
        BY <3>11 DEF Held, Slot
    <3>14. Held(b) # CONSBUFSIZE - 1 => Slot(m, Held(b) + 1) = b.wpos
      <4> HIDE DEF m, b
      <4> QED
        BY <3>11 DEF Held, Slot
    <3> HIDE DEF q, w
    <3>1. CASE Held(b) = CONSBUFSIZE - 1
      <4>1. Held(m) = 0
        BY <3>1, <3>12
      <4> QED
        BY <2>2, <3>1, <4>1 DEF Contents, w
    <3>2. CASE Held(b) # CONSBUFSIZE - 1
      <4>1. Held(m) = Held(b) + 1 /\ Held(b) \in Nat
        BY <2>2, <3>2, <3>12, <2>1 DEF Held
      <4>2. \A i \in 1 .. Held(b) : Slot(m, i) = Slot(b, i) /\ Slot(b, i) # b.wpos /\ Slot(b, i) \in 0 .. CONSBUFSIZE - 1
        BY <3>2, <3>13
      <4>3. Slot(m, Held(b) + 1) = b.wpos
        BY <3>2, <3>14
      <4>4. \A i \in 1 .. Held(b) : m.buf[Slot(m, i)] = q[i]
        BY <2>1, <2>2, <4>2 DEF Buffers
      <4>5. m.buf[Slot(m, Held(b) + 1)] = c
        BY <2>1, <4>3 DEF Buffers
      <4>6. w = Append(q, c) /\ q \in Seq(Chars)
        BY <2>1, <2>2, <3>2 DEF q, w
      <4>7. Len(w) = Held(b) + 1 /\ \A i \in 1 .. Held(b) + 1 : w[i] = IF i = Held(b) + 1 THEN c ELSE q[i]
        BY <2>2, <4>1, <4>6
      <4>8. w = [i \in 1 .. Held(b) + 1 |-> w[i]]
        BY <2>5, <4>7
      <4>9. \A i \in 1 .. Held(b) + 1 : m.buf[Slot(m, i)] = w[i]
        BY <4>1, <4>4, <4>5, <4>7, SMTT(30)
      <4> HIDE DEF m
      <4> QED
        BY <4>1, <4>8, <4>9 DEF Contents
    <3> QED
      BY <3>1, <3>2
  <2> QED
    BY <2>3, <2>6, <2>7 DEF Queued
<1> QED
  BY <1>1, <1>2

\* cons_getc() takes what has waited longest.
LEMMA TakeQueues ==
    ASSUME NEW r, Queued(r), r.cons.rpos # r.cons.wpos
    PROVE  Queued([r EXCEPT !.cons.rpos = Following(@), !.waiting = Tail(@)])
<1> DEFINE b == r.cons
           q == r.waiting
           m == [buf |-> b.buf, rpos |-> Following(b.rpos), wpos |-> b.wpos]
           n == [r EXCEPT !.cons.rpos = Following(@), !.waiting = Tail(@)]
<1>1. /\ r \in Inputs /\ b \in Buffers /\ q \in Seq(Chars) /\ Contents(b) = q
      /\ b.rpos \in 0 .. CONSBUFSIZE - 1 /\ b.wpos \in 0 .. CONSBUFSIZE - 1
      /\ CONSBUFSIZE \in Nat /\ CONSBUFSIZE > 1
  BY ConsoleAssumption DEF Queued, Inputs, Buffers
<1>11. /\ m.rpos = Following(b.rpos) /\ m.wpos = b.wpos /\ b.rpos # b.wpos
      /\ b.rpos \in 0 .. CONSBUFSIZE - 1 /\ b.wpos \in 0 .. CONSBUFSIZE - 1
      /\ CONSBUFSIZE \in Nat /\ CONSBUFSIZE > 1
  BY <1>1
<1>12. Held(b) \in Nat \ {0} /\ Held(m) = Held(b) - 1
  <2> HIDE DEF m, b
  <2> QED
    BY <1>11 DEF Held, Following
<1>13. \A i \in 1 .. Held(b) - 1 : Slot(m, i) = Slot(b, i + 1)
  <2> HIDE DEF m, b
  <2> QED
    BY <1>11, <1>12 DEF Held, Slot, Following
<1>2. /\ Held(b) \in Nat \ {0} /\ Len(q) = Held(b) /\ q # <<>>
      /\ \A i \in 1 .. Held(b) : q[i] = b.buf[Slot(b, i)]
  <2>1. Held(b) \in Nat \ {0}
    BY <1>12
  <2> QED
    BY <1>1, <2>1 DEF Contents
<1>3. n = [shift |-> r.shift, cons |-> m, waiting |-> Tail(q)]
  <2>1. b = [buf |-> b.buf, rpos |-> b.rpos, wpos |-> b.wpos] /\ r = [shift |-> r.shift, cons |-> b, waiting |-> q]
    BY <1>1 DEF Inputs, Buffers
  <2>2. n = [r EXCEPT !.cons = [b EXCEPT !.rpos = Following(b.rpos)], !.waiting = Tail(q)]
    BY <2>1
  <2>3. [b EXCEPT !.rpos = Following(b.rpos)] = m
    BY <1>1 DEF Buffers
  <2> HIDE DEF m, n
  <2> QED
    BY <1>1, <2>2, <2>3 DEF Inputs
<1>4. m \in Buffers /\ Tail(q) \in Seq(Chars)
  BY <1>1, <1>2, SMTT(30) DEF Buffers, Following
<1>5. Held(m) = Held(b) - 1
  BY <1>12
<1>6. \A i \in 1 .. Held(b) - 1 : Slot(m, i) = Slot(b, i + 1)
  BY <1>13
<1>7. /\ Len(Tail(q)) = Held(b) - 1 /\ \A i \in 1 .. Held(b) - 1 : Tail(q)[i] = q[i + 1]
      /\ Tail(q) = [i \in 1 .. Held(b) - 1 |-> Tail(q)[i]]
  <2>1. Len(Tail(q)) = Held(b) - 1 /\ \A i \in 1 .. Held(b) - 1 : Tail(q)[i] = q[i + 1]
    BY <1>1, <1>2
  <2> QED
    BY <1>4, <2>1
<1>8. Contents(m) = Tail(q)
  <2>1. \A i \in 1 .. Held(b) - 1 : m.buf[Slot(m, i)] = Tail(q)[i]
    BY <1>2, <1>6, <1>7, SMTT(30)
  <2> HIDE DEF m
  <2> QED
    BY <1>5, <1>7, <2>1 DEF Contents
<1> QED
  BY <1>1, <1>3, <1>4, <1>8 DEF Queued, Inputs


-----------------------------------------------------------------------------
(* The loop of cons_intr().                                                *)

\* What each byte leaves.
After(f, r, bytes) == f = [k \in 0 .. Len(bytes) |-> IF k = 0 THEN r ELSE PutKey(f[k - 1], bytes[k])]

LEMMA PutKeyQueues ==
    ASSUME NEW r, Queued(r), NEW data
    PROVE  Queued(PutKey(r, data)) /\ PutKey(r, data).shift = KbdProcData(r.shift, data)[1]
<1> DEFINE p == KbdProcData(r.shift, data)
           n == [r EXCEPT !.shift = p[1]]
<1>1. r \in Inputs /\ r.shift \in SUBSET Flags
  BY DEF Queued, Inputs
<1>2. p[1] \in SUBSET Flags /\ p[2] \in Chars \cup {NO}
  BY <1>1, KbdProcDataType
<1>3. PutKey(r, data) = Put(n, p[2])
  BY DEF PutKey
<1> HIDE DEF p
<1>4. n \in Inputs /\ n.shift = p[1] /\ n.cons = r.cons /\ n.waiting = r.waiting
  BY <1>1, <1>2 DEF Inputs
<1>5. Queued(n)
  BY <1>4 DEF Queued
<1> HIDE DEF n
<1> QED
  BY <1>2, <1>3, <1>4, <1>5, PutQueues DEF p

\* Of each byte there is a state that it leaves.
LEMMA AfterExists ==
    ASSUME NEW r, NEW bytes \in Seq(Nat)
    PROVE  \E f : After(f, r, bytes) /\ PutKeys(r, bytes) = f[Len(bytes)]
<1> DEFINE Upto(f, n) == f = [k \in 0 .. n |-> IF k = 0 THEN r ELSE PutKey(f[k - 1], bytes[k])]
           B == {i \in Nat : ~ \E f : Upto(f, i)}
<1>1. B = {}
  <2> SUFFICES ASSUME B # {} PROVE FALSE
    OBVIOUS
  <2>1. PICK i \in B : \A j \in B : i <= j
    <3>1. B \subseteq Nat
      OBVIOUS
    <3> HIDE DEF B
    <3> QED
      BY <3>1, LeastExists
  <2>2. i # 0
    <3> DEFINE f == [k \in 0 .. 0 |-> r]
    <3>1. Upto(f, 0)
      OBVIOUS
    <3> QED
      BY <2>1, <3>1
  <2>3. i - 1 \in Nat /\ i \in Nat /\ i - 1 \notin B
    <3>1. i \in Nat
      OBVIOUS
    <3>2. i - 1 \in Nat /\ ~(i <= i - 1)
      BY <2>2, <3>1
    <3> HIDE DEF B
    <3> QED
      BY <2>1, <3>1, <3>2
  <2>4. PICK g : Upto(g, i - 1)
    BY <2>3
  <2> DEFINE last == PutKey(g[i - 1], bytes[i])
             f == [k \in 0 .. i |-> IF k = i THEN last ELSE g[k]]
  <2>5. \A k \in 0 .. i - 1 : f[k] = g[k] /\ g[k] = IF k = 0 THEN r ELSE PutKey(g[k - 1], bytes[k])
    BY <2>3, <2>4
  <2>6. f[i] = last /\ i - 1 \in 0 .. i - 1
    BY <2>3
  <2>7. ASSUME NEW k \in 0 .. i PROVE f[k] = IF k = 0 THEN r ELSE PutKey(f[k - 1], bytes[k])
    <3>1. CASE k = i
      BY <2>2, <2>5, <2>6, <3>1
    <3>2. CASE k # i
      <4>1. k \in 0 .. i - 1 /\ (k # 0 => k - 1 \in 0 .. i - 1)
        BY <2>3, <3>2
      <4> HIDE DEF f, last
      <4> QED
        BY <2>5, <4>1
    <3> QED
      BY <3>1, <3>2
  <2>8. f = [k \in 0 .. i |-> f[k]]
    OBVIOUS
  <2> HIDE DEF f
  <2>9. Upto(f, i)
    BY <2>7, <2>8
  <2> QED
    BY <2>1, <2>9
<1>2. \E f : After(f, r, bytes)
  BY <1>1 DEF After
<1> DEFINE f == CHOOSE f : After(f, r, bytes)
<1>3. After(f, r, bytes)
  BY <1>2
<1>4. PutKeys(r, bytes) = f[Len(bytes)]
  BY DEF PutKeys, After
<1> QED
  BY <1>3, <1>4

\* The keyboard's bytes leave the buffer right, and the shift state that they
\* make one after the other.
LEMMA PutKeysQueues ==
    ASSUME NEW r, Queued(r), NEW bytes \in Seq(Nat), NEW g, NEW more \in Seq(Nat),
           Shifts(g, r.shift, bytes \o more)
    PROVE  Queued(PutKeys(r, bytes)) /\ PutKeys(r, bytes).shift = g[Len(bytes)]
<1>1. PICK f : After(f, r, bytes) /\ PutKeys(r, bytes) = f[Len(bytes)]
  BY AfterExists
<1>2. Len(bytes) \in Nat
  OBVIOUS
<1>3. f[0] = r /\ \A k \in 1 .. Len(bytes) : f[k] = PutKey(f[k - 1], bytes[k])
  <2>1. \A k \in 0 .. Len(bytes) : f[k] = IF k = 0 THEN r ELSE PutKey(f[k - 1], bytes[k])
    BY <1>1 DEF After
  <2>2. 0 \in 0 .. Len(bytes) /\ \A k \in 1 .. Len(bytes) : k \in 0 .. Len(bytes) /\ k # 0
    BY <1>2
  <2> QED
    BY <2>1, <2>2
<1>4. g[0] = r.shift /\ \A k \in 1 .. Len(bytes) : g[k] = KbdProcData(g[k - 1], bytes[k])[1]
  <2>1. /\ bytes \o more \in Seq(Nat) /\ Len(bytes \o more) = Len(bytes) + Len(more) /\ Len(more) \in Nat
        /\ \A k \in 1 .. Len(bytes) : (bytes \o more)[k] = bytes[k]
    OBVIOUS
  <2> DEFINE all == bytes \o more
  <2> HIDE DEF all
  <2>2. /\ g[0] = r.shift
        /\ \A k \in 1 .. Len(bytes) : g[k] = KbdProcData(g[k - 1], all[k])[1]
    BY <1>2, <2>1, SMTT(20) DEF Shifts, all
  <2> QED
    BY <2>1, <2>2 DEF all
<1> DEFINE B == {k \in 0 .. Len(bytes) : ~(Queued(f[k]) /\ f[k].shift = g[k])}
<1>5. B = {}
  <2> SUFFICES ASSUME B # {} PROVE FALSE
    OBVIOUS
  <2>1. PICK i \in B : \A j \in B : i <= j
    <3>1. B \subseteq Nat
      BY <1>2
    <3> HIDE DEF B
    <3> QED
      BY <3>1, LeastExists
  <2>2. i \in 0 .. Len(bytes) /\ ~(Queued(f[i]) /\ f[i].shift = g[i])
    BY <2>1
  <2>3. i # 0
    BY <1>3, <1>4, <2>2
  <2>4. i - 1 \in 0 .. Len(bytes) /\ i \in 1 .. Len(bytes) /\ ~(i <= i - 1)
    BY <1>2, <2>2, <2>3
  <2>5. Queued(f[i - 1]) /\ f[i - 1].shift = g[i - 1]
    BY <2>1, <2>4
  <2>6. f[i] = PutKey(f[i - 1], bytes[i]) /\ g[i] = KbdProcData(g[i - 1], bytes[i])[1]
    BY <1>3, <1>4, <2>4
  <2> HIDE DEF B
  <2> QED
    BY <2>2, <2>5, <2>6, PutKeyQueues
<1> QED
  BY <1>1, <1>2, <1>5

-----------------------------------------------------------------------------
(* The shift state.                                                        *)

\* One more byte.
LEMMA OneMoreByte ==
    ASSUME NEW s, NEW bytes \in Seq(Nat), NEW g, Shifts(g, s, bytes), NEW b \in Nat
    PROVE  \E h : /\ Shifts(h, s, Append(bytes, b))
                  /\ h[Len(bytes) + 1] = KbdProcData(g[Len(bytes)], b)[1]
<1> DEFINE n == Len(bytes)
           all == Append(bytes, b)
           last == KbdProcData(g[n], b)[1]
           h == [k \in 0 .. n + 1 |-> IF k = n + 1 THEN last ELSE g[k]]
<1>1. n \in Nat /\ Len(all) = n + 1 /\ all[n + 1] = b /\ \A k \in 1 .. n : all[k] = bytes[k]
  OBVIOUS
<1>2. \A k \in 0 .. n : g[k] = IF k = 0 THEN s ELSE KbdProcData(g[k - 1], bytes[k])[1]
  BY DEF Shifts
<1>3. h[n + 1] = last /\ \A k \in 0 .. n : h[k] = g[k]
  BY <1>1
<1>4. h = [k \in 0 .. n + 1 |-> h[k]]
  OBVIOUS
<1> HIDE DEF h, all
<1>5. ASSUME NEW k \in 0 .. n + 1 PROVE h[k] = IF k = 0 THEN s ELSE KbdProcData(h[k - 1], all[k])[1]
  <2> HIDE DEF n
  <2>1. CASE k = n + 1
    <3>1. k # 0 /\ k - 1 = n /\ n \in 0 .. n
      BY <1>1, <2>1
    <3> QED
      BY <1>1, <1>3, <2>1, <3>1
  <2>2. CASE k # n + 1
    <3>1. k \in 0 .. n /\ (k # 0 => k \in 1 .. n /\ k - 1 \in 0 .. n)
      BY <1>1, <2>2
    <3> HIDE DEF last
    <3> QED
      BY <1>1, <1>2, <1>3, <3>1
  <2> QED
    BY <2>1, <2>2
<1>6. Shifts(h, s, all)
  BY <1>1, <1>4, <1>5 DEF Shifts
<1> QED
  BY <1>3, <1>6 DEF all

\* A byte that starts an escape, a key's code when there is none, and after one.
LEMMA EscapeByte ==
    ASSUME NEW s
    PROVE  KbdProcData(s, E0)[1] = s \cup {"E0ESC"}
BY DEF KbdProcData

LEMMA PlainByte ==
    ASSUME NEW s, "E0ESC" \notin s, NEW c \in Nat, c < 128, c # 96
    PROVE  /\ KbdProcData(s, c)[1] = Toggle(s \cup shiftcode(c), togglecode(c))
           /\ KbdProcData(s, c + 128)[1] = s \ shiftcode(c)
<1>1. c # E0 /\ ~(c >= 128) /\ c + 128 >= 128 /\ c + 128 # E0 /\ (c + 128) - 128 = c
  BY DEF E0
<1>2. s \ {"E0ESC"} = s /\ s \ (shiftcode(c) \cup {"E0ESC"}) = s \ shiftcode(c)
  OBVIOUS
<1>3. KbdProcData(s, c)[1] = Toggle((s \ {"E0ESC"}) \cup shiftcode(c), togglecode(c))
  BY <1>1 DEF KbdProcData
<1>4. KbdProcData(s, c + 128)[1] = s \ (shiftcode((c + 128) - 128) \cup {"E0ESC"})
  BY <1>1 DEF KbdProcData
<1> QED
  BY <1>1, <1>2, <1>3, <1>4

LEMMA EscapedByte ==
    ASSUME NEW s, "E0ESC" \notin s, NEW c \in Nat, c >= 128, c < E0
    PROVE  /\ KbdProcData(s \cup {"E0ESC"}, c - 128)[1] = Toggle(s \cup shiftcode(c), togglecode(c))
           /\ KbdProcData(s \cup {"E0ESC"}, c)[1] = s \ shiftcode(c)
<1> DEFINE esc == s \cup {"E0ESC"}
           d == c - 128
<1>1. d # E0 /\ ~(d >= 128) /\ c # E0 /\ c >= 128 /\ d + 128 = c
  BY DEF E0
<1>2. "E0ESC" \in esc /\ esc \ {"E0ESC"} = s /\ esc \ (shiftcode(c) \cup {"E0ESC"}) = s \ shiftcode(c)
  OBVIOUS
<1> HIDE DEF esc, d
<1>3. KbdProcData(esc, d)[1] = Toggle((esc \ {"E0ESC"}) \cup shiftcode(d + 128), togglecode(d + 128))
  BY <1>1, <1>2 DEF KbdProcData
<1>4. KbdProcData(esc, c)[1] = esc \ (shiftcode(c) \cup {"E0ESC"})
  BY <1>1, <1>2 DEF KbdProcData
<1> QED
  BY <1>1, <1>2, <1>3, <1>4 DEF esc, d

\* The scan codes of the keys that are modelled.
LEMMA Codes ==
    ASSUME NEW k \in DOMAIN KeyCode
    PROVE  /\ KeyCode[k] \in Nat /\ KeyCode[k] < E0
           /\ KeyCode[k] # 96
           /\ Modifier(k) \subseteq ModifierFlags /\ togglecode(KeyCode[k]) \subseteq {"CAPSLOCK"}
BY DEF KeyCode, E0, Modifier, ModifierFlags, shiftcode, togglecode

LEMMA OneMoreByteLeads ==
    ASSUME NEW s, NEW bytes \in Seq(Nat), NEW now, Leads(s, bytes, now), NEW b \in Nat
    PROVE  Leads(s, Append(bytes, b), KbdProcData(now, b)[1])
<1>1. PICK g : Shifts(g, s, bytes) /\ g[Len(bytes)] = now
  BY DEF Leads
<1>2. \E h : Shifts(h, s, Append(bytes, b)) /\ h[Len(bytes) + 1] = KbdProcData(g[Len(bytes)], b)[1]
  BY <1>1, OneMoreByte
<1>3. Len(Append(bytes, b)) = Len(bytes) + 1
  OBVIOUS
<1> QED
  BY <1>1, <1>2, <1>3 DEF Leads

\* A key that is pressed or released when no escape is open.
LEMMA KeyShifts ==
    ASSUME NEW s, NEW bytes \in Seq(Nat), NEW now, "E0ESC" \notin now, Leads(s, bytes, now),
           NEW k \in DOMAIN KeyCode
    PROVE  /\ MakeCode(k) \in Seq(Nat) /\ BreakCode(k) \in Seq(Nat)
           /\ Leads(s, bytes \o MakeCode(k), Toggle(now \cup Modifier(k), togglecode(KeyCode[k])))
           /\ Leads(s, bytes \o BreakCode(k), now \ Modifier(k))
<1> DEFINE c == KeyCode[k]
<1>1. c \in Nat /\ c < E0 /\ c # 96
  BY Codes
<1>2. Modifier(k) = shiftcode(c)
  BY DEF Modifier
<1>3. c < 128 \/ c >= 128
  BY <1>1
<1>4. CASE c < 128
  <2>1. MakeCode(k) = <<c>> /\ BreakCode(k) = <<c + 128>>
    BY <1>4 DEF MakeCode, BreakCode
  <2> HIDE DEF c
  <2>2. c \in Nat /\ c + 128 \in Nat
    BY <1>1
  <2>3. /\ KbdProcData(now, c)[1] = Toggle(now \cup shiftcode(c), togglecode(c))
        /\ KbdProcData(now, c + 128)[1] = now \ shiftcode(c)
    BY <1>1, <1>4, PlainByte
  <2>4. \A b \in Nat : bytes \o <<b>> = Append(bytes, b) /\ <<b>> \in Seq(Nat)
    OBVIOUS
  <2>5. Leads(s, Append(bytes, c), KbdProcData(now, c)[1])
    BY <2>2, OneMoreByteLeads
  <2>6. Leads(s, Append(bytes, c + 128), KbdProcData(now, c + 128)[1])
    BY <2>2, OneMoreByteLeads
  <2> QED
    BY <1>2, <2>1, <2>2, <2>3, <2>4, <2>5, <2>6, ZenonT(40) DEF c
<1>5. CASE c >= 128
  <2>1. MakeCode(k) = <<E0, c - 128>> /\ BreakCode(k) = <<E0, c>>
    BY <1>1, <1>5 DEF MakeCode, BreakCode
  <2> DEFINE esc == now \cup {"E0ESC"}
             d == c - 128
             more == Append(bytes, E0)
  <2>2. E0 \in Nat /\ d \in Nat /\ more \in Seq(Nat)
    BY <1>1, <1>5 DEF E0
  <2>3. /\ KbdProcData(esc, d)[1] = Toggle(now \cup shiftcode(c), togglecode(c))
        /\ KbdProcData(esc, c)[1] = now \ shiftcode(c)
    <3> HIDE DEF c
    <3> QED
      BY <1>1, <1>5, EscapedByte
  <2>4. KbdProcData(now, E0)[1] = esc
    BY EscapeByte
  <2> HIDE DEF c, d, esc
  <2>5. Leads(s, more, esc)
    BY <2>2, <2>4, OneMoreByteLeads
  <2>6. \A b \in Nat : bytes \o <<E0, b>> = Append(more, b) /\ <<E0, b>> \in Seq(Nat)
    BY <2>2
  <2> HIDE DEF more
  <2>7. Leads(s, Append(more, d), KbdProcData(esc, d)[1])
    BY <2>2, <2>5, OneMoreByteLeads
  <2>8. Leads(s, Append(more, c), KbdProcData(esc, c)[1])
    BY <1>1, <2>2, <2>5, OneMoreByteLeads
  <2> QED
    BY <1>1, <1>2, <2>1, <2>2, <2>3, <2>6, <2>7, <2>8, ZenonT(40) DEF c, d
<1> QED
  BY <1>3, <1>4, <1>5

\* cons_intr() stops after some of the bytes: the others lead where they did.
LEMMA LeadsOn ==
    ASSUME NEW s, NEW bytes \in Seq(Nat), NEW more \in Seq(Nat), NEW g, Shifts(g, s, bytes \o more)
    PROVE  Leads(g[Len(bytes)], more, g[Len(bytes \o more)])
<1> DEFINE all == bytes \o more
           n == Len(bytes)
           h == [k \in 0 .. Len(more) |-> g[n + k]]
<1>1. /\ n \in Nat /\ Len(more) \in Nat /\ Len(all) = n + Len(more)
      /\ \A k \in 1 .. Len(more) : all[n + k] = more[k]
  BY SMTT(30)
<1> HIDE DEF all, n
<1>2. \A k \in 0 .. Len(all) : g[k] = IF k = 0 THEN s ELSE KbdProcData(g[k - 1], all[k])[1]
  BY DEF Shifts, all
<1>3. ASSUME NEW k \in 0 .. Len(more)
      PROVE  h[k] = IF k = 0 THEN g[n] ELSE KbdProcData(h[k - 1], more[k])[1]
  <2>1. CASE k = 0
    BY <1>1, <2>1
  <2>2. CASE k # 0
    <3>1. k \in 1 .. Len(more) /\ k - 1 \in 0 .. Len(more) /\ n + k \in 0 .. Len(all) /\ n + k # 0
          /\ (n + k) - 1 = n + (k - 1)
      BY <1>1, <2>2
    <3>2. h[k] = g[n + k] /\ h[k - 1] = g[n + (k - 1)]
      BY <3>1
    <3>3. g[n + k] = KbdProcData(g[(n + k) - 1], all[n + k])[1]
      BY <1>2, <3>1
    <3>4. all[n + k] = more[k]
      BY <1>1, <3>1
    <3> HIDE DEF h
    <3> QED
      BY <2>2, <3>1, <3>2, <3>3, <3>4
  <2> QED
    BY <2>1, <2>2
<1>4. h = [k \in 0 .. Len(more) |-> h[k]]
  OBVIOUS
<1>5. h[Len(more)] = g[Len(all)]
  BY <1>1
<1> HIDE DEF h
<1>6. Shifts(h, g[n], more)
  BY <1>3, <1>4 DEF Shifts
<1> QED
  BY <1>5, <1>6 DEF Leads, all, n

\* The keyboard's bytes in the port are processed: the buffer is right, and the
\* rest of what the keyboard sends leads where it did.
LEMMA PutKeysLeads ==
    ASSUME NEW r, Queued(r), NEW bytes \in Seq(Nat), NEW more \in Seq(Nat), NEW to,
           Leads(r.shift, bytes \o more, to)
    PROVE  Queued(PutKeys(r, bytes)) /\ Leads(PutKeys(r, bytes).shift, more, to)
<1>1. PICK g : Shifts(g, r.shift, bytes \o more) /\ g[Len(bytes \o more)] = to
  BY DEF Leads
<1>2. Queued(PutKeys(r, bytes)) /\ PutKeys(r, bytes).shift = g[Len(bytes)]
  BY <1>1, PutKeysQueues
<1>3. Leads(g[Len(bytes)], more, to)
  BY <1>1, LeadsOn
<1> QED
  BY <1>2, <1>3

-----------------------------------------------------------------------------
(* The keys.                                                               *)

\* The flags of a modifier are those of its keys that are down.
LEMMA PressReflects ==
    ASSUME ConsoleInv, NEW k \in Keys, Press(k), NEW s, Reflects(s)
    PROVE  Reflects(Toggle(s \cup Modifier(k), togglecode(KeyCode[k])))' /\ OneDown'
<1> DEFINE t == Toggle(s \cup Modifier(k), togglecode(KeyCode[k]))
<1>1. Modifier(k) \subseteq ModifierFlags /\ togglecode(KeyCode[k]) \subseteq {"CAPSLOCK"}
  BY Codes, ConsoleAssumption
<1>2. t \subseteq Flags /\ "E0ESC" \notin t /\ \A f \in ModifierFlags : f \in t <=> f \in s \/ f \in Modifier(k)
  BY <1>1 DEF Toggle, Flags, ModifierFlags, Reflects
<1>3. \A f \in ModifierFlags : /\ f \in Modifier(k) => Down(f)' = Down(f) \cup {k}
                               /\ f \notin Modifier(k) => Down(f)' = Down(f)
  BY DEF Press, Down, Modifier
<1>4. \A f \in ModifierFlags : f \notin doubled' => f \notin doubled /\ (f \in Modifier(k) => Down(f) \ {k} = {})
  BY DEF Press
<1>5. OneDown /\ \A f \in ModifierFlags : (f \in s => Down(f) # {}) /\ (Down(f) # {} /\ f \notin doubled => f \in s)
  BY DEF ConsoleInv, Reflects
<1>6. OneDown'
  BY <1>3, <1>4, <1>5 DEF OneDown
<1>7. ASSUME NEW f \in ModifierFlags
      PROVE  (f \in t => Down(f)' # {}) /\ (Down(f)' # {} /\ f \notin doubled' => f \in t)
  <2> HIDE DEF t
  <2> QED
    BY <1>2, <1>3, <1>4, <1>5
<1> HIDE DEF t
<1>8. Reflects(t)'
  BY <1>2, <1>7 DEF Reflects
<1> QED
  BY <1>6, <1>8 DEF t

LEMMA ReleaseReflects ==
    ASSUME ConsoleInv, NEW k \in Keys, Release(k), NEW s, Reflects(s)
    PROVE  Reflects(s \ Modifier(k))' /\ OneDown'
<1> DEFINE t == s \ Modifier(k)
<1>1. t \subseteq Flags /\ "E0ESC" \notin t /\ \A f \in ModifierFlags : f \in t <=> f \in s /\ f \notin Modifier(k)
  BY DEF Reflects
<1>2. \A f \in ModifierFlags : Down(f)' = Down(f) \ {k} /\ (f \in Modifier(k) <=> k \in Down(f))
  BY DEF Release, Down, Modifier
<1>3. \A f \in ModifierFlags : f \notin doubled' => f \notin doubled \/ Down(f) = {k}
  BY DEF Release
<1>4. OneDown /\ \A f \in ModifierFlags : (f \in s => Down(f) # {}) /\ (Down(f) # {} /\ f \notin doubled => f \in s)
  BY DEF ConsoleInv, Reflects
<1>5. OneDown'
  BY <1>2, <1>3, <1>4 DEF OneDown
<1>6. ASSUME NEW f \in ModifierFlags
      PROVE  (f \in t => Down(f)' # {}) /\ (Down(f)' # {} /\ f \notin doubled' => f \in t)
  <2> HIDE DEF t
  <2> QED
    BY <1>1, <1>2, <1>3, <1>4 DEF OneDown
<1> HIDE DEF t
<1>7. Reflects(t)'
  BY <1>1, <1>6 DEF Reflects
<1> QED
  BY <1>5, <1>7 DEF t

-----------------------------------------------------------------------------
(* The invariant.                                                          *)

LEMMA ConsoleStarts == Init => ConsoleInv
<1> SUFFICES ASSUME Init PROVE ConsoleInv
  OBVIOUS
<1> DEFINE g == [k \in 0 .. 0 |-> shift]
<1>1. port \o sending = <<>> /\ Len(port \o sending) = 0
  BY DEF Init
<1>2. g = [k \in 0 .. 0 |-> IF k = 0 THEN shift ELSE KbdProcData(g[k - 1], (port \o sending)[k])[1]]
  OBVIOUS
<1>3. Shifts(g, shift, port \o sending) /\ g[Len(port \o sending)] = {}
  <2>1. g[0] = {}
    BY DEF Init
  <2> HIDE DEF g
  <2> QED
    BY <1>1, <1>2, <2>1 DEF Shifts
<1>4. Leads(shift, port \o sending, {})
  BY <1>3 DEF Leads
<1>5. Reflects({}) /\ OneDown
  BY DEF Init, Reflects, OneDown, Down
<1>6. Queued(Now)
  <2>1. CONSBUFSIZE \in Nat /\ CONSBUFSIZE > 1
    BY ConsoleAssumption
  <2>2. Now \in Inputs /\ waiting = <<>> /\ cons.rpos = 0 /\ cons.wpos = 0
    BY <2>1 DEF Init, Now, Inputs, Buffers
  <2>3. Held(cons) = 0
    BY <2>2 DEF Held
  <2>4. Contents(cons) = <<>>
    BY <2>3 DEF Contents
  <2> QED
    BY <2>2, <2>4 DEF Queued, Now
<1> QED
  BY <1>4, <1>5, <1>6, ConsoleAssumption DEF Init, ConsoleInv, WillReflect

LEMMA ConsoleSteps == ConsoleInv /\ [Next]_vars => ConsoleInv'
<1> SUFFICES ASSUME ConsoleInv, [Next]_vars PROVE ConsoleInv'
  OBVIOUS
<1>1. /\ held \subseteq Keys /\ doubled \subseteq Flags /\ uart \in Serial \cup {NO}
      /\ port \in Seq(Nat) /\ sending \in Seq(Nat) /\ Len(port) <= PortSize /\ Queued(Now) /\ OneDown
  BY DEF ConsoleInv
<1>2. PICK to : Leads(shift, port \o sending, to) /\ Reflects(to)
  BY DEF ConsoleInv, WillReflect
<1>3. uart \in Chars \cup {NO}
  BY <1>1 DEF Chars
\* What a device leaves in the buffer is right.
<1>4. Queued(Put(Now, uart)) /\ Put(Now, uart).shift = shift
  BY <1>1, <1>3, PutQueues DEF Now
<1>5. ASSUME NEW r, Queued(r), Becomes(r) PROVE Queued(Now)' /\ shift' = r.shift
  <2>1. r = [shift |-> r.shift, cons |-> r.cons, waiting |-> r.waiting]
    BY <1>5 DEF Queued, Inputs
  <2>2. Now' = r
    BY <1>5, <2>1 DEF Becomes, Now
  <2> QED
    BY <1>5, <2>2 DEF Becomes, Queued
<1>6. PortSize \in Nat
  BY ConsoleAssumption
<1>7. ASSUME NEW k \in Keys, Press(k) PROVE ConsoleInv'
  <2>1. k \in DOMAIN KeyCode /\ Modifier(k) \subseteq Flags
    BY ConsoleAssumption, Codes DEF Flags, ModifierFlags
  <2>2. port \o sending = port
    BY <1>1, <1>7 DEF Press
  <2>3. /\ MakeCode(k) \in Seq(Nat)
        /\ Leads(shift, port \o MakeCode(k), Toggle(to \cup Modifier(k), togglecode(KeyCode[k])))
    BY <1>1, <1>2, <2>1, <2>2, KeyShifts DEF Reflects
  <2>4. Reflects(Toggle(to \cup Modifier(k), togglecode(KeyCode[k])))' /\ OneDown'
    BY <1>2, <1>7, PressReflects
  <2>5. WillReflect'
    BY <1>7, <2>3, <2>4 DEF WillReflect, Press
  <2>6. Queued(Now)'
    BY <1>1, <1>7 DEF Press, Now
  <2>7. (held' \subseteq Keys) /\ (doubled' \subseteq Flags)
    BY <1>1, <1>7, <2>1 DEF Press
  <2> QED
    BY <1>1, <1>7, <2>3, <2>4, <2>5, <2>6, <2>7 DEF ConsoleInv, Press
<1>8. ASSUME NEW k \in Keys, Release(k) PROVE ConsoleInv'
  <2>1. k \in DOMAIN KeyCode
    BY ConsoleAssumption
  <2>2. port \o sending = port
    BY <1>1, <1>8 DEF Release
  <2>3. BreakCode(k) \in Seq(Nat) /\ Leads(shift, port \o BreakCode(k), to \ Modifier(k))
    BY <1>1, <1>2, <2>1, <2>2, KeyShifts DEF Reflects
  <2>4. Reflects(to \ Modifier(k))' /\ OneDown'
    BY <1>2, <1>8, ReleaseReflects
  <2>5. WillReflect'
    BY <1>8, <2>3, <2>4 DEF WillReflect, Release
  <2>6. Queued(Now)'
    BY <1>1, <1>8 DEF Release, Now
  <2>7. (held' \subseteq Keys) /\ (doubled' \subseteq Flags)
    BY <1>1, <1>8 DEF Release
  <2> QED
    BY <1>1, <1>8, <2>3, <2>4, <2>5, <2>6, <2>7 DEF ConsoleInv, Release
\* The keys are as they were in the other steps.
<1>9. held' = held /\ doubled' = doubled => OneDown' /\ (Reflects(to))'
  BY <1>1, <1>2 DEF OneDown, Reflects, Down
<1>10. CASE Send
  <2>1. port' = Append(port, Head(sending)) /\ sending' = Tail(sending) /\ sending # <<>> /\ Len(port) < PortSize
    BY <1>10 DEF Send
  <2>2. Append(port, Head(sending)) \o Tail(sending) = port \o sending
    BY <1>1, <2>1, SMTT(20)
  <2>3. port' \in Seq(Nat) /\ sending' \in Seq(Nat) /\ Len(port') <= PortSize
    BY <1>1, <1>6, <2>1
  <2>4. WillReflect'
    BY <1>2, <1>9, <1>10, <2>1, <2>2 DEF WillReflect, Send
  <2>5. Queued(Now)'
    BY <1>1, <1>10 DEF Send, Now
  <2> QED
    BY <1>1, <1>9, <1>10, <2>3, <2>4, <2>5 DEF ConsoleInv, Send
<1>11. ASSUME NEW c \in Serial, Receive(c) PROVE ConsoleInv'
  <2>1. WillReflect'
    BY <1>2, <1>9, <1>11 DEF WillReflect, Receive, keyboard
  <2>2. Queued(Now)'
    BY <1>1, <1>11 DEF Receive, Now
  <2> QED
    BY <1>1, <1>9, <1>11, <2>1, <2>2 DEF ConsoleInv, Receive, keyboard
\* What the keyboard's handler leaves.
<1>12. ASSUME NEW r, Queued(r), r.shift = shift
       PROVE  Queued(PutKeys(r, port)) /\ Leads(PutKeys(r, port).shift, sending, to)
  BY <1>1, <1>2, <1>12, PutKeysLeads
<1>13. <<>> \o sending = sending /\ <<>> \in Seq(Nat) /\ Len(<<>>) <= PortSize
  BY <1>1, <1>6
<1>14. CASE kbd_intr
  <2>1. Queued(PutKeys(Now, port)) /\ Leads(PutKeys(Now, port).shift, sending, to)
    BY <1>1, <1>12 DEF Now
  <2>2. Queued(Now)' /\ shift' = PutKeys(Now, port).shift
    BY <1>5, <1>14, <2>1 DEF kbd_intr
  <2>3. WillReflect'
    BY <1>9, <1>13, <1>14, <2>1, <2>2 DEF WillReflect, kbd_intr, keyboard
  <2> QED
    BY <1>1, <1>9, <1>13, <1>14, <2>2, <2>3 DEF ConsoleInv, kbd_intr, keyboard
<1>15. CASE serial_intr
  <2>1. Queued(Now)' /\ shift' = shift
    BY <1>4, <1>5, <1>15 DEF serial_intr
  <2>2. WillReflect'
    BY <1>2, <1>9, <1>15, <2>1 DEF WillReflect, serial_intr, keyboard
  <2> QED
    BY <1>1, <1>9, <1>15, <2>1, <2>2 DEF ConsoleInv, serial_intr, keyboard
<1>16. CASE cons_getc
  <2> DEFINE r == PutKeys(Put(Now, uart), port)
             m == IF r.cons.rpos = r.cons.wpos THEN r
                  ELSE [r EXCEPT !.cons.rpos = Following(@), !.waiting = Tail(@)]
  <2>1. Queued(r) /\ Leads(r.shift, sending, to)
    BY <1>4, <1>12
  <2>2. Becomes(m) /\ port' = <<>> /\ uart' = NO /\ UNCHANGED keyboard
    BY <1>16 DEF cons_getc
  <2> HIDE DEF r
  <2>3. Queued(m) /\ m.shift = r.shift
    <3>1. CASE r.cons.rpos = r.cons.wpos
      BY <2>1, <3>1
    <3>2. CASE r.cons.rpos # r.cons.wpos
      <4>1. Queued(m)
        BY <2>1, <3>2, TakeQueues, Zenon
      <4>2. m.shift = r.shift
        BY <2>1, <3>2 DEF Queued, Inputs
      <4> QED
        BY <4>1, <4>2
    <3> QED
      BY <3>1, <3>2
  <2> HIDE DEF m
  <2>4. Queued(Now)' /\ shift' = r.shift
    BY <1>5, <2>2, <2>3
  <2>5. WillReflect'
    BY <1>9, <1>13, <2>1, <2>2, <2>4 DEF WillReflect, keyboard
  <2> QED
    BY <1>1, <1>9, <1>13, <2>2, <2>4, <2>5 DEF ConsoleInv, keyboard
<1>17. CASE UNCHANGED vars
  <2>1. WillReflect'
    BY <1>2, <1>9, <1>17 DEF WillReflect, vars, keyboard
  <2>2. Queued(Now)'
    BY <1>1, <1>17 DEF vars, Now
  <2> QED
    BY <1>1, <1>9, <1>17, <2>1, <2>2 DEF ConsoleInv, vars, keyboard
<1> QED
  BY <1>7, <1>8, <1>10, <1>11, <1>14, <1>15, <1>16, <1>17 DEF Next

\* What waits is in the buffer, and when nothing is on its way from the
\* keyboard the shift state says which keys are down.
LEMMA ConsoleInvRight == ConsoleInv => ConsoleRight
<1> SUFFICES ASSUME ConsoleInv PROVE ConsoleRight
  OBVIOUS
<1>1. ConsoleTypeOK
  <2>1. Now \in Inputs /\ cons \in Buffers /\ shift \in SUBSET Flags
    BY DEF ConsoleInv, Queued, Inputs, Now
  <2> QED
    BY <2>1 DEF ConsoleInv, ConsoleTypeOK, Buffers
<1>2. Contents(cons) = waiting
  BY DEF ConsoleInv, Queued, Now
<1>3. ASSUME sending = <<>>, port = <<>> PROVE Reflects(shift)
  <2>1. PICK to : Leads(shift, <<>>, to) /\ Reflects(to)
    BY <1>3 DEF ConsoleInv, WillReflect
  <2>2. PICK h : Shifts(h, shift, <<>>) /\ h[Len(<<>>)] = to
    BY <2>1 DEF Leads
  <2>3. Len(<<>>) = 0 /\ 0 \in 0 .. 0
    OBVIOUS
  <2>4. h[0] = shift
    BY <2>2, <2>3 DEF Shifts
  <2> QED
    BY <2>1, <2>2, <2>3, <2>4
<1> QED
  BY <1>1, <1>2, <1>3 DEF ConsoleRight, BufferIsQueue, ModifiersAreHeld, Reflects, ModifierFlags

\* Whatever the buffer's size, the keys and the characters: what cons_getc()
\* will return is what came and was not lost together, in order, and no
\* modifier is stuck or forgotten (cons_intr, cons_getc, kbd_proc_data).
THEOREM ConsoleStaysRight == Spec => []ConsoleRight
<1>1. Spec => []ConsoleInv
  BY ConsoleStarts, ConsoleSteps, PTL DEF Spec
<1> QED
  BY <1>1, ConsoleInvRight, PTL

-----------------------------------------------------------------------------
(* The content of a file.                                                  *)

USE ContentAssumption DEF NUL, Slash, DIRECTORY_PATH, Places

\* Why OutsideRight stays true: the string in directory_path always has its
\* end; a buffer that has never been full has an end of its own, before which
\* truncate stops; and of text the size is where that end is.
ContentInv ==
    /\ OutsideRight
    /\ mem[MAX_DATA_SIZE + 1] = NUL
    /\ ~full => \E i \in 0 .. MAX_DATA_SIZE - 1 : mem[i] = NUL
    /\ text => /\ size < MAX_DATA_SIZE
               /\ \A i \in 0 .. size - 1 : mem[i] # NUL

\* strlen() is the first place of a 0, when there is one.
LEMMA StrlenIsFirst ==
    ASSUME NEW c, NEW z \in Places, c[z] = NUL
    PROVE  /\ Strlen(c) \in 0 .. z
           /\ c[Strlen(c)] = NUL
           /\ \A i \in 0 .. Strlen(c) - 1 : c[i] # NUL
<1> DEFINE zeros == {i \in Places : c[i] = NUL}
<1>1. zeros \subseteq Nat /\ z \in zeros
  OBVIOUS
<1>2. \E i \in zeros : \A j \in zeros : i <= j
  BY <1>1, LeastExists
<1>3. Strlen(c) \in zeros /\ \A j \in zeros : Strlen(c) <= j
  BY <1>2 DEF Strlen, Min
<1> QED
  BY <1>1, <1>3

\* What a write leaves: the data over what was there, strlen() of that as the
\* size (the 0 that the code puts there is there already).
LEMMA WriteCopies ==
    ASSUME ContentInv, NEW offset \in 0 .. MAX_DATA_SIZE, NEW data \in Data, Write(offset, data)
    PROVE  /\ Len(data) \in Nat \ {0} /\ offset + Len(data) <= MAX_DATA_SIZE /\ offset <= size
           /\ \A k \in 1 .. Len(data) : data[k] \in Range(data)
           /\ mem' \in [Places -> Bytes \cup {NUL, Slash}]
           /\ \A i \in Places : mem'[i] = IF i \in offset .. offset + Len(data) - 1
                                          THEN data[i - offset + 1] ELSE mem[i]
           /\ size' \in 0 .. MAX_DATA_SIZE + 1 /\ mem'[size'] = NUL
           /\ \A i \in 0 .. size' - 1 : mem'[i] # NUL
           /\ mem'[MAX_DATA_SIZE + 1] = NUL
           /\ text' = (text /\ NUL \notin Range(data) /\ offset + Len(data) < MAX_DATA_SIZE)
           /\ full' = (full \/ size' >= MAX_DATA_SIZE)
<1> DEFINE c == Copied(offset, data)
<1>1. /\ Len(data) \in Nat \ {0} /\ offset + Len(data) <= MAX_DATA_SIZE /\ offset <= size
      /\ \A k \in 1 .. Len(data) : data[k] \in Bytes /\ data[k] \in Range(data)
  BY DEF Data, Write, Range
<1>2. /\ \A i \in Places : c[i] = IF i \in offset .. offset + Len(data) - 1
                                  THEN data[i - offset + 1] ELSE mem[i]
      /\ c \in [Places -> Bytes \cup {NUL, Slash}]
  BY <1>1 DEF Copied, ContentInv, OutsideRight, ContentTypeOK
<1> HIDE DEF c
<1>3. c[MAX_DATA_SIZE + 1] = NUL
  BY <1>1, <1>2 DEF ContentInv
<1>4. /\ Strlen(c) \in 0 .. MAX_DATA_SIZE + 1 /\ c[Strlen(c)] = NUL
      /\ \A i \in 0 .. Strlen(c) - 1 : c[i] # NUL
  BY <1>3, StrlenIsFirst
<1>5. /\ size' = Strlen(c) /\ mem' = Clear(c, size', size' + 1)
      /\ text' = (text /\ NUL \notin Range(data) /\ offset + Len(data) < MAX_DATA_SIZE)
      /\ full' = (full \/ Strlen(c) >= MAX_DATA_SIZE)
  BY DEF Write, SizeAfter, c
<1>6. mem' = c
  BY <1>2, <1>4, <1>5 DEF Clear
<1> QED
  BY <1>1, <1>2, <1>3, <1>4, <1>5, <1>6

\* Text has its end where it was, or where the data end.
LEMMA WrittenText ==
    ASSUME ContentInv, NEW offset \in 0 .. MAX_DATA_SIZE, NEW data \in Data, Write(offset, data),
           text'
    PROVE  /\ size' = IF offset + Len(data) > size THEN offset + Len(data) ELSE size
           /\ size' < MAX_DATA_SIZE
           /\ \A i \in size' .. MAX_DATA_SIZE - 1 : mem'[i] = NUL
<1> DEFINE last == IF offset + Len(data) > size THEN offset + Len(data) ELSE size
<1>1. /\ Len(data) \in Nat \ {0} /\ offset <= size /\ offset + Len(data) < MAX_DATA_SIZE
      /\ text /\ NUL \notin Range(data)
      /\ \A k \in 1 .. Len(data) : data[k] \in Range(data)
      /\ \A i \in Places : mem'[i] = IF i \in offset .. offset + Len(data) - 1
                                     THEN data[i - offset + 1] ELSE mem[i]
      /\ size' \in 0 .. MAX_DATA_SIZE + 1 /\ mem'[size'] = NUL
      /\ \A i \in 0 .. size' - 1 : mem'[i] # NUL
  BY WriteCopies
<1>2. /\ size \in Nat /\ size < MAX_DATA_SIZE
      /\ \A i \in size .. MAX_DATA_SIZE - 1 : mem[i] = NUL
      /\ \A i \in 0 .. size - 1 : mem[i] # NUL
  BY <1>1 DEF ContentInv, OutsideRight, TailClear, ContentTypeOK
<1>3. last \in 0 .. MAX_DATA_SIZE - 1 /\ \A i \in last .. MAX_DATA_SIZE - 1 : mem'[i] = NUL
  <2>1. last \in 0 .. MAX_DATA_SIZE - 1
    BY <1>1, <1>2
  <2>2. ASSUME NEW i \in last .. MAX_DATA_SIZE - 1 PROVE mem'[i] = NUL
    <3>1. i \in Places /\ i \notin offset .. offset + Len(data) - 1 /\ i \in size .. MAX_DATA_SIZE - 1
      BY <1>1, <1>2, <2>1
    <3> QED
      BY <1>1, <1>2, <3>1
  <2> QED
    BY <2>1, <2>2
<1>4. ASSUME NEW i \in 0 .. last - 1 PROVE mem'[i] # NUL
  <2>1. CASE i \in offset .. offset + Len(data) - 1
    <3>1. i - offset + 1 \in 1 .. Len(data) /\ mem'[i] = data[i - offset + 1]
      BY <1>1, <1>3, <2>1
    <3> QED
      BY <1>1, <3>1
  <2>2. CASE i \notin offset .. offset + Len(data) - 1
    <3>1. i \in 0 .. size - 1 /\ mem'[i] = mem[i]
      BY <1>1, <1>2, <2>2
    <3> QED
      BY <1>2, <3>1
  <2> QED
    BY <2>1, <2>2
<1>5. size' = last
  <2>1. last \in Nat /\ size' \in Nat
    BY <1>1, <1>3
  <2>2. ASSUME last < size' PROVE FALSE
    <3>1. last \in last .. MAX_DATA_SIZE - 1 /\ last \in 0 .. size' - 1
      BY <1>3, <2>1, <2>2
    <3>2. mem'[last] = NUL /\ mem'[last] # NUL
      BY <1>1, <1>3, <3>1
    <3> QED
      BY <3>2
  <2>3. ~(size' < last)
    BY <1>1, <1>4, <2>1
  <2> QED
    BY <2>1, <2>2, <2>3
<1> QED
  BY <1>3, <1>5

LEMMA WriteContent ==
    ASSUME ContentInv, NEW offset \in 0 .. MAX_DATA_SIZE, NEW data \in Data, Write(offset, data)
    PROVE  ContentInv'
<1>1. /\ Len(data) \in Nat \ {0} /\ offset + Len(data) <= MAX_DATA_SIZE
      /\ mem' \in [Places -> Bytes \cup {NUL, Slash}]
      /\ \A i \in Places : mem'[i] = IF i \in offset .. offset + Len(data) - 1
                                     THEN data[i - offset + 1] ELSE mem[i]
      /\ size' \in 0 .. MAX_DATA_SIZE + 1 /\ mem'[size'] = NUL
      /\ \A i \in 0 .. size' - 1 : mem'[i] # NUL
      /\ mem'[MAX_DATA_SIZE + 1] = NUL
  BY WriteCopies
<1>2. /\ text' = (text /\ NUL \notin Range(data) /\ offset + Len(data) < MAX_DATA_SIZE)
      /\ full' = (full \/ size' >= MAX_DATA_SIZE)
  BY WriteCopies
<1>3. ContentTypeOK'
  <2>1. text' \in BOOLEAN /\ full' \in BOOLEAN
    BY <1>2
  <2>2. size' \in 0 .. IF full' THEN MAX_DATA_SIZE + 1 ELSE MAX_DATA_SIZE
    <3>1. CASE full'
      BY <1>1, <3>1
    <3>2. CASE ~full'
      <4>1. ~(size' >= MAX_DATA_SIZE)
        BY <1>2, <3>2
      <4> QED
        BY <1>1, <3>2, <4>1
    <3> QED
      BY <3>1, <3>2
  <2> QED
    BY <1>1, <2>1, <2>2 DEF ContentTypeOK
<1>4. ASSUME ~full' PROVE mem'[MAX_DATA_SIZE] = Slash /\ size' < MAX_DATA_SIZE
  <2>1. ~full /\ ~(size' >= MAX_DATA_SIZE)
    BY <1>2, <1>4
  <2>2. mem[MAX_DATA_SIZE] = Slash
    BY <2>1 DEF ContentInv, OutsideRight, StaysInDirectory
  <2>3. MAX_DATA_SIZE \in Places /\ MAX_DATA_SIZE \notin offset .. offset + Len(data) - 1
    BY <1>1
  <2> QED
    BY <1>1, <2>1, <2>2, <2>3
<1>5. ASSUME text' PROVE size' < MAX_DATA_SIZE /\ \A i \in size' .. MAX_DATA_SIZE - 1 : mem'[i] = NUL
  BY <1>5, WrittenText
<1>6. OutsideRight'
  BY <1>3, <1>4, <1>5 DEF OutsideRight, TailClear, StaysInDirectory
<1>7. full' \/ \E i \in 0 .. MAX_DATA_SIZE - 1 : mem'[i] = NUL
  BY <1>1, <1>4
<1> QED
  BY <1>1, <1>5, <1>6, <1>7 DEF ContentInv

\* truncate to nothing, and to a length: what it clears ends, or starts, at the
\* end of the string that content is.
LEMMA TruncateContent ==
    ASSUME ContentInv, TruncateToZero \/ \E n \in 1 .. MAX_DATA_SIZE : Truncate(n)
    PROVE  ContentInv'
<1> USE DEF ContentInv, OutsideRight, ContentTypeOK, TailClear, StaysInDirectory, Clear
<1>1. CASE TruncateToZero
  <2>1. /\ mem' = [i \in Places |-> IF i \in 0 .. MAX_DATA_SIZE - 1 THEN NUL ELSE mem[i]]
        /\ size' = 0 /\ text' = TRUE /\ full' = full
    BY <1>1 DEF TruncateToZero
  <2> QED
    BY <2>1
<1>2. ASSUME NEW n \in 1 .. MAX_DATA_SIZE, Truncate(n) PROVE ContentInv'
  <2> DEFINE end == Strlen(mem) + 1
  <2>1. /\ Strlen(mem) \in 0 .. MAX_DATA_SIZE + 1 /\ mem[Strlen(mem)] = NUL
        /\ \A i \in 0 .. Strlen(mem) - 1 : mem[i] # NUL
    BY StrlenIsFirst
  <2>2. /\ mem' = [i \in Places |->
                     IF i \in (IF n < end THEN n .. end - 1 ELSE end .. n - 1) THEN NUL ELSE mem[i]]
        /\ size' = n /\ text' = (text /\ n < end) /\ full' = full
    BY <1>2, <2>1 DEF Truncate
  <2> HIDE DEF end
  <2>3. end \in 1 .. MAX_DATA_SIZE + 2 /\ mem[end - 1] = NUL /\ \A i \in 0 .. end - 2 : mem[i] # NUL
    BY <2>1 DEF end
  <2>4. ~full => end <= MAX_DATA_SIZE
    BY <2>3
  <2>5. text => end = size + 1
    BY <2>3
  <2>6. ContentTypeOK' /\ mem'[MAX_DATA_SIZE + 1] = NUL
    <3>1. text' \in BOOLEAN /\ full' \in BOOLEAN
      BY <2>2
    <3> QED
      BY <2>2, <2>3, <3>1
  <2>7. ASSUME ~full' PROVE mem'[MAX_DATA_SIZE] = Slash /\ \E i \in 0 .. MAX_DATA_SIZE - 1 : mem'[i] = NUL
    <3>1. end <= MAX_DATA_SIZE /\ mem[MAX_DATA_SIZE] = Slash
      BY <2>2, <2>4, <2>7
    <3>2. mem'[IF n < end THEN n ELSE end - 1] = NUL
      BY <2>2, <2>3, <3>1
    <3> QED
      BY <2>2, <2>3, <3>1, <3>2
  <2>8. ASSUME text'
        PROVE  /\ size' < MAX_DATA_SIZE
               /\ \A i \in 0 .. size' - 1 : mem'[i] # NUL
               /\ \A i \in size' .. MAX_DATA_SIZE - 1 : mem'[i] = NUL
    <3>1. text /\ n < end
      BY <2>2, <2>8
    <3>2. end = size + 1 /\ size \in Nat
      BY <2>5, <3>1
    <3> QED
      BY <2>2, <2>3, <3>1, <3>2
  <2> QED
    BY <2>6, <2>7, <2>8
<1> QED
  BY <1>1, <1>2

LEMMA ContentInvHolds == ContentSpec => []ContentInv
<1>1. ContentInit => ContentInv
  <2> SUFFICES ASSUME ContentInit PROVE ContentInv
    OBVIOUS
  <2>1. /\ mem = [i \in Places |-> IF i = MAX_DATA_SIZE THEN Slash ELSE NUL]
        /\ size = 0 /\ text = TRUE /\ full = FALSE
    BY DEF ContentInit, Fresh
  <2>2. mem[0] = NUL /\ mem[MAX_DATA_SIZE] = Slash /\ mem[MAX_DATA_SIZE + 1] = NUL
    BY <2>1
  <2>3. ContentTypeOK
    <3>1. text \in BOOLEAN /\ full \in BOOLEAN
      BY <2>1
    <3>2. size \in 0 .. IF full THEN MAX_DATA_SIZE + 1 ELSE MAX_DATA_SIZE
      BY <2>1
    <3>3. mem \in [Places -> Bytes \cup {NUL, Slash}]
      BY <2>1
    <3> QED
      BY <3>1, <3>2, <3>3 DEF ContentTypeOK
  <2> QED
    BY <2>1, <2>2, <2>3 DEF ContentInv, OutsideRight, TailClear, StaysInDirectory
<1>2. ContentInv /\ [ContentNext]_contentVars => ContentInv'
  <2> SUFFICES ASSUME ContentInv, [ContentNext]_contentVars PROVE ContentInv'
    OBVIOUS
  <2>1. CASE ContentNext
    BY <2>1, WriteContent, TruncateContent DEF ContentNext
  <2>2. CASE UNCHANGED contentVars
    BY <2>2 DEF contentVars, ContentInv, OutsideRight, ContentTypeOK, TailClear, StaysInDirectory
  <2> QED
    BY <2>1, <2>2
<1> QED
  BY <1>1, <1>2, PTL DEF ContentSpec

\* Whatever the size of the buffer and whatever is written and cut, zero bytes
\* included: nothing of a text shows beyond its end, and nothing is written
\* beyond the buffer while it has an end (fisopfs_write, fisopfs_truncate).
THEOREM OutsideStaysRight == ContentSpec => []OutsideRight
<1>1. ContentInv => OutsideRight
  BY DEF ContentInv
<1> QED
  BY <1>1, ContentInvHolds, PTL

-----------------------------------------------------------------------------
(* A file of text is a sequence of bytes.                                  *)

LEMMA FileIsSequence ==
    ASSUME ContentInv, text
    PROVE  /\ size \in Nat /\ size < MAX_DATA_SIZE
           /\ file \in Seq(Bytes \cup {NUL, Slash}) /\ Len(file) = size
           /\ \A k \in 1 .. size : file[k] = mem[k - 1]
<1>1. /\ size \in Nat /\ size < MAX_DATA_SIZE
      /\ mem \in [Places -> Bytes \cup {NUL, Slash}]
  BY DEF ContentInv, OutsideRight, ContentTypeOK
<1>2. \A k \in 1 .. size : mem[k - 1] \in Bytes \cup {NUL, Slash}
  BY <1>1
<1>3. file \in [1 .. size -> Bytes \cup {NUL, Slash}]
  BY <1>2 DEF file
<1>4. file \in Seq(Bytes \cup {NUL, Slash}) /\ Len(file) = size
  BY <1>1, <1>3, LenProperties
<1> QED
  BY <1>1, <1>4 DEF file

\* A write of text leaves what was there, with the data over it or after it.
LEMMA WriteOfText ==
    ASSUME ContentInv, text, text',
           NEW offset \in 0 .. MAX_DATA_SIZE, NEW data \in Data, Write(offset, data)
    PROVE  AsBytes!Write
<1> DEFINE last == IF offset + Len(data) > size THEN offset + Len(data) ELSE size
<1>1. /\ Len(data) \in Nat \ {0} /\ offset + Len(data) <= MAX_DATA_SIZE /\ offset <= size
      /\ \A i \in Places : mem'[i] = IF i \in offset .. offset + Len(data) - 1
                                     THEN data[i - offset + 1] ELSE mem[i]
  BY WriteCopies
<1>2. /\ size \in Nat /\ size < MAX_DATA_SIZE /\ Len(file) = size
      /\ \A k \in 1 .. size : file[k] = mem[k - 1]
  BY FileIsSequence
<1> DEFINE byte(n) == IF n \in offset + 1 .. offset + Len(data) THEN data[n - offset] ELSE file[n]
<1>3. ASSUME NEW n \in 1 .. last PROVE mem'[n - 1] = byte(n)
  <2>1. CASE n \in offset + 1 .. offset + Len(data)
    <3>1. /\ n - 1 \in offset .. offset + Len(data) - 1 /\ n - 1 \in Places
          /\ (n - 1) - offset + 1 = n - offset
      BY <1>1, <2>1, SMTT(30)
    <3> QED
      BY <1>1, <2>1, <3>1
  <2>2. CASE n \notin offset + 1 .. offset + Len(data)
    <3>1. n - 1 \notin offset .. offset + Len(data) - 1 /\ n - 1 \in Places /\ n \in 1 .. size
      BY <1>1, <1>2, <2>2
    <3> QED
      BY <1>1, <1>2, <2>2, <3>1
  <2> QED
    BY <2>1, <2>2
<1>4. file' = [n \in 1 .. last |-> byte(n)]
  <2>1. file' = [n \in 1 .. last |-> mem'[n - 1]]
    BY WrittenText DEF file
  <2> HIDE DEF last, byte
  <2> QED
    BY <1>3, <2>1
<1>5. last = IF offset + Len(data) > Len(file) THEN offset + Len(data) ELSE Len(file)
  BY <1>2
<1>6. offset \in 0 .. Len(file)
  BY <1>1, <1>2
<1> QED
  BY <1>4, <1>5, <1>6 DEF AsBytes!Write

\* A file of text is only ever cut: truncate that would make it longer ends
\* the text.
LEMMA CutOfText ==
    ASSUME ContentInv, text, text',
           TruncateToZero \/ \E n \in 1 .. MAX_DATA_SIZE : Truncate(n)
    PROVE  AsBytes!Cut
<1>1. /\ size \in Nat /\ Len(file) = size /\ file \in Seq(Bytes \cup {NUL, Slash})
      /\ size < MAX_DATA_SIZE /\ \A k \in 1 .. size : file[k] = mem[k - 1]
  BY FileIsSequence
<1>2. \E n \in 0 .. size : /\ size' = n /\ \A k \in 1 .. n : mem'[k - 1] = mem[k - 1]
  <2>1. CASE TruncateToZero
    <3>1. size' = 0
      BY <2>1 DEF TruncateToZero
    <3> QED
      BY <1>1, <3>1
  <2>2. ASSUME NEW n \in 1 .. MAX_DATA_SIZE, Truncate(n)
        PROVE  n <= size /\ size' = n /\ \A k \in 1 .. n : mem'[k - 1] = mem[k - 1]
    <3>1. /\ mem[MAX_DATA_SIZE + 1] = NUL
          /\ \A i \in size .. MAX_DATA_SIZE - 1 : mem[i] = NUL
          /\ \A i \in 0 .. size - 1 : mem[i] # NUL
      BY DEF ContentInv, OutsideRight, TailClear
    <3>2. /\ Strlen(mem) \in 0 .. MAX_DATA_SIZE + 1 /\ mem[Strlen(mem)] = NUL
          /\ \A i \in 0 .. Strlen(mem) - 1 : mem[i] # NUL
      BY <3>1, StrlenIsFirst
    <3>3. Strlen(mem) = size
      BY <1>1, <3>1, <3>2
    <3>4. n < size + 1 /\ size' = n /\ mem' = Clear(mem, n, size + 1)
      BY <2>2, <3>3 DEF Truncate
    <3>5. mem' = [i \in Places |-> IF i \in n .. (size + 1) - 1 THEN NUL ELSE mem[i]]
      BY <3>4 DEF Clear
    <3>6. ASSUME NEW k \in 1 .. n PROVE mem'[k - 1] = mem[k - 1]
      <4>1. k - 1 \in Places /\ k - 1 \notin n .. (size + 1) - 1
        BY <1>1, <3>4
      <4> QED
        BY <3>5, <4>1
    <3> QED
      BY <1>1, <3>4, <3>6
  <2> QED
    BY <2>1, <2>2, <1>1
<1>3. PICK n \in 0 .. size : /\ size' = n /\ \A k \in 1 .. n : mem'[k - 1] = mem[k - 1]
  BY <1>2
<1>4. file' = [k \in 1 .. n |-> mem'[k - 1]]
  BY <1>3 DEF file
<1>5. SubSeq(file, 1, n) = [k \in 1 .. n |-> file[k]]
  BY <1>1
<1>6. file' = SubSeq(file, 1, n)
  BY <1>1, <1>3, <1>4, <1>5
<1> QED
  BY <1>1, <1>6 DEF AsBytes!Cut

\* As long as what is in it is text, the buffer of a file, its size found by
\* strlen() and the bytes that truncate clears implement a sequence of bytes
\* that is written and cut (fisopfs_write, fisopfs_truncate).
THEOREM ContentImplementsBytes == ContentSpec => FileSpec
<1>1. ContentInit => AsBytes!Init
  BY DEF ContentInit, AsBytes!Init, file
<1>2. ContentInv /\ [ContentNext]_contentVars
        => [text /\ text' => [AsBytes!Next]_file]_contentVars
  <2> SUFFICES ASSUME ContentInv, ContentNext, text, text' PROVE AsBytes!Next
    OBVIOUS
  <2> QED
    BY WriteOfText, CutOfText DEF ContentNext, AsBytes!Next
<1> QED
  BY <1>1, <1>2, ContentInvHolds, PTL DEF ContentSpec, FileSpec

-----------------------------------------------------------------------------
(* The user exception stack.                                               *)

USE StackAssumption DEF Base, Top, UserStack, Frame

\* How the frames lie: each where the kernel puts it for the esp it keeps, the
\* first for a program on its own stack, every other one for a handler between
\* the frame before and it; and so each frame, and what lies above it, is out
\* of the reach of whoever runs below.
Depth == Len(handling)
FramesNest ==
    /\ Len(trapped) = Depth
    /\ Depth = 0 => esp = UserStack
    /\ Depth > 0 => esp \in Base .. handling[Depth]
    /\ \A i \in 1 .. Depth :
          /\ handling[i] + 2 <= Words
          /\ i = 1 => trapped[i].esp = UserStack
          /\ i > 1 => /\ trapped[i].esp \in Base .. handling[i - 1]
                      /\ handling[i] = trapped[i].esp - 1 - Frame
    /\ \A i, j \in 1 .. Depth : i < j => handling[j] + 1 + Frame <= handling[i]

StackInv == StackIntact /\ FramesNest

\* Which words the code writes, of the three steps that write.
LEMMA FaultWrites ==
    ASSUME StackInv, Fault
    PROVE  LET f == FrameAt(esp) IN
           /\ f \in Base .. Words - 2 /\ f + Frame <= Words + 1
           /\ Depth > 0 => f = esp - 1 - Frame
           /\ word' \in [Base .. Words -> StackWords]
           /\ word'[f + 1] = Eip(eip) /\ word'[f + 2] = Esp(esp)
           /\ \A w \in Base .. Words : w >= f + Frame /\ w >= esp => word'[w] = word[w]
<1>1. /\ esp \in Nat /\ esp <= Words + 1 /\ eip \in Eips /\ word \in [Base .. Words -> StackWords]
  BY DEF StackInv, StackIntact, StackTypeOK, Esps
<1>2. /\ Depth \in Nat
      /\ Depth = 0 => esp = 0
      /\ Depth > 0 => esp \in 1 .. handling[Depth] /\ handling[Depth] + 2 <= Words
  BY DEF StackInv, FramesNest, StackIntact, StackTypeOK, Depth
<1> DEFINE f == FrameAt(esp)
<1>3. f \in 1 .. Words - 2 /\ f + 3 <= Words + 1 /\ (Depth > 0 => f = esp - 1 - 3)
  BY <1>1, <1>2 DEF Fault, FrameAt, OnExceptionStack
<1>4. word' = [w \in 1 .. Words |->
        IF w = f THEN Is("others") ELSE IF w = f + 1 THEN Eip(eip) ELSE IF w = f + 2 THEN Esp(esp)
        ELSE IF w \in f + 3 .. esp - 1 THEN Is("scratch") ELSE word[w]]
  BY DEF Fault, Pushed
<1> HIDE DEF f
<1>5. Is("others") \in StackWords /\ Is("scratch") \in StackWords /\ Eip(eip) \in StackWords
      /\ Esp(esp) \in StackWords
  BY <1>1 DEF StackWords, Esps
<1>6. word' \in [1 .. Words -> StackWords]
  BY <1>1, <1>4, <1>5
<1>7. word'[f + 1] = Eip(eip) /\ word'[f + 2] = Esp(esp)
  BY <1>3, <1>4
<1>8. \A w \in 1 .. Words : w >= f + 3 /\ w >= esp => word'[w] = word[w]
  BY <1>1, <1>3, <1>4
<1> QED
  BY <1>3, <1>6, <1>7, <1>8 DEF f

\* The frames of the faults under way, as functions of how deep they are.
LEMMA StackFacts ==
    ASSUME StackInv
    PROVE  /\ Depth \in Nat /\ Len(trapped) = Depth
           /\ handling \in [1 .. Depth -> Base .. Words]
           /\ trapped \in [1 .. Depth -> [esp : Esps, eip : Eips]]
           /\ \A i \in 1 .. Depth : /\ word[handling[i] + 1] = Eip(trapped[i].eip)
                                    /\ word[handling[i] + 2] = Esp(trapped[i].esp)
                                    /\ i < Depth => i + 1 \in 1 .. Depth
                                    /\ i > 1 => i - 1 \in 1 .. Depth
           /\ \A i \in 1 .. Depth :
                 /\ handling[i] \in Nat /\ Base <= handling[i] /\ handling[i] + 2 <= Words
                 /\ handling[Depth] <= handling[i]
                 /\ i < Depth => handling[Depth] + 1 + Frame <= handling[i]
<1>1. /\ Depth \in Nat /\ Len(trapped) = Depth
      /\ handling \in [1 .. Depth -> Base .. Words]
      /\ trapped \in [1 .. Depth -> [esp : Esps, eip : Eips]]
  <2>1. /\ handling \in Seq(Base .. Words) /\ trapped \in Seq([esp : Esps, eip : Eips])
        /\ Len(trapped) = Depth /\ Depth = Len(handling)
    BY DEF StackInv, StackIntact, StackTypeOK, FramesNest, Depth
  <2> QED
    BY <2>1, LenProperties
<1>2. \A i \in 1 .. Depth : /\ word[handling[i] + 1] = Eip(trapped[i].eip)
                            /\ word[handling[i] + 2] = Esp(trapped[i].esp)
                            /\ i < Depth => i + 1 \in 1 .. Depth
                            /\ i > 1 => i - 1 \in 1 .. Depth
  BY <1>1 DEF StackInv, StackIntact, Depth
<1>3. ASSUME NEW i \in 1 .. Depth
      PROVE  /\ handling[i] \in Nat /\ Base <= handling[i] /\ handling[i] + 2 <= Words
             /\ handling[Depth] <= handling[i]
             /\ i < Depth => handling[Depth] + 1 + Frame <= handling[i]
  <2>1. handling[i] \in Nat /\ Base <= handling[i] /\ handling[i] + 2 <= Words
    BY <1>1 DEF StackInv, FramesNest
  <2>2. i < Depth => handling[Depth] + 1 + Frame <= handling[i]
    BY <1>1 DEF StackInv, FramesNest
  <2>3. Depth \in 1 .. Depth /\ handling[Depth] \in Nat /\ (i = Depth \/ i < Depth)
    BY <1>1
  <2> QED
    BY <2>1, <2>2, <2>3
<1> QED
  BY <1>1, <1>2, <1>3

LEMMA FaultStep ==
    ASSUME StackInv, Fault
    PROVE  StackInv'
<1> DEFINE f == FrameAt(esp)
           n == Depth
<1>1. /\ f \in Base .. Words - 2 /\ f + Frame <= Words + 1
      /\ n > 0 => f = esp - 1 - Frame
      /\ word' \in [Base .. Words -> StackWords]
      /\ word'[f + 1] = Eip(eip) /\ word'[f + 2] = Esp(esp)
      /\ \A w \in Base .. Words : w >= f + Frame /\ w >= esp => word'[w] = word[w]
  BY FaultWrites
<1>2. /\ handling' = Append(handling, f) /\ trapped' = Append(trapped, [esp |-> esp, eip |-> eip])
      /\ esp' = f /\ eip' \in Eips /\ kernel' = kernel
  BY DEF Fault
<1>3. StackTypeOK'
  BY <1>1, <1>2, SMTT(20) DEF StackInv, StackIntact, StackTypeOK, Esps
<1>4. /\ n \in Nat /\ Depth' = n + 1 /\ Len(trapped') = n + 1
      /\ \A i \in 1 .. n : handling'[i] = handling[i] /\ trapped'[i] = trapped[i]
      /\ handling'[n + 1] = f /\ trapped'[n + 1] = [esp |-> esp, eip |-> eip]
  BY <1>2 DEF StackInv, StackIntact, StackTypeOK, FramesNest, Depth
<1>5. /\ n > 0 => esp \in Base .. handling[n] /\ n \in 1 .. n
      /\ n = 0 => esp = UserStack
  BY <1>4 DEF StackInv, FramesNest
<1> HIDE DEF n, f
\* Everything kept so far lies above the stack pointer and the new frame.
<1>6. ASSUME NEW i \in 1 .. n
      PROVE  /\ handling[i] \in Nat /\ Base <= handling[i] /\ handling[i] + 2 <= Words
             /\ esp <= handling[i] /\ f + 1 + Frame <= handling[i]
  <2>1. /\ handling[i] \in Nat /\ Base <= handling[i] /\ handling[i] + 2 <= Words
        /\ handling[n] <= handling[i] /\ handling[n] \in Nat
    BY StackFacts, <1>4, <1>5 DEF n
  <2>2. esp \in Nat /\ esp <= handling[n] /\ f = esp - 1 - Frame
    BY <1>1, <1>4, <1>5, <2>1
  <2> QED
    BY <2>1, <2>2
<1>7. FramesNest'
  <2>1. Len(trapped') = Depth' /\ Depth' # 0 /\ esp' \in Base .. handling'[Depth']
    BY <1>1, <1>2, <1>4
  <2>2. ASSUME NEW i \in 1 .. n + 1
        PROVE  /\ handling'[i] + 2 <= Words
               /\ i = 1 => trapped'[i].esp = UserStack
               /\ i > 1 => /\ trapped'[i].esp \in Base .. handling'[i - 1]
                           /\ handling'[i] = trapped'[i].esp - 1 - Frame
    <3>1. CASE i = n + 1
      <4>1. handling'[i] = f /\ trapped'[i].esp = esp
        BY <1>4, <3>1
      <4>2. i > 1 => i - 1 = n /\ n > 0 /\ handling'[i - 1] = handling[n]
        BY <1>4, <3>1
      <4> QED
        BY <1>1, <1>4, <1>5, <3>1, <4>1, <4>2
    <3>2. CASE i # n + 1
      <4>1. i \in 1 .. n /\ (i > 1 => i - 1 \in 1 .. n)
        BY <1>4, <3>2
      <4>2. /\ handling'[i] = handling[i] /\ trapped'[i] = trapped[i]
            /\ i > 1 => handling'[i - 1] = handling[i - 1]
        BY <1>4, <4>1
      <4> QED
        BY <4>1, <4>2 DEF StackInv, FramesNest, n
    <3> QED
      BY <3>1, <3>2
  <2>3. ASSUME NEW i \in 1 .. n + 1, NEW j \in 1 .. n + 1, i < j
        PROVE  handling'[j] + 1 + Frame <= handling'[i]
    <3>1. i \in 1 .. n /\ handling'[i] = handling[i]
      BY <1>4, <2>3
    <3>2. CASE j = n + 1
      BY <1>4, <1>6, <3>1, <3>2
    <3>3. CASE j # n + 1
      <4>1. j \in 1 .. n /\ handling'[j] = handling[j]
        BY <1>4, <3>3
      <4> QED
        BY <2>3, <3>1, <4>1 DEF StackInv, FramesNest, n
    <3> QED
      BY <3>2, <3>3
  <2>4. Depth' > 0
    BY <1>4
  <2> QED
    BY <1>4, <2>1, <2>2, <2>3, <2>4 DEF FramesNest
<1>8. ASSUME NEW i \in 1 .. n + 1
      PROVE  /\ word'[handling'[i] + 1] = Eip(trapped'[i].eip)
             /\ word'[handling'[i] + 2] = Esp(trapped'[i].esp)
             /\ \A w \in (IF i < n + 1 THEN trapped'[i + 1].esp ELSE esp') .. handling'[i] - 1 :
                   word'[w] = Is("local")
  <2>1. CASE i = n + 1
    <3>1. /\ handling'[i] = f /\ trapped'[i].esp = esp /\ trapped'[i].eip = eip
          /\ ~(i < n + 1)
      BY <1>4, <2>1
    <3>2. f .. f - 1 = {}
      BY <1>1
    <3> QED
      BY <1>1, <1>2, <3>1, <3>2
  <2>2. CASE i # n + 1
    <3>1. /\ i \in 1 .. n /\ i < n + 1 /\ handling'[i] = handling[i] /\ trapped'[i] = trapped[i]
          /\ i = n => trapped'[i + 1].esp = esp
          /\ i < n => i + 1 \in 1 .. n /\ trapped'[i + 1].esp = trapped[i + 1].esp
      BY <1>4, <2>2
    <3>2. /\ word'[handling[i] + 1] = word[handling[i] + 1]
          /\ word'[handling[i] + 2] = word[handling[i] + 2]
      <4>1. /\ handling[i] + 1 \in Base .. Words /\ handling[i] + 1 >= f + Frame
            /\ handling[i] + 1 >= esp
            /\ handling[i] + 2 \in Base .. Words /\ handling[i] + 2 >= f + Frame
            /\ handling[i] + 2 >= esp
        <5>1. /\ handling[i] \in Nat /\ Base <= handling[i] /\ handling[i] + 2 <= Words
              /\ esp <= handling[i] /\ f + 1 + Frame <= handling[i]
          BY <1>6, <3>1
        <5>2. f \in Nat /\ esp \in Nat
          BY <1>1, <1>4, <1>5, <3>1
        <5> QED
          BY <5>1, <5>2
      <4> QED
        BY <1>1, <4>1
    <3>3. ASSUME NEW w \in trapped'[i + 1].esp .. handling[i] - 1 PROVE word'[w] = Is("local")
      <4>1. word[w] = Is("local") /\ w >= esp /\ esp \in Nat
        <5>1. CASE i = n
          BY <1>5, <3>1, <5>1 DEF StackInv, StackIntact, n, Depth
        <5>2. CASE i # n
          <6>1. i < n /\ i + 1 \in 1 .. n /\ trapped'[i + 1].esp = trapped[i + 1].esp
            BY <1>4, <3>1, <5>2
          <6>2. i + 1 > 1 /\ (i + 1) - 1 = i
            BY <3>1
          <6>3. /\ trapped[i + 1].esp \in Base .. handling[i]
                /\ handling[i + 1] = trapped[i + 1].esp - 1 - Frame
            BY <6>1, <6>2 DEF StackInv, FramesNest, n
          <6>4. word[w] = Is("local")
            BY <3>1, <6>1 DEF StackInv, StackIntact, n, Depth
          <6>5. esp <= handling[i + 1] /\ esp \in Nat
            BY <1>4, <1>5, <1>6, <6>1, SMTT(30)
          <6> QED
            BY <1>6, <6>1, <6>3, <6>4, <6>5
        <5> QED
          BY <5>1, <5>2
      <4>2. n > 0 /\ f + Frame < esp
        BY <1>1, <1>4, <3>1, <4>1
      <4>3. handling[i] \in Nat /\ handling[i] + 2 <= Words
        BY <1>6, <3>1
      <4>4. w \in Int /\ w <= handling[i] - 1
        BY <4>3
      <4>5. f \in Int /\ f >= Base /\ Words \in Int
        BY <1>1
      <4>6. w \in Base .. Words /\ w >= f + Frame
        BY <4>1, <4>2, <4>3, <4>4, <4>5
      <4>7. word'[w] = word[w]
        BY <1>1, <4>1, <4>6
      <4> QED
        BY <4>1, <4>7
    <3>4. word[handling[i] + 1] = Eip(trapped[i].eip) /\ word[handling[i] + 2] = Esp(trapped[i].esp)
      BY <3>1, StackFacts DEF n
    <3> QED
      BY <3>1, <3>2, <3>3, <3>4
  <2> QED
    BY <2>1, <2>2
<1> QED
  BY <1>3, <1>4, <1>7, <1>8 DEF StackInv, StackIntact, Depth

\* The handler writes and leaves words below its own frame only.
LEMMA HandlerStep ==
    ASSUME StackInv, Push \/ Pop
    PROVE  StackInv'
<1> DEFINE n == Depth
<1>1. /\ n \in Nat /\ n > 0 /\ n \in 1 .. n /\ esp \in Base .. handling[n] /\ Entry = handling[n]
      /\ handling' = handling /\ trapped' = trapped /\ kernel' = kernel /\ eip' \in Eips
      /\ word \in [Base .. Words -> StackWords] /\ handling[n] \in Nat /\ handling[n] + 2 <= Words
  <2>1. /\ handling' = handling /\ trapped' = trapped /\ kernel' = kernel /\ eip' \in Eips
        /\ n > 0
    BY DEF Push, Pop, Handling, StackInv, StackIntact, StackTypeOK, Depth
  <2> QED
    BY <2>1, StackFacts, SMTT(30) DEF StackInv, StackIntact, StackTypeOK, FramesNest, Entry, Depth
<1>2. esp' \in Base .. handling[n]
  BY <1>1, SMTT(30) DEF Push, Pop
<1>3. /\ word' \in [Base .. Words -> StackWords]
      /\ \A w \in Base .. Words : w >= esp => word'[w] = word[w]
      /\ \A w \in Base .. Words : w >= esp' /\ w < esp => word'[w] = Is("local")
  <2>1. CASE Push
    <3>1. word' = [word EXCEPT ![esp - 1] = Is("local")] /\ esp' = esp - 1 /\ esp - 1 \in Base .. Words
      BY <1>1, <2>1 DEF Push
    <3>2. Is("local") \in StackWords
      BY DEF StackWords
    <3> QED
      BY <1>1, <3>1, <3>2
  <2>2. CASE Pop
    BY <1>1, <2>2 DEF Pop
  <2> QED
    BY <2>1, <2>2
<1>4. StackTypeOK'
  BY <1>1, <1>2, <1>3, SMTT(20) DEF StackInv, StackIntact, StackTypeOK, Esps
<1>5. FramesNest'
  <2>1. Depth' = Depth
    BY <1>1 DEF Depth
  <2>2. FramesNest /\ Depth # 0
    BY <1>1 DEF StackInv
  <2>3. handling' = handling /\ trapped' = trapped /\ esp' \in Base .. handling[Depth]
    BY <1>1, <1>2
  <2> HIDE DEF n
  <2> QED
    BY <2>1, <2>2, <2>3, Zenon DEF FramesNest
<1>6. ASSUME NEW i \in 1 .. n
      PROVE  /\ word'[handling[i] + 1] = Eip(trapped[i].eip)
             /\ word'[handling[i] + 2] = Esp(trapped[i].esp)
             /\ \A w \in (IF i < n THEN trapped[i + 1].esp ELSE esp') .. handling[i] - 1 :
                   word'[w] = Is("local")
  <2>1. /\ handling[i] \in Nat /\ Base <= handling[i] /\ handling[i] + 2 <= Words
        /\ handling[n] <= handling[i]
    BY StackFacts
  <2>2. word[handling[i] + 1] = Eip(trapped[i].eip) /\ word[handling[i] + 2] = Esp(trapped[i].esp)
    BY StackFacts
  <2>3. /\ handling[i] + 1 \in Base .. Words /\ handling[i] + 1 >= esp
        /\ handling[i] + 2 \in Base .. Words /\ handling[i] + 2 >= esp
    BY <1>1, <2>1, SMTT(20)
  <2>4. ASSUME i < n, NEW w \in trapped[i + 1].esp .. handling[i] - 1 PROVE word'[w] = Is("local")
    <3>1. i + 1 \in 1 .. n /\ i + 1 > 1 /\ (i + 1) - 1 = i
      BY <1>1, <2>4
    <3>2. /\ trapped[i + 1].esp \in Base .. handling[i]
          /\ handling[i + 1] = trapped[i + 1].esp - 1 - Frame
      BY <3>1 DEF StackInv, FramesNest
    <3>3. handling[n] <= handling[i + 1] /\ handling[i + 1] \in Nat
      BY <3>1, StackFacts
    <3>4. word[w] = Is("local")
      BY <2>4 DEF StackInv, StackIntact, Depth
    <3>5. w \in Base .. Words /\ w >= esp
      <4>1. /\ w \in Int /\ trapped[i + 1].esp <= w /\ w <= handling[i] - 1
            /\ trapped[i + 1].esp \in Int /\ Base <= trapped[i + 1].esp
        BY <3>2
      <4>2. esp <= trapped[i + 1].esp /\ esp \in Int
        <5>1. esp \in Int /\ esp <= handling[n] /\ handling[n] \in Int
          BY <1>1
        <5> HIDE DEF n
        <5> QED
          BY <3>2, <3>3, <4>1, <5>1
      <4> QED
        BY <2>1, <4>1, <4>2
    <3> QED
      BY <1>3, <3>4, <3>5
  <2>5. ASSUME i = n, NEW w \in esp' .. handling[i] - 1 PROVE word'[w] = Is("local")
    <3>1. w \in Base .. Words /\ w >= esp'
      BY <1>1, <1>2, <2>1
    <3>2. w >= esp => word[w] = Is("local")
      BY <1>1, <2>5 DEF StackInv, StackIntact, Depth
    <3> QED
      BY <1>1, <1>3, <3>1, <3>2
  <2> QED
    BY <1>1, <1>3, <2>2, <2>3, <2>4, <2>5
<1> QED
  BY <1>1, <1>4, <1>5, <1>6 DEF StackInv, StackIntact, Depth

\* pfentry.S finds in the frame where to return; the one word it writes is the
\* scratch above the frame.
LEMMA ReturnWrites ==
    ASSUME StackInv, Return
    PROVE  /\ Depth > 0 /\ [esp |-> esp', eip |-> eip'] = trapped[Depth]
           /\ word' \in [Base .. Words -> StackWords]
           /\ Depth = 1 => word' = word
           /\ \A w \in Base .. Words : w # handling[Depth] + Frame => word'[w] = word[w]
<1> DEFINE n == Depth
           f == handling[n]
           sp == trapped[n].esp
           e == trapped[n].eip
<1>1. n \in Nat /\ n > 0 /\ n \in 1 .. n /\ Entry = f
  BY StackFacts DEF Return, Handling, Entry, Depth
<1>2. /\ word[f + 1] = Eip(e) /\ word[f + 2] = Esp(sp)
      /\ f \in Nat /\ Base <= f /\ f + 2 <= Words
      /\ trapped[n] \in [esp : Esps, eip : Eips]
  BY <1>1, StackFacts
<1>3. TrapEsp(f) = sp /\ word[f + 1][2] = e
  BY <1>2 DEF TrapEsp, Esp, Eip
<1>4. /\ esp' = sp /\ eip' = ReturnEip(f) /\ word' = PushedEip(f)
  BY <1>1, <1>3 DEF Return
<1>5. word \in [Base .. Words -> StackWords]
  BY DEF StackInv, StackIntact, StackTypeOK
<1>6. trapped[n] = [esp |-> sp, eip |-> e]
  BY <1>2
<1>7. CASE n = 1
  <2>1. ~OnExceptionStack(TrapEsp(f))
    BY <1>1, <1>3, <1>7 DEF StackInv, FramesNest, OnExceptionStack
  <2> QED
    BY <1>1, <1>3, <1>4, <1>5, <1>6, <2>1 DEF PushedEip, ReturnEip
<1>8. CASE n # 1
  <2>1. sp \in Base .. handling[n - 1] /\ f = sp - 1 - Frame /\ n - 1 \in 1 .. n
    BY <1>1, <1>8 DEF StackInv, FramesNest
  <2>2. handling[n - 1] \in Nat /\ handling[n - 1] + 2 <= Words
    BY <2>1, StackFacts
  <2>3. sp # UserStack /\ sp - 1 = f + Frame /\ sp - 1 \in Base .. Words
    BY <1>2, <2>1, <2>2
  <2>4. word' = [word EXCEPT ![sp - 1] = Eip(e)]
    BY <1>2, <1>3, <1>4, <2>3 DEF PushedEip, OnExceptionStack
  <2>5. eip' = [word' EXCEPT ![f + 2] = Esp(sp - 1)][sp - 1][2]
    BY <1>3, <1>4, <2>3 DEF ReturnEip, OnExceptionStack
  <2>6. eip' = e
    <3>1. word'[sp - 1] = Eip(e)
      BY <1>5, <2>3, <2>4
    <3>2. [word' EXCEPT ![f + 2] = Esp(sp - 1)][sp - 1] = word'[sp - 1]
      <4>1. sp - 1 # f + 2 /\ word' \in [Base .. Words -> StackWords \cup {Eip(e)}]
        BY <1>2, <1>5, <2>3, <2>4
      <4> QED
        BY <2>3, <4>1
    <3> QED
      BY <2>5, <3>1, <3>2 DEF Eip
  <2>7. Eip(e) \in StackWords
    BY <1>2 DEF StackWords
  <2>8. word' \in [Base .. Words -> StackWords]
    BY <1>5, <2>3, <2>4, <2>7
  <2>9. ASSUME NEW w \in Base .. Words, w # f + Frame PROVE word'[w] = word[w]
    BY <1>5, <2>3, <2>4, <2>9
  <2> QED
    BY <1>1, <1>4, <1>6, <1>8, <2>6, <2>8, <2>9
<1> QED
  BY <1>7, <1>8

LEMMA ReturnStep ==
    ASSUME StackInv, Return
    PROVE  StackInv'
<1> DEFINE n == Depth
<1>1. /\ n \in Nat /\ n > 0 /\ esp' = trapped[n].esp /\ eip' = trapped[n].eip
      /\ word' \in [Base .. Words -> StackWords]
      /\ \A w \in Base .. Words : w # handling[n] + Frame => word'[w] = word[w]
  <2>1. /\ n > 0 /\ [esp |-> esp', eip |-> eip'] = trapped[n]
        /\ word' \in [Base .. Words -> StackWords]
        /\ \A w \in Base .. Words : w # handling[n] + Frame => word'[w] = word[w]
    BY ReturnWrites
  <2>2. [esp |-> esp', eip |-> eip'].esp = esp' /\ [esp |-> esp', eip |-> eip'].eip = eip'
    OBVIOUS
  <2> QED
    BY <2>1, <2>2, StackFacts
<1>2. /\ handling' = SubSeq(handling, 1, n - 1) /\ trapped' = SubSeq(trapped, 1, n - 1)
      /\ kernel' = kernel
  BY StackFacts DEF Return, Depth
<1>3. /\ handling \in Seq(Base .. Words) /\ trapped \in Seq([esp : Esps, eip : Eips])
      /\ Len(handling) = n /\ Len(trapped) = n
  BY StackFacts DEF StackInv, StackIntact, StackTypeOK, Depth
<1>4. /\ handling' \in Seq(Base .. Words) /\ trapped' \in Seq([esp : Esps, eip : Eips])
      /\ Len(handling') = n - 1 /\ Len(trapped') = n - 1
      /\ \A i \in 1 .. n - 1 : handling'[i] = handling[i] /\ trapped'[i] = trapped[i]
  <2>1. 1 \in 1 .. n + 1 /\ n - 1 \in (1 - 1) .. n /\ n - 1 \in Nat
    BY <1>1
  <2>2. ASSUME NEW S, NEW s \in Seq(S), Len(s) = n
        PROVE  /\ SubSeq(s, 1, n - 1) \in Seq(S) /\ Len(SubSeq(s, 1, n - 1)) = n - 1
               /\ \A i \in 1 .. n - 1 : SubSeq(s, 1, n - 1)[i] = s[i]
    <3> HIDE DEF n
    <3> QED
      BY <2>1, <2>2, SubSeqProperties
  <2> QED
    BY <1>2, <1>3, <2>2
<1>5. /\ handling[n] \in Nat /\ trapped[n] \in [esp : Esps, eip : Eips]
      /\ n = 1 => esp' = UserStack
      /\ n > 1 => /\ esp' \in Base .. handling[n - 1]
                  /\ handling[n] = esp' - 1 - Frame
  <2>1. n \in 1 .. n
    BY <1>1
  <2>2. handling[n] \in Nat /\ trapped[n] \in [esp : Esps, eip : Eips]
    BY <2>1, StackFacts
  <2>3. /\ n = 1 => trapped[n].esp = UserStack
        /\ n > 1 => /\ trapped[n].esp \in Base .. handling[n - 1]
                    /\ handling[n] = trapped[n].esp - 1 - Frame
    BY <2>1 DEF StackInv, FramesNest
  <2> QED
    BY <1>1, <2>2, <2>3
<1>6. StackTypeOK'
  <2>1. esp' \in Esps /\ eip' \in Eips
    BY <1>1, <1>5
  <2> QED
    BY <1>1, <1>2, <1>4, <2>1 DEF StackInv, StackIntact, StackTypeOK
<1>7. Depth' = n - 1
  BY <1>4 DEF Depth
<1> HIDE DEF n
<1>8. FramesNest'
  <2>1. Depth' > 0 => esp' \in Base .. handling'[Depth']
    BY <1>1, <1>4, <1>5, <1>7, SMTT(30)
  <2>2. Depth' = 0 => esp' = UserStack
    BY <1>1, <1>5, <1>7
  <2>3. ASSUME NEW i \in 1 .. n - 1
        PROVE  /\ handling'[i] + 2 <= Words
               /\ i = 1 => trapped'[i].esp = UserStack
               /\ i > 1 => /\ trapped'[i].esp \in Base .. handling'[i - 1]
                           /\ handling'[i] = trapped'[i].esp - 1 - Frame
    <3>1. /\ i \in 1 .. n /\ handling'[i] = handling[i] /\ trapped'[i] = trapped[i]
      BY <1>1, <1>4, SMTT(20)
    <3>2. ASSUME i > 1 PROVE handling'[i - 1] = handling[i - 1]
      <4>1. i - 1 \in 1 .. n - 1
        BY <1>1, <3>2
      <4> QED
        BY <1>4, <4>1
    <3> QED
      BY <3>1, <3>2 DEF StackInv, FramesNest, n
  <2>4. ASSUME NEW i \in 1 .. n - 1, NEW j \in 1 .. n - 1, i < j
        PROVE  handling'[j] + 1 + Frame <= handling'[i]
    <3>1. i \in 1 .. n /\ j \in 1 .. n
      BY <1>1
    <3>2. handling'[i] = handling[i] /\ handling'[j] = handling[j]
      BY <1>4
    <3> QED
      BY <2>4, <3>1, <3>2 DEF StackInv, FramesNest, n
  <2> QED
    BY <1>4, <1>7, <2>1, <2>2, <2>3, <2>4 DEF FramesNest
<1>9. ASSUME NEW i \in 1 .. n - 1
      PROVE  /\ word'[handling[i] + 1] = Eip(trapped[i].eip)
             /\ word'[handling[i] + 2] = Esp(trapped[i].esp)
             /\ \A w \in (IF i < n - 1 THEN trapped[i + 1].esp ELSE esp') .. handling[i] - 1 :
                   word'[w] = Is("local")
  <2>1. i \in 1 .. n /\ i < n
    BY <1>1
  <2>2. /\ handling[i] \in Nat /\ Base <= handling[i] /\ handling[i] + 2 <= Words
        /\ handling[n] + 1 + Frame <= handling[i]
        /\ word[handling[i] + 1] = Eip(trapped[i].eip) /\ word[handling[i] + 2] = Esp(trapped[i].esp)
    BY <2>1, StackFacts DEF n
  <2>3. /\ handling[i] + 1 \in Base .. Words /\ handling[i] + 1 # handling[n] + Frame
        /\ handling[i] + 2 \in Base .. Words /\ handling[i] + 2 # handling[n] + Frame
    BY <1>5, <2>2
  <2>4. ASSUME NEW w \in trapped[i + 1].esp .. handling[i] - 1 PROVE word'[w] = Is("local")
    <3>1. i + 1 \in 1 .. n /\ i + 1 > 1 /\ (i + 1) - 1 = i
      BY <1>1, <2>1
    <3>2. /\ trapped[i + 1].esp \in Base .. handling[i]
          /\ handling[i + 1] = trapped[i + 1].esp - 1 - Frame
      BY <3>1 DEF StackInv, FramesNest, n
    <3>3. handling[n] <= handling[i + 1] /\ handling[i + 1] \in Nat
      BY <3>1, StackFacts DEF n
    <3>4. word[w] = Is("local")
      BY <2>1 DEF StackInv, StackIntact, Depth, n
    <3>5. w \in Base .. Words /\ w # handling[n] + Frame
      <4>1. /\ w \in Int /\ trapped[i + 1].esp <= w /\ w <= handling[i] - 1
            /\ trapped[i + 1].esp \in Int /\ Base <= trapped[i + 1].esp
        BY <3>2
      <4>2. handling[n] + Frame < trapped[i + 1].esp
        BY <1>5, <3>2, <3>3, <4>1
      <4> QED
        BY <1>5, <2>2, <4>1, <4>2
    <3> QED
      BY <1>1, <3>4, <3>5
  <2>5. i = n - 1 => esp' = trapped[i + 1].esp
    BY <1>1
  <2>6. i < n - 1 \/ i = n - 1
    BY <1>1
  <2> QED
    BY <1>1, <2>2, <2>3, <2>4, <2>5, <2>6
<1>10. ASSUME NEW i \in 1 .. n - 1
       PROVE  /\ handling'[i] = handling[i] /\ trapped'[i] = trapped[i]
              /\ i < n - 1 => trapped'[i + 1] = trapped[i + 1]
  BY <1>1, <1>4, SMTT(30)
<1>11. \A i \in 1 .. Len(handling') :
         /\ word'[handling'[i] + 1] = Eip(trapped'[i].eip)
         /\ word'[handling'[i] + 2] = Esp(trapped'[i].esp)
         /\ \A w \in (IF i < Len(handling') THEN trapped'[i + 1].esp ELSE esp') .. handling'[i] - 1 :
               word'[w] = Is("local")
  BY <1>4, <1>9, <1>10
<1> QED
  BY <1>6, <1>8, <1>11 DEF StackInv, StackIntact

LEMMA StackInvHolds == StackSpec => []StackInv
<1>1. StackInit => StackInv
  <2> SUFFICES ASSUME StackInit PROVE StackInv
    OBVIOUS
  <2>1. /\ handling = <<>> /\ trapped = <<>> /\ esp = UserStack /\ eip \in Eips /\ kernel = "runs"
        /\ word = [w \in Base .. Words |-> Is("free")]
    BY DEF StackInit
  <2>2. Is("free") \in StackWords
    BY DEF StackWords
  <2>3. StackTypeOK
    BY <2>1, <2>2 DEF StackTypeOK, Esps
  <2> QED
    BY <2>1, <2>3 DEF StackInv, StackIntact, FramesNest, Depth
<1>2. StackInv /\ [StackNext]_stackVars => StackInv'
  <2> SUFFICES ASSUME StackInv, [StackNext]_stackVars PROVE StackInv'
    OBVIOUS
  <2> USE DEF StackInv, StackIntact, StackTypeOK, FramesNest, Depth
  <2>1. CASE FaultOverflows
    BY <2>1 DEF FaultOverflows
  <2>2. CASE RunOn
    BY <2>2 DEF RunOn
  <2>3. CASE UNCHANGED stackVars
    BY <2>3 DEF stackVars
  <2>4. CASE Fault \/ Push \/ Pop \/ Return
    BY <2>4, FaultStep, HandlerStep, ReturnStep
  <2> QED
    BY <2>1, <2>2, <2>3, <2>4 DEF StackNext, StackStopped
<1> QED
  BY <1>1, <1>2, PTL DEF StackSpec

\* However large the stack and however deep the faults nest, what is kept of
\* the faults around the one being handled stays as it was
\* (page_fault_handler, _pgfault_upcall).
THEOREM StackStaysIntact == StackSpec => []StackIntact
<1>1. StackInv => StackIntact
  BY DEF StackInv
<1> QED
  BY <1>1, StackInvHolds, PTL

\* Every handler returns to the instruction and the stack of its own fault.
THEOREM HandlersReturn == StackSpec => ReturnsToFault
<1>1. StackInv /\ [StackNext]_stackVars
        => [Len(handling') < Len(handling)
              => [esp |-> esp', eip |-> eip'] = trapped[Len(trapped)]]_stackVars
  <2> SUFFICES ASSUME StackInv, StackNext, Len(handling') < Len(handling)
               PROVE  [esp |-> esp', eip |-> eip'] = trapped[Len(trapped)]
    OBVIOUS
  <2>1. Len(handling) \in Nat /\ handling \in Seq(Base .. Words) /\ Len(trapped) = Depth
    BY DEF StackInv, StackIntact, StackTypeOK, FramesNest
  <2>2. ~Fault
    BY <2>1 DEF Fault
  <2>3. Return
    BY <2>1, <2>2 DEF StackNext, FaultOverflows, Push, Pop, RunOn, StackStopped, stackVars
  <2> QED
    BY <2>1, <2>3, ReturnWrites
<1> QED
  BY <1>1, StackInvHolds, PTL DEF StackSpec, ReturnsToFault
-----------------------------------------------------------------------------
(* Induction, and recursion.                                               *)

LEMMA NatInduct ==
    ASSUME NEW S, 0 \in S, \A k \in Nat : k \in S => k + 1 \in S
    PROVE  Nat \subseteq S
<1> DEFINE Out == {k \in Nat : k \notin S}
<1>1. CASE Out = {}
  BY <1>1
<1>2. CASE Out # {}
  <2>1. PICK i \in Out : \A j \in Out : i <= j
    <3>1. Out \subseteq Nat
      OBVIOUS
    <3> HIDE DEF Out
    <3> QED
      BY <1>2, <3>1, LeastExists
  <2>2. i \in Nat /\ i \notin S /\ i # 0
    OBVIOUS
  <2>3. i - 1 \in Nat /\ ~(i <= i - 1) /\ (i - 1) + 1 = i
    BY <2>2
  <2>4. i - 1 \in S
    BY <2>1, <2>3
  <2> QED
    BY <2>2, <2>3, <2>4
<1> QED
  BY <1>1, <1>2

-----------------------------------------------------------------------------
(* memmove().                                                              *)

\* Where the bytes of a step are, and those of the steps up to it.
Step(dst, src, n, unit, k) == unit * IF Lib!Backwards(dst, src, n) THEN (n \div unit) - k ELSE k - 1
Reached(dst, src, n, unit, k) ==
    IF Lib!Backwards(dst, src, n) THEN dst + n - unit * k .. dst + n - 1 ELSE dst .. dst + unit * k - 1

\* What a unit is.
LEMMA Units ==
    ASSUME NEW dst \in Nat, NEW src \in Nat, NEW n \in Nat, NEW unit, unit = Lib!Unit(dst, src, n)
    PROVE  unit \in {1, 4} /\ n \div unit \in Nat /\ unit * (n \div unit) = n
<1>1. CASE \A x \in {dst, src, n} : x % 4 = 0
  <2>1. unit = 4 /\ n % 4 = 0
    BY <1>1 DEF Lib!Unit, Lib!Word
  <2> QED
    BY <2>1
<1>2. CASE ~ \A x \in {dst, src, n} : x % 4 = 0
  <2>1. unit = 1
    BY <1>2 DEF Lib!Unit, Lib!Word
  <2> QED
    BY <2>1
<1> QED
  BY <1>1, <1>2

\* A step moves bytes that no step before has overwritten.
LEMMA StepMoves ==
    ASSUME NEW dst \in Nat, NEW src \in Nat, NEW n \in Nat, NEW unit \in {1, 4}, NEW q \in Nat, n \div unit = q, unit * q = n,
           NEW k \in 1 .. q, NEW a \in Int
    PROVE  /\ a - dst - Step(dst, src, n, unit, k) \in 0 .. unit - 1 =>
                 /\ a \in Reached(dst, src, n, unit, k) /\ a \in dst .. dst + n - 1
                 /\ a - dst + src \in src .. src + n - 1
                 /\ a - dst + src \notin Reached(dst, src, n, unit, k - 1)
           /\ a - dst - Step(dst, src, n, unit, k) \notin 0 .. unit - 1 =>
                 (a \in Reached(dst, src, n, unit, k) <=> a \in Reached(dst, src, n, unit, k - 1))
<1>1. CASE Lib!Backwards(dst, src, n)
  <2>1. /\ Step(dst, src, n, unit, k) = unit * (q - k) /\ src < dst
        /\ Reached(dst, src, n, unit, k) = dst + n - unit * k .. dst + n - 1
        /\ Reached(dst, src, n, unit, k - 1) = dst + n - unit * (k - 1) .. dst + n - 1
    BY <1>1 DEF Step, Reached, Lib!Backwards
  <2>2. CASE unit = 1
    BY <2>1, <2>2, SMTT(30)
  <2>3. CASE unit = 4
    BY <2>1, <2>3, SMTT(30)
  <2> QED
    BY <2>2, <2>3
<1>2. CASE ~Lib!Backwards(dst, src, n)
  <2>1. /\ Step(dst, src, n, unit, k) = unit * (k - 1) /\ ~(src < dst /\ src + n > dst)
        /\ Reached(dst, src, n, unit, k) = dst .. dst + unit * k - 1
        /\ Reached(dst, src, n, unit, k - 1) = dst .. dst + unit * (k - 1) - 1
    BY <1>2 DEF Step, Reached, Lib!Backwards
  <2>2. CASE unit = 1
    BY <2>1, <2>2
  <2>3. CASE unit = 4
    BY <2>1, <2>3, SMTT(30)
  <2> QED
    BY <2>2, <2>3
<1> QED
  BY <1>1, <1>2

\* memmove() leaves at dst the n bytes that were at src, and everything else as
\* it was, for all the ways in which the two ranges may overlap.
THEOREM MemmoveMoves ==
    ASSUME NEW before, NEW dst \in Nat, NEW src \in Nat, NEW n \in Nat,
           DOMAIN before \subseteq Int, before = [a \in DOMAIN before |-> before[a]],
           dst .. dst + n - 1 \subseteq DOMAIN before, src .. src + n - 1 \subseteq DOMAIN before
    PROVE  Lib!Memmove(before, dst, src, n) = Lib!MemmoveOf(before, dst, src, n)
<1> DEFINE unit == Lib!Unit(dst, src, n)
           q == n \div unit
           At(k) == unit * IF Lib!Backwards(dst, src, n) THEN q - k ELSE k - 1
           Copies(f) == f = [k \in 0 .. q |->
                               IF k = 0 THEN before
                               ELSE [a \in DOMAIN before |-> IF a - dst - At(k) \in 0 .. unit - 1
                                                          THEN f[k - 1][a - dst + src] ELSE f[k - 1][a]]]
           now(k) == [a \in DOMAIN before |-> IF a \in Reached(dst, src, n, unit, k) THEN before[a - dst + src] ELSE before[a]]
<1>1. unit \in {1, 4} /\ q \in Nat /\ unit * q = n
  BY Units
<1>2. \A k : At(k) = Step(dst, src, n, unit, k)
  BY DEF Step
<1>3. Reached(dst, src, n, unit, 0) = {} /\ Reached(dst, src, n, unit, q) = dst .. dst + n - 1
  <2>1. unit * 0 = 0
    BY <1>1
  <2> HIDE DEF unit, q
  <2> QED
    BY <1>1, <2>1 DEF Reached
<1>4. now(0) = before
  BY <1>3
<1>5. ASSUME NEW k \in 1 .. q
      PROVE  now(k) = [a \in DOMAIN before |-> IF a - dst - At(k) \in 0 .. unit - 1
                                            THEN now(k - 1)[a - dst + src] ELSE now(k - 1)[a]]
  <2>1. ASSUME NEW a \in DOMAIN before
        PROVE  (IF a \in Reached(dst, src, n, unit, k) THEN before[a - dst + src] ELSE before[a]) =
                  IF a - dst - At(k) \in 0 .. unit - 1 THEN now(k - 1)[a - dst + src] ELSE now(k - 1)[a]
    <3>1. a \in Int
      OBVIOUS
    <3>2. /\ a - dst - At(k) \in 0 .. unit - 1 =>
                 /\ a \in Reached(dst, src, n, unit, k) /\ a - dst + src \in DOMAIN before
                 /\ a - dst + src \notin Reached(dst, src, n, unit, k - 1)
          /\ a - dst - At(k) \notin 0 .. unit - 1 =>
                 (a \in Reached(dst, src, n, unit, k) <=> a \in Reached(dst, src, n, unit, k - 1))
      <4>1. /\ a - dst - Step(dst, src, n, unit, k) \in 0 .. unit - 1 =>
                 /\ a \in Reached(dst, src, n, unit, k) /\ a - dst + src \in src .. src + n - 1
                 /\ a - dst + src \notin Reached(dst, src, n, unit, k - 1)
            /\ a - dst - Step(dst, src, n, unit, k) \notin 0 .. unit - 1 =>
                 (a \in Reached(dst, src, n, unit, k) <=> a \in Reached(dst, src, n, unit, k - 1))
        <5> HIDE DEF unit
        <5> QED
          BY <1>1, <3>1, StepMoves
      <4> HIDE DEF unit, At
      <4> QED
        BY <1>2, <4>1
    <3>3. CASE a - dst - At(k) \in 0 .. unit - 1
      <4>1. now(k - 1)[a - dst + src] = before[a - dst + src]
        BY <3>2, <3>3
      <4> HIDE DEF unit, At, now
      <4> QED
        BY <3>2, <3>3, <4>1
    <3>4. CASE a - dst - At(k) \notin 0 .. unit - 1
      <4>1. now(k - 1)[a] = IF a \in Reached(dst, src, n, unit, k - 1) THEN before[a - dst + src] ELSE before[a]
        OBVIOUS
      <4> HIDE DEF unit, At, now
      <4> QED
        BY <3>2, <3>4, <4>1
    <3> QED
      BY <3>3, <3>4
  <2> HIDE DEF unit, At
  <2> QED
    BY <2>1
<1> DEFINE g == [k \in 0 .. q |-> now(k)]
<1>6. Copies(g)
  <2>1. \A k \in 0 .. q : g[k] = now(k)
    OBVIOUS
  <2>2. ASSUME NEW k \in 0 .. q
        PROVE  g[k] = IF k = 0 THEN before
                      ELSE [a \in DOMAIN before |-> IF a - dst - At(k) \in 0 .. unit - 1
                                                 THEN g[k - 1][a - dst + src] ELSE g[k - 1][a]]
    <3> HIDE DEF g, now, At, unit
    <3>1. CASE k = 0
      BY <1>4, <2>1, <3>1
    <3>2. CASE k # 0
      <4>1. k \in 1 .. q /\ k - 1 \in 0 .. q
        BY <1>1, <3>2
      <4> QED
        BY <1>5, <2>1, <3>2, <4>1
    <3> QED
      BY <3>1, <3>2
  <2>3. g = [k \in 0 .. q |-> g[k]]
    OBVIOUS
  <2> HIDE DEF g, now, At, unit
  <2> QED
    BY <2>2, <2>3
<1> DEFINE after == CHOOSE f : Copies(f)
<1>7. Copies(after)
  <2> HIDE DEF g, Copies
  <2> QED
    BY <1>6
<1>8. Lib!Memmove(before, dst, src, n) = after[q]
  BY DEF Lib!Memmove
<1> HIDE DEF after
<1>9. \A k \in Nat : k \in 0 .. q => after[k] = now(k)
  <2> DEFINE Same == {k \in Nat : k \in 0 .. q => after[k] = now(k)}
  <2>1. after[0] = before
    <3> HIDE DEF At, unit
    <3> QED
      BY <1>1, <1>7
  <2>2. 0 \in Same
    <3> HIDE DEF now
    <3> QED
      BY <1>4, <2>1
  <2>3. ASSUME NEW k \in Nat, k \in Same PROVE k + 1 \in Same
    <3>1. CASE k + 1 \in 0 .. q
      <4>1. k \in 0 .. q /\ k + 1 \in 1 .. q /\ k + 1 # 0 /\ (k + 1) - 1 = k
        <5> HIDE DEF q
        <5>1. q \in Nat
          BY <1>1
        <5> QED
          BY <3>1, <5>1
      <4>2. after[k] = now(k)
        <5> HIDE DEF now, q
        <5> QED
          BY <2>3, <4>1
      <4>3. after[k + 1] = [a \in DOMAIN before |-> IF a - dst - At(k + 1) \in 0 .. unit - 1
                                                 THEN after[k][a - dst + src] ELSE after[k][a]]
        <5>1. after[k + 1] = IF k + 1 = 0 THEN before
                             ELSE [a \in DOMAIN before |-> IF a - dst - At(k + 1) \in 0 .. unit - 1
                                                        THEN after[(k + 1) - 1][a - dst + src] ELSE after[(k + 1) - 1][a]]
          <6> HIDE DEF At, unit, q
          <6> QED
            BY <1>7, <3>1, Zenon
        <5> HIDE DEF At, unit, q
        <5> QED
          BY <4>1, <5>1
      <4>4. after[k + 1] = now(k + 1)
        <5> HIDE DEF now, At, unit, q
        <5> QED
          BY <1>5, <4>1, <4>2, <4>3
      <4> HIDE DEF now, q
      <4> QED
        BY <4>4
    <3>2. CASE k + 1 \notin 0 .. q
      <4> HIDE DEF now, q
      <4> QED
        BY <3>2
    <3> QED
      BY <3>1, <3>2
  <2> HIDE DEF Same
  <2>4. Nat \subseteq Same
    BY <2>2, <2>3, NatInduct
  <2> QED
    BY <2>4 DEF Same
<1>10. after[q] = now(q)
  <2> HIDE DEF now, q
  <2> QED
    BY <1>1, <1>9
<1>11. now(q) = Lib!MemmoveOf(before, dst, src, n)
  BY <1>3 DEF Lib!MemmoveOf
<1> QED
  BY <1>8, <1>10, <1>11

-----------------------------------------------------------------------------
(* The search of the table of stabs.                                       *)

States == [l : Int, r : Int, left : Int, right : Int, addr : Int, any : BOOLEAN]
OfType(stabs, type, i) == stabs[i].n_type = type

\* The greatest number of a set that is finite and not empty.
LEMMA GreatestExists ==
    ASSUME NEW S, IsFiniteSet(S), S \subseteq Int, S # {}
    PROVE  Max(S) \in S /\ \A y \in S : y <= Max(S)
<1> DEFINE R == StrictSubsetOrdering(S)
           Above(x) == {y \in S : y > x}
           T == {Above(x) : x \in S}
<1>1. IsWellFoundedOn(R, FiniteSubsetsOf(S))
  BY FS_StrictSubsetOrderingWellFounded
<1>2. T \subseteq FiniteSubsetsOf(S) /\ T # {}
  <2>1. \A x \in S : Above(x) \subseteq S /\ IsFiniteSet(Above(x))
    BY FS_Subset
  <2> HIDE DEF Above
  <2> QED BY <2>1 DEF FiniteSubsetsOf
<1>3. PICK A \in T : \A X \in T : <<X, A>> \notin R
  <2> HIDE DEF R, T
  <2> QED BY <1>1, <1>2, WFMin
<1>4. PICK x \in S : A = Above(x)
  OBVIOUS
<1>5. ASSUME NEW y \in S, y > x PROVE FALSE
  <2>0. \A z \in S : z > y => z > x
    BY <1>5
  <2>1. Above(y) \in T /\ Above(y) \subseteq Above(x) /\ Above(x) \subseteq S
    BY <2>0
  <2>2. y \in Above(x) /\ y \notin Above(y)
    BY <1>5
  <2>3. Above(y) # Above(x)
    BY <2>2
  <2>4. <<Above(y), Above(x)>> \in R
    <3> HIDE DEF Above
    <3> QED BY <2>1, <2>3 DEF StrictSubsetOrdering
  <2> QED
    BY <1>3, <1>4, <2>1, <2>4
<1> HIDE DEF R, Above, T
<1>6. ASSUME NEW y \in S PROVE x >= y /\ y <= x
  <2>1. x \in Int /\ y \in Int
    OBVIOUS
  <2> QED
    BY <1>5, <2>1
<1> QED
  BY <1>6 DEF Max

\* The rightmost stab of a type, or none.
LEMMA FindTypeFinds ==
    ASSUME NEW stabs, NEW type, NEW l \in Int, NEW m \in Int, l <= m + 1, NEW f, f = Debug!FindType(stabs, m, l, type)
    PROVE  /\ f \in l - 1 .. m /\ (f >= l => OfType(stabs, type, f))
           /\ \A i \in l .. m : OfType(stabs, type, i) => i <= f
<1> DEFINE hits == {i \in l .. m : stabs[i].n_type = type}
           all == {l - 1} \cup hits
<1>1. IsFiniteSet(hits)
  <2>1. IsFiniteSet(l .. m)
    BY FS_Interval
  <2> QED
    BY <2>1, FS_Subset
<1>2. IsFiniteSet(all)
  <2>1. IsFiniteSet({l - 1})
    BY FS_Singleton
  <2> HIDE DEF hits
  <2> QED
    BY <1>1, <2>1, FS_Union
<1>3. all \subseteq Int /\ all # {}
  OBVIOUS
<1>4. f = Max(all)
  BY DEF Debug!FindType, Debug!Max, Max
<1>5. f \in all /\ \A y \in all : y <= f
  <2> HIDE DEF all
  <2> QED
    BY <1>2, <1>3, <1>4, GreatestExists
<1>6. f \in l - 1 .. m /\ (f >= l => OfType(stabs, type, f))
  BY <1>5 DEF OfType
<1>7. ASSUME NEW i \in l .. m, OfType(stabs, type, i) PROVE i <= f
  <2>1. i \in all
    BY <1>7 DEF OfType
  <2> HIDE DEF all
  <2> QED
    BY <1>5, <2>1
<1> QED
  BY <1>6, <1>7

\* Where a turn goes on that starts in the middle and finds stab m, or none.
Goes(stabs, type, s, mid, m, h) ==
    /\ \A i \in m + 1 .. mid : ~OfType(stabs, type, i)
    /\ m >= s.l => OfType(stabs, type, m)
    /\ \/ m < s.l /\ h = [l |-> mid + 1, r |-> s.r, left |-> s.left, right |-> s.right, addr |-> s.addr, any |-> s.any]
       \/ m >= s.l /\ stabs[m].n_value < s.addr /\ h = [l |-> mid + 1, r |-> s.r, left |-> m, right |-> s.right, addr |-> s.addr, any |-> TRUE]
       \/ m >= s.l /\ stabs[m].n_value > s.addr /\ h = [l |-> s.l, r |-> m - 1, left |-> s.left, right |-> m - 1, addr |-> s.addr, any |-> TRUE]
       \/ /\ m >= s.l /\ ~(stabs[m].n_value < s.addr) /\ ~(stabs[m].n_value > s.addr)
          /\ h = [l |-> m, r |-> s.r, left |-> m, right |-> s.right, addr |-> s.addr + 1, any |-> TRUE]

LEMMA Turns ==
    ASSUME NEW stabs, NEW type, NEW s \in States, s.l <= s.r, NEW h, h = Debug!Halve(stabs, s, type)
    PROVE  \E mid \in s.l .. s.r : \E m \in s.l - 1 .. mid : Goes(stabs, type, s, mid, m, h)
<1> DEFINE mid == (s.l + s.r) \div 2
           m == Debug!FindType(stabs, mid, s.l, type)
<1>1. s.l \in Int /\ s.r \in Int /\ mid \in s.l .. s.r
  BY DEF States
<1>2. /\ m \in s.l - 1 .. mid /\ (m >= s.l => OfType(stabs, type, m))
      /\ \A i \in s.l .. mid : OfType(stabs, type, i) => i <= m
  <2>1. mid \in Int /\ s.l <= mid + 1
    BY <1>1
  <2> HIDE DEF mid
  <2> QED
    BY <1>1, <2>1, FindTypeFinds
<1>3. \A i \in m + 1 .. mid : ~OfType(stabs, type, i)
  <2> HIDE DEF mid, m
  <2> QED
    BY <1>1, <1>2
<1>4. \/ m < s.l /\ h = [l |-> mid + 1, r |-> s.r, left |-> s.left, right |-> s.right, addr |-> s.addr, any |-> s.any]
      \/ m >= s.l /\ stabs[m].n_value < s.addr /\ h = [l |-> mid + 1, r |-> s.r, left |-> m, right |-> s.right, addr |-> s.addr, any |-> TRUE]
      \/ m >= s.l /\ stabs[m].n_value > s.addr /\ h = [l |-> s.l, r |-> m - 1, left |-> s.left, right |-> m - 1, addr |-> s.addr, any |-> TRUE]
      \/ /\ m >= s.l /\ ~(stabs[m].n_value < s.addr) /\ ~(stabs[m].n_value > s.addr)
         /\ h = [l |-> m, r |-> s.r, left |-> m, right |-> s.right, addr |-> s.addr + 1, any |-> TRUE]
  <2>1. h = CASE m < s.l -> [s EXCEPT !.l = mid + 1]
              [] m >= s.l /\ stabs[m].n_value < s.addr -> [[s EXCEPT !.any = TRUE] EXCEPT !.left = m, !.l = mid + 1]
              [] m >= s.l /\ stabs[m].n_value > s.addr -> [[s EXCEPT !.any = TRUE] EXCEPT !.right = m - 1, !.r = m - 1]
              [] OTHER -> [[s EXCEPT !.any = TRUE] EXCEPT !.left = m, !.l = m, !.addr = @ + 1]
    BY DEF Debug!Halve
  <2>2. m \in Int /\ s.l \in Int
    <3> HIDE DEF mid, m
    <3> QED
      BY <1>1, <1>2
  <2> HIDE DEF mid, m
  <2>3. ASSUME h = [s EXCEPT !.l = mid + 1]
        PROVE  h = [l |-> mid + 1, r |-> s.r, left |-> s.left, right |-> s.right, addr |-> s.addr, any |-> s.any]
    BY <2>3 DEF States
  <2>4. ASSUME h = [[s EXCEPT !.any = TRUE] EXCEPT !.left = m, !.l = mid + 1]
        PROVE  h = [l |-> mid + 1, r |-> s.r, left |-> m, right |-> s.right, addr |-> s.addr, any |-> TRUE]
    BY <2>4 DEF States
  <2>5. ASSUME h = [[s EXCEPT !.any = TRUE] EXCEPT !.right = m - 1, !.r = m - 1]
        PROVE  h = [l |-> s.l, r |-> m - 1, left |-> s.left, right |-> m - 1, addr |-> s.addr, any |-> TRUE]
    BY <2>5 DEF States
  <2>6. ASSUME h = [[s EXCEPT !.any = TRUE] EXCEPT !.left = m, !.l = m, !.addr = @ + 1]
        PROVE  h = [l |-> m, r |-> s.r, left |-> m, right |-> s.right, addr |-> s.addr + 1, any |-> TRUE]
    BY <2>6 DEF States
  <2>7. m < s.l \/ m >= s.l
    BY <2>2
  <2> QED
    BY <2>1, <2>3, <2>4, <2>5, <2>6, <2>7, Zenon
<1> HIDE DEF mid, m
<1> QED
  BY <1>1, <1>2, <1>3, <1>4 DEF Goes

\* The place of the search is in the region, and gets smaller: a turn that
\* leaves it as it is comes to know that the first stab is below addr.
Known(stabs, type, s) == s.l <= s.r /\ OfType(stabs, type, s.l) /\ stabs[s.l].n_value < s.addr
ToGo(stabs, type, s) == 2 * (s.r - s.l + 1) + IF Known(stabs, type, s) THEN 0 ELSE 1
Within(s, left, right) == s \in States /\ left <= s.l /\ s.l <= s.r + 1 /\ s.r <= right /\ s.left \in left .. right

Numbered(stabs, left, right) == \A i \in left .. right : stabs[i].n_value \in Int

LEMMA TurnShrinks ==
    ASSUME NEW stabs, NEW type, NEW left \in Int, NEW right \in Int, Numbered(stabs, left, right),
           NEW s, Within(s, left, right), s.l <= s.r, NEW h, h = Debug!Halve(stabs, s, type)
    PROVE  /\ Within(h, left, right)
           /\ ToGo(stabs, type, h) \in Int /\ ToGo(stabs, type, s) \in Int
           /\ ToGo(stabs, type, h) < ToGo(stabs, type, s)
<1> DEFINE w == s.r - s.l + 1
           v == h.r - h.l + 1
<1>0. s \in States /\ s.l \in Int /\ s.r \in Int /\ s.addr \in Int /\ s.right \in Int /\ s.left \in left .. right
      /\ left <= s.l /\ s.r <= right
  BY DEF Within, States
<1>1. PICK mid \in s.l .. s.r : \E m \in s.l - 1 .. mid : Goes(stabs, type, s, mid, m, h)
  BY <1>0, Turns
<1>2. PICK m \in s.l - 1 .. mid : Goes(stabs, type, s, mid, m, h)
  BY <1>1
<1>3. mid \in Int /\ m \in Int /\ (m >= s.l => m \in left .. right /\ stabs[m].n_value \in Int)
  BY <1>0 DEF Numbered
<1>4. w \in Int /\ (ToGo(stabs, type, s) = 2 * w \/ ToGo(stabs, type, s) = 2 * w + 1)
      /\ (~Known(stabs, type, s) => ToGo(stabs, type, s) = 2 * w + 1)
  BY <1>0 DEF ToGo
<1>5. CASE \/ h = [l |-> mid + 1, r |-> s.r, left |-> s.left, right |-> s.right, addr |-> s.addr, any |-> s.any]
           \/ m >= s.l /\ h = [l |-> mid + 1, r |-> s.r, left |-> m, right |-> s.right, addr |-> s.addr, any |-> TRUE]
  <2>1. h \in States /\ h.l = mid + 1 /\ h.r = s.r /\ (h.left = s.left \/ (h.left = m /\ m >= s.l))
    <3>1. CASE h = [l |-> mid + 1, r |-> s.r, left |-> s.left, right |-> s.right, addr |-> s.addr, any |-> s.any]
      BY <1>0, <1>3, <3>1 DEF States
    <3>2. CASE m >= s.l /\ h = [l |-> mid + 1, r |-> s.r, left |-> m, right |-> s.right, addr |-> s.addr, any |-> TRUE]
      BY <1>0, <1>3, <3>2 DEF States
    <3> QED
      BY <1>5, <3>1, <3>2
  <2>2. Within(h, left, right)
    BY <1>0, <1>3, <2>1 DEF Within
  <2>3. v \in Int /\ v < w /\ (ToGo(stabs, type, h) = 2 * v \/ ToGo(stabs, type, h) = 2 * v + 1)
    BY <1>0, <1>3, <2>1 DEF ToGo
  <2> HIDE DEF v, w
  <2> QED
    BY <1>4, <2>2, <2>3
<1>6. CASE m >= s.l /\ h = [l |-> s.l, r |-> m - 1, left |-> s.left, right |-> m - 1, addr |-> s.addr, any |-> TRUE]
  <2>1. h \in States /\ h.l = s.l /\ h.r = m - 1 /\ h.left = s.left
    BY <1>0, <1>3, <1>6 DEF States
  <2>2. Within(h, left, right)
    BY <1>0, <1>3, <1>6, <2>1 DEF Within
  <2>3. v \in Int /\ v < w /\ (ToGo(stabs, type, h) = 2 * v \/ ToGo(stabs, type, h) = 2 * v + 1)
    BY <1>0, <1>3, <2>1 DEF ToGo
  <2> HIDE DEF v, w
  <2> QED
    BY <1>4, <2>2, <2>3
<1>7. CASE /\ m >= s.l /\ ~(stabs[m].n_value < s.addr) /\ ~(stabs[m].n_value > s.addr)
           /\ h = [l |-> m, r |-> s.r, left |-> m, right |-> s.right, addr |-> s.addr + 1, any |-> TRUE]
  <2>1. h \in States /\ h.l = m /\ h.r = s.r /\ h.left = m /\ h.addr = s.addr + 1 /\ stabs[m].n_value = s.addr
    BY <1>0, <1>3, <1>7 DEF States
  <2>2. Within(h, left, right)
    BY <1>0, <1>3, <1>7, <2>1 DEF Within
  <2>3. Known(stabs, type, h)
    BY <1>0, <1>2, <1>3, <1>7, <2>1 DEF Known, Goes
  <2>4. v \in Int /\ v <= w /\ ToGo(stabs, type, h) = 2 * v
    BY <1>0, <1>3, <1>7, <2>1, <2>3 DEF ToGo
  <2>5. Known(stabs, type, s) => v < w
    <3>1. SUFFICES ASSUME Known(stabs, type, s) PROVE v < w
      OBVIOUS
    <3>2. m # s.l
      BY <1>0, <1>3, <2>1, <3>1 DEF Known
    <3> QED
      BY <1>0, <1>3, <1>7, <2>1, <3>2
  <2> HIDE DEF v, w
  <2> QED
    BY <1>4, <2>2, <2>4, <2>5
<1> QED
  BY <1>2, <1>5, <1>6, <1>7 DEF Goes

\* Of each turn there is a state that it leaves, and the loop has ended after
\* them.
TurnsOf(f, stabs, s, type, n) ==
    f = [k \in 0 .. n |-> IF k = 0 THEN s ELSE Debug!Turn(stabs, f[k - 1], type)]

LEMMA TurnsExist ==
    ASSUME NEW stabs, NEW s, NEW type, NEW n \in Nat
    PROVE  \E f : TurnsOf(f, stabs, s, type, n)
<1> DEFINE Done == {k \in Nat : \E f : TurnsOf(f, stabs, s, type, k)}
<1>1. 0 \in Done
  <2> DEFINE f == [k \in 0 .. 0 |-> s]
  <2>1. TurnsOf(f, stabs, s, type, 0)
    BY DEF TurnsOf
  <2> QED
    BY <2>1
<1>2. ASSUME NEW i \in Nat, i \in Done PROVE i + 1 \in Done
  <2>1. PICK g : TurnsOf(g, stabs, s, type, i)
    BY <1>2
  <2> DEFINE last == Debug!Turn(stabs, g[i], type)
             f == [k \in 0 .. i + 1 |-> IF k = i + 1 THEN last ELSE g[k]]
  <2>2. \A k \in 0 .. i : f[k] = g[k] /\ g[k] = IF k = 0 THEN s ELSE Debug!Turn(stabs, g[k - 1], type)
    <3>1. \A k \in 0 .. i : g[k] = IF k = 0 THEN s ELSE Debug!Turn(stabs, g[k - 1], type)
      BY <2>1 DEF TurnsOf
    <3>2. \A k \in 0 .. i : k # i + 1 /\ k \in 0 .. i + 1
      OBVIOUS
    <3> HIDE DEF last
    <3> QED
      BY <3>1, <3>2
  <2>3. f[i + 1] = last
    OBVIOUS
  <2>4. ASSUME NEW k \in 0 .. i + 1 PROVE f[k] = IF k = 0 THEN s ELSE Debug!Turn(stabs, f[k - 1], type)
    <3>1. CASE k = i + 1
      <4>1. k # 0 /\ k - 1 = i /\ i \in 0 .. i
        BY <3>1
      <4> HIDE DEF f
      <4> QED
        BY <2>2, <2>3, <3>1, <4>1
    <3>2. CASE k # i + 1
      <4>1. k \in 0 .. i /\ (k # 0 => k - 1 \in 0 .. i)
        BY <3>2
      <4> HIDE DEF f, last
      <4> QED
        BY <2>2, <4>1
    <3> QED
      BY <3>1, <3>2
  <2>5. f = [k \in 0 .. i + 1 |-> f[k]]
    OBVIOUS
  <2> HIDE DEF f
  <2>6. TurnsOf(f, stabs, s, type, i + 1)
    BY <2>4, <2>5 DEF TurnsOf
  <2> QED
    BY <2>6
<1> HIDE DEF Done
<1>3. Nat \subseteq Done
  BY <1>1, <1>2, NatInduct
<1> QED
  BY <1>3 DEF Done

LEMMA SearchTurns ==
    ASSUME NEW stabs, NEW type, NEW s, NEW n \in Nat, n = 2 * (s.r - s.l + 1)
    PROVE  \E f : /\ f[0] = s /\ Debug!Search(stabs, s, type) = f[n]
                  /\ \A k \in 1 .. n : f[k] = Debug!Turn(stabs, f[k - 1], type)
<1> DEFINE f == CHOOSE f : TurnsOf(f, stabs, s, type, n)
<1>1. TurnsOf(f, stabs, s, type, n)
  BY TurnsExist
<1>2. Debug!Search(stabs, s, type) = f[n]
  BY DEF Debug!Search, TurnsOf
<1> HIDE DEF f
<1>3. \A k \in 0 .. n : f[k] = IF k = 0 THEN s ELSE Debug!Turn(stabs, f[k - 1], type)
  BY <1>1 DEF TurnsOf
<1>4. 0 \in 0 .. n /\ \A k \in 1 .. n : k \in 0 .. n /\ k # 0
  OBVIOUS
<1>5. f[0] = s /\ \A k \in 1 .. n : f[k] = Debug!Turn(stabs, f[k - 1], type)
  BY <1>3, <1>4
<1> QED
  BY <1>2, <1>5

\* f is the states of the first n turns of the search from s.
Turning(stabs, type, f, n, s) == f[0] = s /\ \A k \in 1 .. n : f[k] = Debug!Turn(stabs, f[k - 1], type)

\* The loop ends, whatever the table: after the turns that Search allows it.
LEMMA SearchEnds ==
    ASSUME NEW stabs, NEW type, NEW left \in Int, NEW right \in Int, left <= right + 1, Numbered(stabs, left, right),
           NEW s \in States, s.l = left, s.r = right, s.left = left, left <= right,
           NEW f, NEW n \in Nat, n = 2 * (right - left + 1), Turning(stabs, type, f, n, s)
    PROVE  /\ \A k \in 0 .. n : Within(f[k], left, right)
           /\ f[n].l > f[n].r
<1> DEFINE Small(k) == Within(f[k], left, right) /\ (ToGo(stabs, type, f[k]) <= n + 1 - k \/ f[k].l > f[k].r)
           Right == {k \in Nat : k \in 0 .. n => Small(k)}
<1>1. Small(0)
  <2>1. Within(s, left, right)
    BY DEF Within
  <2>2. ToGo(stabs, type, s) <= n + 1
    BY DEF ToGo
  <2> QED
    BY <2>1, <2>2 DEF Turning
<1>2. ASSUME NEW k \in Nat, k + 1 \in 0 .. n, Small(k) PROVE Small(k + 1)
  <2>1. k + 1 \in 1 .. n /\ (k + 1) - 1 = k
    BY <1>2
  <2>2. f[k + 1] = Debug!Turn(stabs, f[k], type)
    BY <2>1 DEF Turning
  <2>3. f[k] \in States /\ f[k].l \in Int /\ f[k].r \in Int
    BY <1>2 DEF Within, States
  <2>4. CASE f[k].l <= f[k].r
    <3>1. f[k + 1] = Debug!Halve(stabs, f[k], type)
      BY <2>2, <2>4 DEF Debug!Turn
    <3>2. /\ Within(f[k + 1], left, right)
          /\ ToGo(stabs, type, f[k + 1]) \in Int /\ ToGo(stabs, type, f[k]) \in Int
          /\ ToGo(stabs, type, f[k + 1]) < ToGo(stabs, type, f[k])
      BY <1>2, <2>4, <3>1, TurnShrinks
    <3>3. ToGo(stabs, type, f[k]) <= n + 1 - k
      BY <1>2, <2>3, <2>4
    <3> QED
      BY <3>2, <3>3
  <2>5. CASE ~(f[k].l <= f[k].r)
    <3>1. f[k + 1] = f[k]
      BY <2>2, <2>5 DEF Debug!Turn
    <3> QED
      BY <1>2, <2>3, <2>5, <3>1
  <2> QED
    BY <2>4, <2>5
<1> HIDE DEF Small
<1>3. Nat \subseteq Right
  <2>1. 0 \in Right
    BY <1>1
  <2>2. ASSUME NEW k \in Nat, k \in Right PROVE k + 1 \in Right
    BY <1>2, <2>2
  <2> HIDE DEF Right
  <2> QED
    BY <2>1, <2>2, NatInduct
<1>4. \A k \in 0 .. n : Small(k)
  BY <1>3
<1>5. f[n].l > f[n].r
  <2>1. Small(n)
    BY <1>4
  <2>2. f[n].l \in Int /\ f[n].r \in Int
    BY <2>1 DEF Small, Within, States
  <2>3. ASSUME ToGo(stabs, type, f[n]) <= 1 PROVE f[n].l > f[n].r
    BY <2>2, <2>3 DEF ToGo, Known
  <2>4. n + 1 - n = 1
    OBVIOUS
  <2> QED
    BY <2>1, <2>3, <2>4 DEF Small
<1> QED
  BY <1>4, <1>5 DEF Small

\* Those of a type are in order of their values, and addr and the number after
\* it are not both among these.
Sorted(stabs, type, left, right) ==
    \A i, j \in left .. right : OfType(stabs, type, i) /\ OfType(stabs, type, j) /\ i < j => stabs[i].n_value < stabs[j].n_value
NotBoth(stabs, type, left, right, addr) ==
    ~ \E i, j \in left .. right : OfType(stabs, type, i) /\ OfType(stabs, type, j) /\ stabs[i].n_value = addr /\ stabs[j].n_value = addr + 1

\* What is left of l is not above addr, and what is right of r is; s.left and
\* s.right are where they are for that.
Searching(stabs, type, left, right, addr, s) ==
    /\ s.right = s.r
    /\ s.left = left \/ (OfType(stabs, type, s.left) /\ stabs[s.left].n_value <= addr)
    /\ s.addr = addr \/ (s.addr = addr + 1 /\ \E i \in left .. right : OfType(stabs, type, i) /\ stabs[i].n_value = addr)
    /\ \A i \in left .. s.l - 1 : OfType(stabs, type, i) => stabs[i].n_value <= addr /\ stabs[i].n_value < s.addr
    /\ \A i \in s.r + 1 .. right : OfType(stabs, type, i) => stabs[i].n_value > addr
    /\ s.r = right \/ (s.r + 1 \in left .. right /\ OfType(stabs, type, s.r + 1))
    /\ ~s.any => s.r = right /\ \A i \in left .. s.l - 1 : ~OfType(stabs, type, i)

LEMMA TurnSearches ==
    ASSUME NEW stabs, NEW type, NEW left \in Int, NEW right \in Int, Numbered(stabs, left, right), NEW addr \in Int,
           Sorted(stabs, type, left, right), NotBoth(stabs, type, left, right, addr),
           NEW s, Within(s, left, right), s.l <= s.r, NEW h, h = Debug!Halve(stabs, s, type),
           Searching(stabs, type, left, right, addr, s)
    PROVE  Searching(stabs, type, left, right, addr, h)
<1>0. s \in States /\ s.l \in Int /\ s.r \in Int /\ s.addr \in Int /\ s.right \in Int /\ s.left \in left .. right
      /\ left <= s.l /\ s.r <= right
  BY DEF Within, States
<1>1. PICK mid \in s.l .. s.r : \E m \in s.l - 1 .. mid : Goes(stabs, type, s, mid, m, h)
  BY <1>0, Turns
<1>2. PICK m \in s.l - 1 .. mid : Goes(stabs, type, s, mid, m, h)
  BY <1>1
<1>3. /\ mid \in Int /\ m \in Int /\ (m >= s.l => m \in left .. right /\ OfType(stabs, type, m) /\ stabs[m].n_value \in Int)
      /\ \A i \in left .. right : stabs[i].n_value \in Int
      /\ \A i \in m + 1 .. mid : ~OfType(stabs, type, i)
  BY <1>0, <1>2 DEF Numbered, Goes
<1>4. s.addr = addr \/ s.addr = addr + 1
  BY DEF Searching
\* What the turn leaves on the left.
<1>5. ASSUME NEW i \in left .. mid, OfType(stabs, type, i)
      PROVE  i < s.l \/ (i >= s.l /\ i <= m)
  BY <1>0, <1>3, <1>5
<1>6. CASE m < s.l /\ h = [l |-> mid + 1, r |-> s.r, left |-> s.left, right |-> s.right, addr |-> s.addr, any |-> s.any]
  <2>1. h.l = mid + 1 /\ h.r = s.r /\ h.left = s.left /\ h.right = s.right /\ h.addr = s.addr /\ h.any = s.any
    BY <1>6
  <2>2. \A i \in left .. mid : OfType(stabs, type, i) => i \in left .. s.l - 1
    BY <1>0, <1>3, <1>5, <1>6
  <2>3. \A i \in left .. h.l - 1 : i \in left .. mid
    BY <1>3, <2>1
  <2> QED
    BY <2>1, <2>2, <2>3 DEF Searching
<1>7. CASE /\ m >= s.l /\ stabs[m].n_value < s.addr
           /\ h = [l |-> mid + 1, r |-> s.r, left |-> m, right |-> s.right, addr |-> s.addr, any |-> TRUE]
  <2>1. h.l = mid + 1 /\ h.r = s.r /\ h.left = m /\ h.right = s.right /\ h.addr = s.addr /\ h.any = TRUE
    BY <1>7
  <2>2. stabs[m].n_value <= addr
    BY <1>3, <1>4, <1>7
  <2>3. ASSUME NEW i \in left .. h.l - 1, OfType(stabs, type, i)
        PROVE  stabs[i].n_value <= addr /\ stabs[i].n_value < s.addr
    <3>1. i \in left .. mid /\ i \in left .. right /\ stabs[i].n_value \in Int
      BY <1>0, <1>3, <2>1
    <3>2. CASE i < m
      <4>1. stabs[i].n_value < stabs[m].n_value
        BY <1>3, <1>7, <2>3, <3>1, <3>2 DEF Sorted
      <4> QED
        BY <1>0, <1>3, <1>7, <2>2, <3>1, <4>1
    <3>3. CASE ~(i < m)
      <4>1. i = m
        BY <1>0, <1>3, <1>5, <1>7, <2>3, <3>1, <3>3
      <4> QED
        BY <1>7, <2>2, <4>1
    <3> QED
      BY <3>2, <3>3
  <2> QED
    BY <1>3, <1>7, <2>1, <2>2, <2>3 DEF Searching
<1>8. CASE /\ m >= s.l /\ stabs[m].n_value > s.addr
           /\ h = [l |-> s.l, r |-> m - 1, left |-> s.left, right |-> m - 1, addr |-> s.addr, any |-> TRUE]
  <2>1. h.l = s.l /\ h.r = m - 1 /\ h.left = s.left /\ h.right = m - 1 /\ h.addr = s.addr /\ h.any = TRUE
    BY <1>8
  <2>2. stabs[m].n_value > addr
    BY <1>3, <1>4, <1>8
  <2>3. ASSUME NEW i \in h.r + 1 .. right, OfType(stabs, type, i) PROVE stabs[i].n_value > addr
    <3>1. i \in left .. right /\ stabs[i].n_value \in Int /\ (i = m \/ i > m)
      BY <1>0, <1>3, <1>8, <2>1
    <3>2. i > m => stabs[i].n_value > stabs[m].n_value
      BY <1>3, <1>8, <2>3, <3>1 DEF Sorted
    <3> QED
      BY <1>3, <1>8, <2>2, <3>1, <3>2
  <2>4. h.r + 1 \in left .. right /\ OfType(stabs, type, h.r + 1)
    <3>1. h.r + 1 = m
      BY <1>3, <2>1
    <3> QED
      BY <1>3, <1>8, <3>1
  <2> QED
    BY <2>1, <2>3, <2>4 DEF Searching
<1>9. CASE /\ m >= s.l /\ ~(stabs[m].n_value < s.addr) /\ ~(stabs[m].n_value > s.addr)
           /\ h = [l |-> m, r |-> s.r, left |-> m, right |-> s.right, addr |-> s.addr + 1, any |-> TRUE]
  <2>1. h.l = m /\ h.r = s.r /\ h.left = m /\ h.right = s.right /\ h.addr = s.addr + 1 /\ h.any = TRUE
    BY <1>9
  <2>2. stabs[m].n_value = s.addr
    BY <1>0, <1>3, <1>9
  <2>3. s.addr = addr
    <3>1. SUFFICES ASSUME s.addr = addr + 1, s.addr # addr PROVE FALSE
      BY <1>4
    <3>2. PICK i \in left .. right : OfType(stabs, type, i) /\ stabs[i].n_value = addr
      BY <3>1 DEF Searching
    <3> QED
      BY <1>3, <1>9, <2>2, <3>1, <3>2 DEF NotBoth
  <2>4. ASSUME NEW i \in left .. h.l - 1, OfType(stabs, type, i)
        PROVE  stabs[i].n_value <= addr /\ stabs[i].n_value < h.addr
    <3>1. i \in left .. right /\ stabs[i].n_value \in Int /\ i < m
      BY <1>0, <1>3, <1>9, <2>1
    <3>2. stabs[i].n_value < stabs[m].n_value
      BY <1>3, <1>9, <2>4, <3>1 DEF Sorted
    <3> QED
      BY <2>1, <2>2, <2>3, <3>1, <3>2
  <2>5. m \in left .. right /\ OfType(stabs, type, m) /\ stabs[m].n_value = addr /\ stabs[m].n_value <= addr
    BY <1>3, <1>9, <2>2, <2>3
  <2> QED
    BY <2>1, <2>3, <2>4, <2>5 DEF Searching
<1> QED
  BY <1>2, <1>6, <1>7, <1>8, <1>9 DEF Goes

\* stab_binsearch() finds in every table what debuginfo_eip() counts on: of
\* the stabs of a type, which are in order only among each other, the last that
\* is not above the address, and the place before the next one.
THEOREM StabSearchKeepsPromise ==
    ASSUME NEW stabs, NEW type, NEW left \in Int, NEW right \in Int, NEW addr \in Int,
           Numbered(stabs, left, right), Sorted(stabs, type, left, right)
    PROVE  Debug!Promised(stabs, left, right, type, addr)
<1> DEFINE ofType == {i \in left .. right : stabs[i].n_type = type}
           below == {i \in ofType : stabs[i].n_value <= addr}
           above == {i \in ofType : stabs[i].n_value > addr}
           s == [l |-> left, r |-> right, left |-> left, right |-> right, addr |-> addr, any |-> FALSE]
           e == Debug!Search(stabs, s, type)
           last == Debug!FindType(stabs, e.right, e.left + 1, type)
<1> SUFFICES ASSUME below # {}, ~ {addr, addr + 1} \subseteq {stabs[i].n_value : i \in ofType}
             PROVE  Debug!stab_binsearch(stabs, left, right, type, addr) =
                       <<Max(below), IF above = {} THEN right ELSE Min(above) - 1>>
  BY DEF Debug!Promised, Debug!Max, Debug!Min, Max, Min
<1>1. left <= right /\ s \in States
  BY DEF States
<1>2. NotBoth(stabs, type, left, right, addr)
  BY DEF NotBoth, OfType
<1>3. Within(e, left, right) /\ e.l > e.r /\ Searching(stabs, type, left, right, addr, e)
  <2> DEFINE n == 2 * (right - left + 1)
  <2>1. n \in Nat /\ s.l = left /\ s.r = right /\ s.left = left /\ s.right = right /\ s.addr = addr /\ s.any = FALSE
    BY <1>1
  <2> HIDE DEF n, s, e
  <2>2. n = 2 * (s.r - s.l + 1)
    BY <2>1 DEF n
  <2>3. PICK f : /\ f[0] = s /\ Debug!Search(stabs, s, type) = f[n]
                 /\ \A k \in 1 .. n : f[k] = Debug!Turn(stabs, f[k - 1], type)
    BY <2>1, <2>2, SearchTurns, SMTT(30)
  <2>4. (\A k \in 0 .. n : Within(f[k], left, right)) /\ f[n].l > f[n].r
    <3>1. n = 2 * (right - left + 1) /\ left <= right + 1
      BY <1>1 DEF n
    <3>2. left \in Int /\ right \in Int /\ n \in Nat /\ f[0] = s /\ s \in States /\ s.l = left /\ s.r = right /\ s.left = left /\ left <= right
      BY <1>1, <2>1, <2>3
    <3>3. \A k \in 1 .. n : f[k] = Debug!Turn(stabs, f[k - 1], type)
      BY <2>3
    <3>4. Turning(stabs, type, f, n, s)
      BY <3>2, <3>3 DEF Turning
    <3> HIDE DEF below, above, ofType
    <3> QED
      BY <3>1, <3>2, <3>4, SearchEnds
  <2> DEFINE Right == {k \in Nat : k \in 0 .. n => Searching(stabs, type, left, right, addr, f[k])}
  <2>5. 0 \in Right
    <3>1. Searching(stabs, type, left, right, addr, s)
      BY <1>1, <2>1 DEF Searching
    <3> QED
      BY <2>3, <3>1
  <2>6. ASSUME NEW k \in Nat, k \in Right PROVE k + 1 \in Right
    <3> SUFFICES ASSUME k + 1 \in 0 .. n PROVE Searching(stabs, type, left, right, addr, f[k + 1])
      OBVIOUS
    <3>1. k + 1 \in 1 .. n /\ (k + 1) - 1 = k /\ k \in 0 .. n
      BY <2>1
    <3>2. f[k + 1] = Debug!Turn(stabs, f[k], type) /\ Within(f[k], left, right) /\ Searching(stabs, type, left, right, addr, f[k])
      BY <2>3, <2>4, <2>6, <3>1
    <3>3. CASE f[k].l <= f[k].r
      <4>1. f[k + 1] = Debug!Halve(stabs, f[k], type)
        BY <3>2, <3>3 DEF Debug!Turn
      <4> QED
        BY <1>2, <3>2, <3>3, <4>1, TurnSearches
    <3>4. CASE ~(f[k].l <= f[k].r)
      BY <3>2, <3>4 DEF Debug!Turn
    <3> QED
      BY <3>3, <3>4
  <2> HIDE DEF Right
  <2>7. Nat \subseteq Right
    BY <2>5, <2>6, NatInduct
  <2>8. e = f[n] /\ n \in 0 .. n
    BY <2>1, <2>3 DEF e
  <2> QED
    BY <2>1, <2>4, <2>7, <2>8 DEF Right
<1> HIDE DEF e, s
<1>4. /\ e.l \in Int /\ e.r \in Int /\ e.left \in left .. right /\ e.right = e.r /\ e.r <= right /\ left <= e.r + 1
      /\ \A i \in left .. right : stabs[i].n_value \in Int
  BY <1>3 DEF Within, States, Searching, Numbered
\* All that is not above addr is up to r, and all that is up to r is not.
<1>5. /\ \A i \in below : i \in left .. e.r /\ i \in left .. right /\ OfType(stabs, type, i)
      /\ \A i \in left .. e.r : OfType(stabs, type, i) => i \in below
      /\ \A i \in above : i \in e.r + 1 .. right
  <2>1. ASSUME NEW i \in ofType PROVE i \in left .. right /\ OfType(stabs, type, i) /\ stabs[i].n_value \in Int
                                      /\ (i \in left .. e.l - 1 \/ i \in e.r + 1 .. right) /\ (i \in left .. e.r \/ i \in e.r + 1 .. right)
    BY <1>3, <1>4 DEF OfType
  <2>2. ASSUME NEW i \in below PROVE i \in left .. e.r /\ i \in left .. right /\ OfType(stabs, type, i)
    <3>1. i \notin e.r + 1 .. right
      <4>1. stabs[i].n_value <= addr /\ stabs[i].n_value \in Int /\ OfType(stabs, type, i)
        BY <2>1
      <4>2. ~(stabs[i].n_value > addr)
        BY <4>1
      <4> HIDE DEF below
      <4> QED
        BY <1>3, <4>1, <4>2 DEF Searching
    <3> QED
      BY <2>1, <3>1
  <2>3. ASSUME NEW i \in left .. e.r, OfType(stabs, type, i) PROVE i \in below
    <3>1. i \in left .. right /\ i \in left .. e.l - 1
      BY <1>3, <1>4
    <3>2. stabs[i].n_value <= addr
      BY <1>3, <2>3, <3>1 DEF Searching
    <3> QED
      BY <2>3, <3>1, <3>2 DEF OfType
  <2>4. ASSUME NEW i \in above PROVE i \in e.r + 1 .. right
    <3>1. i \notin below /\ i \in left .. right /\ OfType(stabs, type, i) /\ (i \in left .. e.r \/ i \in e.r + 1 .. right)
      BY <2>1
    <3> HIDE DEF below, above
    <3> QED
      BY <2>3, <3>1
  <2> HIDE DEF below, above, ofType
  <2> QED
    BY <2>2, <2>3, <2>4
<1>6. PICK b : b \in below
  OBVIOUS
<1>7. e.any
  <2> SUFFICES ASSUME ~e.any PROVE FALSE
    OBVIOUS
  <2>1. e.r = right /\ \A i \in left .. e.l - 1 : ~OfType(stabs, type, i)
    BY <1>3 DEF Searching
  <2> HIDE DEF below, above, ofType
  <2>2. b \in left .. e.l - 1 /\ OfType(stabs, type, b)
    BY <1>3, <1>4, <1>5, <1>6
  <2> QED
    BY <2>1, <2>2
<1>8. /\ e.left \in left .. e.r
      /\ e.left = left \/ e.left \in below
  <2>1. CASE e.left = left
    <3> HIDE DEF below, above, ofType
    <3> QED
      BY <1>4, <1>5, <1>6, <2>1
  <2>2. CASE e.left # left
    <3>1. OfType(stabs, type, e.left) /\ stabs[e.left].n_value <= addr
      BY <1>3, <2>2 DEF Searching
    <3>2. e.left \in below
      BY <1>4, <3>1 DEF OfType
    <3> HIDE DEF below, above, ofType
    <3> QED
      BY <1>5, <3>2
  <2> QED
    BY <2>1, <2>2
<1>9. /\ last \in e.left .. e.r /\ (last >= e.left + 1 => OfType(stabs, type, last))
      /\ \A i \in e.left + 1 .. e.r : OfType(stabs, type, i) => i <= last
  <2>1. e.left + 1 \in Int /\ e.right \in Int /\ e.left + 1 <= e.right + 1 /\ (e.left + 1) - 1 = e.left
    BY <1>4, <1>8
  <2>2. /\ last \in (e.left + 1) - 1 .. e.right /\ (last >= e.left + 1 => OfType(stabs, type, last))
        /\ \A i \in e.left + 1 .. e.right : OfType(stabs, type, i) => i <= last
    <3> HIDE DEF last
    <3> QED
      BY <2>1, FindTypeFinds DEF last
  <2> HIDE DEF last
  <2> QED
    BY <1>4, <2>1, <2>2
<1> HIDE DEF last
<1>10. last \in below /\ \A i \in below : i <= last
  <2> HIDE DEF below, above, ofType
  <2>1. \A i \in below : i <= last
    <3> TAKE i \in below
    <3>1. i \in left .. e.r /\ OfType(stabs, type, i)
      BY <1>5
    <3>2. CASE i >= e.left + 1
      BY <1>4, <1>9, <3>1, <3>2
    <3>3. CASE ~(i >= e.left + 1)
      BY <1>4, <1>8, <1>9, <3>1, <3>3
    <3> QED
      BY <3>2, <3>3
  <2>2. CASE last >= e.left + 1
    <3>1. last \in left .. e.r /\ OfType(stabs, type, last)
      BY <1>4, <1>8, <1>9, <2>2
    <3>2. \A i \in left .. e.r : OfType(stabs, type, i) => i \in below
      BY <1>5
    <3> QED
      BY <2>1, <3>1, <3>2
  <2>3. CASE ~(last >= e.left + 1)
    <3>1. last = e.left
      BY <1>4, <1>9, <2>3
    <3>2. CASE e.left = left
      <4>1. b \in left .. e.r /\ b <= left
        BY <1>5, <1>6, <2>1, <3>1, <3>2
      <4>2. b = left
        BY <1>4, <4>1
      <4>3. last = b
        BY <3>1, <3>2, <4>2, Zenon
      <4> QED
        BY <1>6, <2>1, <4>3, Zenon
    <3>3. CASE e.left # left
      <4>1. e.left \in below
        BY <1>8, <3>3, Zenon
      <4> QED
        BY <2>1, <3>1, <4>1, Zenon
    <3> QED
      BY <3>2, <3>3
  <2> QED
    BY <2>1, <2>2, <2>3
<1>11. Max(below) = last
  <2>1. below \subseteq Int
    OBVIOUS
  <2> HIDE DEF below, above, ofType
  <2>2. \A i \in below : last >= i
    BY <1>10, <2>1
  <2>3. \A x \in below : (\A i \in below : x >= i) => x = last
    BY <1>10, <2>1, <2>2
  <2> QED
    BY <1>10, <2>2, <2>3 DEF Max
<1>12. (IF above = {} THEN right ELSE Min(above) - 1) = e.r
  <2>1. e.r = right \/ (e.r + 1 \in left .. right /\ OfType(stabs, type, e.r + 1) /\ stabs[e.r + 1].n_value > addr)
    <3>1. e.r = right \/ (e.r + 1 \in left .. right /\ OfType(stabs, type, e.r + 1))
      BY <1>3 DEF Searching
    <3>2. ASSUME e.r + 1 \in left .. right, OfType(stabs, type, e.r + 1) PROVE stabs[e.r + 1].n_value > addr
      <4>1. e.r + 1 \in e.r + 1 .. right
        BY <1>4, <3>2
      <4> QED
        BY <1>3, <3>2, <4>1 DEF Searching
    <3> QED
      BY <3>1, <3>2
  <2>2. CASE above = {}
    <3>1. e.r + 1 \in left .. right /\ OfType(stabs, type, e.r + 1) /\ stabs[e.r + 1].n_value > addr => e.r + 1 \in above
      BY DEF OfType
    <3> HIDE DEF below, above, ofType
    <3> QED
      BY <2>1, <2>2, <3>1
  <2>3. CASE above # {}
    <3>1. above \subseteq Int
      OBVIOUS
    <3>2. e.r # right
      <4> HIDE DEF below, above, ofType
      <4> QED
        BY <1>4, <1>5, <2>3
    <3>3. e.r + 1 \in above
      BY <2>1, <3>2 DEF OfType
    <3> HIDE DEF below, above, ofType
    <3>4. \A i \in above : e.r + 1 <= i
      BY <1>4, <1>5, <3>1
    <3>5. ASSUME NEW x \in above, \A i \in above : x <= i PROVE x = e.r + 1
      <4>1. x <= e.r + 1
        BY <3>3, <3>5
      <4>2. e.r + 1 <= x
        BY <3>4
      <4>3. x \in Int /\ e.r + 1 \in Int
        BY <3>1, <3>3
      <4> QED
        BY <4>1, <4>2, <4>3
    <3>6. Min(above) = e.r + 1
      BY <3>3, <3>4, <3>5, Zenon DEF Min
    <3> QED
      BY <1>4, <2>3, <3>6
  <2> QED
    BY <2>2, <2>3
<1>13. Debug!stab_binsearch(stabs, left, right, type, addr) = <<last, e.right>>
  BY <1>7, SMTT(30) DEF Debug!stab_binsearch, e, s, last
<1> HIDE DEF below, above, ofType
<1> QED
  BY <1>4, <1>11, <1>12, <1>13


-----------------------------------------------------------------------------
(* user_mem_check() and boot_map_region().                                 *)

\* How often p goes into a, and that nothing else is this often.
LEMMA DivBounds ==
    ASSUME NEW p \in Nat \ {0}, NEW a \in Nat
    PROVE  a \div p \in Nat /\ p * (a \div p) <= a /\ a < p * (a \div p) + p
OBVIOUS

LEMMA TimesGrows ==
    ASSUME NEW p \in Nat \ {0}, NEW x \in Int, NEW y \in Int, x < y
    PROVE  p * x + p <= p * y
OBVIOUS

LEMMA DivIs ==
    ASSUME NEW p \in Nat \ {0}, NEW a \in Nat, NEW q \in Nat, p * q <= a, a < p * q + p
    PROVE  a \div p = q
<1>1. a \div p \in Nat /\ p * (a \div p) <= a /\ a < p * (a \div p) + p
  BY DivBounds
<1> DEFINE d == a \div p
<1>2. d \in Nat /\ p * d \in Int /\ p * q \in Int /\ p * d <= a /\ a < p * d + p
  BY <1>1
<1> HIDE DEF d
<1>3. ~(d < q)
  <2>1. d < q => p * d + p <= p * q
    BY <1>2, TimesGrows
  <2> QED
    BY <1>2, <2>1
<1>4. ~(q < d)
  <2>1. q < d => p * q + p <= p * d
    BY <1>2, TimesGrows
  <2> QED
    BY <1>2, <2>1
<1>5. d = q
  BY <1>2, <1>3, <1>4
<1> QED
  BY <1>5 DEF d

LEMMA DivGrows ==
    ASSUME NEW p \in Nat \ {0}, NEW a \in Nat, NEW b \in Nat, a <= b
    PROVE  a \div p <= b \div p
<1> DEFINE d == a \div p
           e == b \div p
<1>1. d \in Nat /\ e \in Nat /\ p * d \in Int /\ p * e \in Int /\ p * d <= a /\ b < p * e + p
  BY DivBounds
<1> HIDE DEF d, e
<1>2. e < d => p * e + p <= p * d
  BY <1>1, TimesGrows
<1>3. d <= e
  BY <1>1, <1>2
<1> QED
  BY <1>3 DEF d, e

\* The first byte of page p of a range that starts at va.
FirstByte(va, p) == IF PGSIZE * p > va THEN PGSIZE * p ELSE va

\* A range is the bytes of the pages that it touches, cut at its start.
LEMMA PagesTouched ==
    ASSUME PGSIZE \in Nat \ {0}, NEW va \in Nat, NEW len \in Nat \ {0}, NEW q \in Nat,
           va + len <= PGSIZE * q, PGSIZE * q < va + len + PGSIZE
    PROVE  /\ \A a \in va .. va + len - 1 : /\ Start!PGNUM(a) \in Start!PGNUM(va) .. q - 1
                                            /\ PGSIZE * Start!PGNUM(a) <= a
           /\ \A p \in Start!PGNUM(va) .. q - 1 :
                 FirstByte(va, p) \in va .. va + len - 1 /\ Start!PGNUM(FirstByte(va, p)) = p
<1>1. \A a \in Nat : a \div PGSIZE \in Nat /\ PGSIZE * (a \div PGSIZE) <= a /\ a < PGSIZE * (a \div PGSIZE) + PGSIZE
  BY DivBounds
<1>2. PGSIZE * q \in Int /\ PGSIZE \in Int
  OBVIOUS
<1>3. ASSUME NEW a \in va .. va + len - 1
      PROVE  /\ Start!PGNUM(a) \in Start!PGNUM(va) .. q - 1
             /\ PGSIZE * Start!PGNUM(a) <= a
  <2> DEFINE d == a \div PGSIZE
  <2>1. a \in Nat /\ va <= a /\ d \in Nat /\ PGSIZE * d \in Int /\ PGSIZE * d <= a
    BY <1>1
  <2>2. va \div PGSIZE <= d /\ va \div PGSIZE \in Nat
    BY <1>1, <2>1, DivGrows
  <2> HIDE DEF d
  <2>3. d < q
    <3>1. q < d => PGSIZE * q + PGSIZE <= PGSIZE * d
      BY <2>1, TimesGrows
    <3>2. q = d => PGSIZE * q = PGSIZE * d
      OBVIOUS
    <3> QED
      BY <1>2, <2>1, <3>1, <3>2
  <2>4. Start!PGNUM(a) = d /\ Start!PGNUM(va) = va \div PGSIZE
    BY DEF Start!PGNUM, d
  <2> QED
    BY <2>1, <2>2, <2>3, <2>4
<1>4. ASSUME NEW p \in Start!PGNUM(va) .. q - 1, NEW a, a = FirstByte(va, p)
      PROVE  a \in va .. va + len - 1 /\ Start!PGNUM(a) = p
  <2> DEFINE d == va \div PGSIZE
  <2>1. d \in Nat /\ PGSIZE * d \in Int /\ PGSIZE * d <= va /\ va < PGSIZE * d + PGSIZE
    BY <1>1
  <2>2. p \in d .. q - 1
    BY DEF Start!PGNUM
  <2> HIDE DEF d
  <2>3. p \in Nat /\ d <= p /\ p < q /\ PGSIZE * p \in Int
    BY <2>1, <2>2
  <2>4. PGSIZE * p + PGSIZE <= PGSIZE * q
    BY <2>3, TimesGrows
  <2>5. PGSIZE * d <= PGSIZE * p
    <3>1. d < p => PGSIZE * d + PGSIZE <= PGSIZE * p
      BY <2>1, <2>3, TimesGrows
    <3> QED
      BY <1>2, <2>1, <2>3, <3>1
  <2>6. CASE PGSIZE * p > va
    <3>1. a = PGSIZE * p /\ a \in Nat
      BY <1>4, <2>3, <2>6 DEF FirstByte
    <3>2. a \div PGSIZE = p
      BY <1>2, <2>3, <3>1, DivIs
    <3> QED
      BY <1>2, <2>3, <2>4, <2>6, <3>1, <3>2 DEF Start!PGNUM
  <2>7. CASE ~(PGSIZE * p > va)
    <3>1. a = va
      BY <1>4, <2>7 DEF FirstByte
    <3>2. p = d
      <4>1. d < p => PGSIZE * d + PGSIZE <= PGSIZE * p
        BY <2>1, <2>3, TimesGrows
      <4> QED
        BY <1>2, <2>1, <2>3, <2>7, <4>1
    <3> QED
      BY <1>2, <3>1, <3>2 DEF Start!PGNUM, d
  <2> QED
    BY <2>6, <2>7
<1> QED
  BY <1>3, <1>4

\* What is not permitted in a range, and what user_mem_check() reports of it.
NotPermitted(ptes, va, len, perm) ==
    {a \in va .. va + len - 1 : ~ (Start!PGNUM(a) \in DOMAIN ptes /\ perm \subseteq ptes[Start!PGNUM(a)])}

ReportedIs(ptes, va, len, perm) ==
    len > 0 /\ va + len <= Start!Width - PGSIZE =>
        Start!user_mem_check(ptes, va, len, perm) =
            CASE va + len > UTOP -> va
              [] va + len <= UTOP /\ NotPermitted(ptes, va, len, perm) # {} -> Start!Min(NotPermitted(ptes, va, len, perm))
              [] OTHER -> Start!Fine

\* The result of user_mem_check(), page by page, is that of the bytes: va for
\* a range that goes over UTOP, else the first byte that is not permitted.
LEMMA RangeReported ==
    ASSUME PGSIZE \in Nat \ {0}, PAGES \in Nat \ {0}, NEW u \in Nat, UTOP = PGSIZE * u,
           NEW ptes, NEW perm, NEW va \in Nat, NEW len \in Nat
    PROVE  ReportedIs(ptes, va, len, perm)
<1> DEFINE denied == NotPermitted(ptes, va, len, perm)
           hi == Start!ROUNDUP((va + len) % Start!Width)
           bad == {p \in Start!PGNUM(va) .. Start!PGNUM(hi) - 1 : ~ (p \in DOMAIN ptes /\ perm \subseteq ptes[p])}
           q == (va + len + PGSIZE - 1) \div PGSIZE
<1> SUFFICES ASSUME len > 0, va + len <= Start!Width - PGSIZE
             PROVE  Start!user_mem_check(ptes, va, len, perm) = CASE va + len > UTOP -> va
                                                                  [] va + len <= UTOP /\ denied # {} -> Start!Min(denied)
                                                                  [] OTHER -> Start!Fine
  BY DEF ReportedIs
<1>1. Start!Width \in Nat /\ Start!Width > 0 /\ PGSIZE \in Int /\ va + len \in Nat /\ UTOP \in Nat
  BY DEF Start!Width
<1>2. q \in Nat /\ PGSIZE * q \in Int /\ va + len <= PGSIZE * q /\ PGSIZE * q < va + len + PGSIZE
  <2>1. va + len + PGSIZE - 1 \in Nat
    OBVIOUS
  <2>2. q \in Nat /\ PGSIZE * q <= va + len + PGSIZE - 1 /\ va + len + PGSIZE - 1 < PGSIZE * q + PGSIZE
    BY <2>1, DivBounds
  <2> HIDE DEF q
  <2>3. PGSIZE * q \in Int
    BY <2>2
  <2> QED
    BY <1>1, <2>2, <2>3
<1>3. hi = PGSIZE * q /\ Start!PGNUM(hi) = q
  <2>1. (va + len) % Start!Width = va + len /\ (va + len + PGSIZE - 1) % Start!Width = va + len + PGSIZE - 1
    <3> DEFINE w == Start!Width
    <3>1. w \in Nat /\ w > 0 /\ va + len < w /\ va + len + PGSIZE - 1 < w /\ va + len \in Nat /\ va + len + PGSIZE - 1 \in Nat
      BY <1>1
    <3> HIDE DEF w
    <3>2. \A x \in Nat : x < w => x % w = x
      BY <3>1
    <3>3. (va + len) % w = va + len /\ (va + len + PGSIZE - 1) % w = va + len + PGSIZE - 1
      BY <3>1, <3>2
    <3> QED
      BY <3>3 DEF w
  <2>2. hi = q * PGSIZE
    BY <2>1 DEF Start!ROUNDUP, Start!ROUNDDOWN, Start!PGNUM
  <2> HIDE DEF q, hi
  <2>3. hi = PGSIZE * q
    BY <1>1, <1>2, <2>2
  <2>4. hi \in Nat
    BY <1>1, <1>2, <2>3
  <2>5. hi \div PGSIZE = q
    BY <1>1, <1>2, <2>3, <2>4, DivIs
  <2> QED
    BY <2>3, <2>5 DEF Start!PGNUM
<1>4. bad = {p \in Start!PGNUM(va) .. q - 1 : ~ (p \in DOMAIN ptes /\ perm \subseteq ptes[p])}
  BY <1>3
<1>5. hi > UTOP <=> va + len > UTOP
  <2> HIDE DEF q, hi
  <2>1. u < q => PGSIZE * u + PGSIZE <= PGSIZE * q
    BY <1>2, TimesGrows
  <2>2. q < u => PGSIZE * q + PGSIZE <= PGSIZE * u
    BY <1>2, TimesGrows
  <2>3. q = u => PGSIZE * q = PGSIZE * u
    OBVIOUS
  <2>4. PGSIZE * u \in Int
    OBVIOUS
  <2> QED
    BY <1>1, <1>2, <1>3, <2>1, <2>2, <2>3, <2>4
<1>6. /\ \A a \in va .. va + len - 1 : Start!PGNUM(a) \in Start!PGNUM(va) .. q - 1 /\ PGSIZE * Start!PGNUM(a) <= a
      /\ \A p \in Start!PGNUM(va) .. q - 1 :
            FirstByte(va, p) \in va .. va + len - 1 /\ Start!PGNUM(FirstByte(va, p)) = p
  <2> HIDE DEF q, hi
  <2>1. len \in Nat \ {0}
    OBVIOUS
  <2> QED
    BY <1>2, <2>1, PagesTouched
<1>7. /\ \A a \in denied : a \in va .. va + len - 1 /\ Start!PGNUM(a) \in bad /\ PGSIZE * Start!PGNUM(a) <= a
      /\ \A p \in bad : FirstByte(va, p) \in denied
  <2> HIDE DEF q, hi, bad
  <2> QED
    BY <1>4, <1>6 DEF NotPermitted
<1>8. Start!PGNUM(va) \in Nat
  BY <1>1, DivBounds DEF Start!PGNUM
<1>9. bad \subseteq Nat
  <2> HIDE DEF q, hi, bad
  <2> QED
    BY <1>2, <1>4, <1>8
<1>10. CASE hi > UTOP
  <2>1. ~(hi <= UTOP)
    <3> HIDE DEF q, hi
    <3> QED
      BY <1>1, <1>2, <1>3, <1>10
  <2>2. Start!user_mem_check(ptes, va, len, perm) = va
    BY <1>10, <2>1 DEF Start!user_mem_check
  <2> HIDE DEF q, hi, bad, denied
  <2>3. va + len > UTOP /\ ~(va + len <= UTOP)
    BY <1>1, <1>5, <1>10
  <2> QED
    BY <2>2, <2>3
<1>11. CASE ~(hi > UTOP) /\ bad = {}
  <2>1. hi \in Int /\ hi <= UTOP
    <3> HIDE DEF hi, q
    <3> QED
      BY <1>1, <1>2, <1>3, <1>11
  <2>2. denied = {}
    <3> HIDE DEF hi, q, bad, denied
    <3> QED
      BY <1>7, <1>11
  <2>3. Start!user_mem_check(ptes, va, len, perm) = Start!Fine
    BY <1>11, <2>1 DEF Start!user_mem_check
  <2> HIDE DEF hi, q, bad, denied
  <2> QED
    BY <1>1, <1>5, <1>11, <2>2, <2>3
<1>12. CASE ~(hi > UTOP) /\ bad # {}
  <2>1. hi \in Int /\ hi <= UTOP /\ va + len <= UTOP
    <3> HIDE DEF hi, q
    <3> QED
      BY <1>1, <1>2, <1>3, <1>5, <1>12
  <2> DEFINE p == Start!Min(bad)
             a == FirstByte(va, p)
  <2>2. Start!user_mem_check(ptes, va, len, perm) = a
    BY <1>12, <2>1 DEF Start!user_mem_check, FirstByte
  <2> HIDE DEF hi, q, bad, denied
  <2>3. p \in bad /\ \A x \in bad : p <= x
    <3>1. PICK x \in bad : \A y \in bad : x <= y
      BY <1>9, <1>12, LeastExists
    <3> QED
      BY <3>1 DEF Start!Min
  <2> HIDE DEF p
  <2>4. a \in denied
    BY <1>7, <2>3
  <2>5. ASSUME NEW x \in denied PROVE a <= x
    <3> DEFINE d == Start!PGNUM(x)
    <3>1. x \in Int /\ va <= x /\ d \in bad /\ d \in Nat /\ PGSIZE * d \in Int /\ PGSIZE * d <= x
      <4>1. d \in bad /\ d \in Nat
        BY <1>7, <1>9
      <4>2. PGSIZE * d <= x /\ x \in va .. va + len - 1
        BY <1>7
      <4> HIDE DEF d
      <4> QED
        BY <1>1, <4>1, <4>2
    <3> HIDE DEF d
    <3>2. p \in Nat /\ p <= d /\ PGSIZE * p \in Int
      BY <1>1, <1>9, <2>3, <3>1
    <3>3. p < d => PGSIZE * p + PGSIZE <= PGSIZE * d
      BY <3>1, <3>2, TimesGrows
    <3>4. PGSIZE * p <= PGSIZE * d
      BY <1>1, <3>1, <3>2, <3>3
    <3> QED
      BY <1>1, <3>1, <3>2, <3>4 DEF FirstByte
  <2>6. a \in Int /\ denied \subseteq Int
    BY <1>7, <2>4
  <2> HIDE DEF a
  <2>7. \A x \in denied : (\A y \in denied : x <= y) => x = a
    BY <2>4, <2>5, <2>6
  <2>8. Start!Min(denied) = a
    BY <2>4, <2>5, <2>7 DEF Start!Min
  <2> QED
    BY <1>1, <2>1, <2>2, <2>4, <2>8
<1> QED
  BY <1>10, <1>11, <1>12

\* user_mem_check() is right about every range that does not wrap of every
\* address space, with pages of any size: it accepts the range if and only if
\* all of it is below UTOP and permitted to the last byte, and of one that ends
\* at or below UTOP the address that it reports is the first that is not.  Of
\* one that goes over UTOP nothing is said of the address: it is va.
THEOREM RangesAreChecked ==
    ASSUME PGSIZE \in Nat \ {0}, PAGES \in Nat \ {0}, NEW u \in Nat, UTOP = PGSIZE * u,
           NEW ptes, NEW perm, NEW va \in Nat, NEW len \in Nat
    PROVE  Start!RangeChecked(ptes, va, len, perm)
<1> DEFINE denied == {a \in va .. va + len - 1 :
                         a >= UTOP \/ ~ (Start!PGNUM(a) \in DOMAIN ptes /\ perm \subseteq ptes[Start!PGNUM(a)])}
           reported == Start!user_mem_check(ptes, va, len, perm)
<1> SUFFICES ASSUME len > 0, va + len <= Start!Width - PGSIZE
             PROVE  /\ reported = Start!Fine <=> denied = {}
                    /\ va + len <= UTOP /\ denied # {} => reported = Start!Min(denied)
  BY DEF Start!RangeChecked
<1>1. UTOP \in Nat /\ va + len \in Nat
  OBVIOUS
<1>2. reported = CASE va + len > UTOP -> va
                   [] va + len <= UTOP /\ NotPermitted(ptes, va, len, perm) # {} -> Start!Min(NotPermitted(ptes, va, len, perm))
                   [] OTHER -> Start!Fine
  <2>1. ReportedIs(ptes, va, len, perm)
    BY RangeReported
  <2> QED
    BY <2>1 DEF ReportedIs
<1> HIDE DEF reported
<1>3. CASE va + len > UTOP
  <2>1. reported = va
    BY <1>1, <1>2, <1>3
  <2>2. denied # {}
    <3>1. va + len - 1 \in denied
      BY <1>1, <1>3
    <3> QED
      BY <3>1
  <2> HIDE DEF denied
  <2>3. reported # Start!Fine /\ ~(va + len <= UTOP)
    BY <1>1, <1>3, <2>1 DEF Start!Fine
  <2> QED
    BY <2>2, <2>3
<1>4. CASE va + len <= UTOP
  <2>1. denied = NotPermitted(ptes, va, len, perm)
    BY <1>1, <1>4 DEF NotPermitted
  <2>2. denied \subseteq Nat
    OBVIOUS
  <2> HIDE DEF denied
  <2>3. reported = IF denied # {} THEN Start!Min(denied) ELSE Start!Fine
    BY <1>1, <1>2, <1>4, <2>1
  <2>4. ASSUME denied # {} PROVE Start!Min(denied) # Start!Fine
    <3>1. PICK x \in denied : \A y \in denied : x <= y
      BY <2>2, <2>4, LeastExists
    <3>2. Start!Min(denied) \in denied
      BY <3>1 DEF Start!Min
    <3> QED
      BY <2>2, <3>2 DEF Start!Fine
  <2> QED
    BY <2>3, <2>4
<1> QED
  BY <1>1, <1>3, <1>4

\* boot_map_region() maps every region of every address space, and nothing
\* else, and the processor finds in a large page what the small ones it stands
\* for would have led to.
THEOREM RegionsAreMapped ==
    ASSUME LPGSIZE \in Nat \ {0}, NEW tables \in Nat, PAGES = LPGSIZE * tables,
           NEW va \in Nat, NEW n \in Nat, va + n <= PAGES, NEW pa \in Nat
    PROVE  Start!RegionMapped(va, n, pa)
<1> DEFINE larges == IF Start!MayBeLarge(va, n, pa) THEN n \div LPGSIZE ELSE 0
           first == va \div LPGSIZE
           dir == Start!boot_map_region(Start!EmptyDirectory, va, n, pa)
<1>1. \A a \in Nat : /\ a \div LPGSIZE \in Nat /\ LPGSIZE * (a \div LPGSIZE) \in Nat
                     /\ LPGSIZE * (a \div LPGSIZE) <= a /\ a < LPGSIZE * (a \div LPGSIZE) + LPGSIZE
                     /\ a % LPGSIZE = a - LPGSIZE * (a \div LPGSIZE)
  <2> TAKE a \in Nat
  <2>1. a \div LPGSIZE \in Nat /\ LPGSIZE * (a \div LPGSIZE) <= a /\ a < LPGSIZE * (a \div LPGSIZE) + LPGSIZE
    BY DivBounds
  <2>2. a % LPGSIZE = a - LPGSIZE * (a \div LPGSIZE)
    OBVIOUS
  <2> QED
    BY <2>1, <2>2
<1>2. PAGES \in Nat /\ LPGSIZE \in Int /\ PAGES \div LPGSIZE = tables
  <2>1. PAGES \in Nat /\ LPGSIZE * tables <= PAGES /\ PAGES < LPGSIZE * tables + LPGSIZE
    OBVIOUS
  <2> QED
    BY <2>1, DivIs
<1>3. larges \in Nat /\ first \in Nat /\ LPGSIZE * first \in Nat
  BY <1>1
<1>4. LPGSIZE * larges \in Nat /\ LPGSIZE * larges <= n
  <2>1. CASE Start!MayBeLarge(va, n, pa)
    BY <1>1, <2>1
  <2>2. CASE ~Start!MayBeLarge(va, n, pa)
    BY <2>2
  <2> QED
    BY <2>1, <2>2
<1>5. larges # 0 => va = LPGSIZE * first /\ pa = LPGSIZE * (pa \div LPGSIZE)
  <2> HIDE DEF first
  <2>1. Start!MayBeLarge(va, n, pa) => va % LPGSIZE = 0 /\ pa % LPGSIZE = 0
    BY DEF Start!MayBeLarge
  <2> QED
    BY <1>1, <2>1 DEF first
<1> SUFFICES ASSUME NEW v \in 0 .. PAGES - 1
             PROVE  Start!Translated(dir, v) = IF v \in va .. va + n - 1 THEN pa + v - va ELSE Start!NoPage
  BY DEF Start!RegionMapped
<1> DEFINE d == v \div LPGSIZE
<1>6. /\ v \in Nat /\ d \in Nat /\ LPGSIZE * d \in Nat /\ LPGSIZE * d <= v /\ v < LPGSIZE * d + LPGSIZE
      /\ v % LPGSIZE = v - LPGSIZE * d
  <2>1. v \in Nat
    BY <1>2
  <2> QED
    BY <1>1, <2>1
<1>7. d \in 0 .. tables - 1
  <2> HIDE DEF d
  <2>1. tables < d => LPGSIZE * tables + LPGSIZE <= LPGSIZE * d
    BY <1>6, TimesGrows
  <2>2. tables = d => LPGSIZE * tables = LPGSIZE * d
    OBVIOUS
  <2> QED
    BY <1>2, <1>6, <2>1, <2>2
<1>8. dir = [large |-> [e \in 0 .. tables - 1 |->
                           IF e \in first .. first + larges - 1 THEN pa + (e - first) * LPGSIZE ELSE Start!NoPage],
             small |-> [w \in 0 .. PAGES - 1 |->
                           IF w \in va + larges * LPGSIZE .. va + n - 1 THEN pa + w - va ELSE Start!NoPage]]
  BY <1>2 DEF Start!boot_map_region, Start!EmptyDirectory
<1>9. /\ dir.large[d] = IF d \in first .. first + larges - 1 THEN pa + (d - first) * LPGSIZE ELSE Start!NoPage
      /\ dir.small[v] = IF v \in va + larges * LPGSIZE .. va + n - 1 THEN pa + v - va ELSE Start!NoPage
  <2> HIDE DEF dir, d, larges, first
  <2> QED
    BY <1>7, <1>8
<1>10. Start!Translated(dir, v) = IF dir.large[d] = Start!NoPage THEN dir.small[v]
                                  ELSE dir.large[d] - (dir.large[d] % LPGSIZE) + (v % LPGSIZE)
  BY DEF Start!Translated
<1> HIDE DEF dir, d, larges, first
<1>11. Start!NoPage = -1
  BY DEF Start!NoPage
<1>12. LPGSIZE * larges = larges * LPGSIZE
  BY <1>3
\* Among the large pages.
<1>13. CASE d \in first .. first + larges - 1
  <2> DEFINE k == pa \div LPGSIZE
             nth == d - first
  <2>1. larges # 0 /\ nth \in Nat /\ nth < larges /\ k \in Nat /\ LPGSIZE * nth \in Nat
    <3>1. nth \in Nat /\ nth < larges
      BY <1>3, <1>13
    <3>2. k \in Nat
      BY <1>1
    <3> HIDE DEF k, nth
    <3>3. larges # 0
      BY <1>3, <3>1
    <3>4. LPGSIZE * nth \in Nat
      BY <3>1
    <3> QED
      BY <3>1, <3>2, <3>3, <3>4
  <2>2. va = LPGSIZE * first /\ pa = LPGSIZE * k
    BY <1>5, <2>1
  <2>3. LPGSIZE * d = va + LPGSIZE * nth
    BY <1>3, <1>6, <2>2
  <2>4. LPGSIZE * nth + LPGSIZE <= LPGSIZE * larges
    <3> HIDE DEF nth
    <3> QED
      BY <1>3, <2>1, TimesGrows
  <2>5. dir.large[d] = pa + LPGSIZE * nth
    <3>1. (d - first) * LPGSIZE = LPGSIZE * nth
      BY <2>1
    <3> QED
      BY <1>9, <1>13, <3>1
  <2>6. (pa + LPGSIZE * nth) % LPGSIZE = 0
    <3>1. k + nth \in Nat /\ LPGSIZE * (k + nth) = pa + LPGSIZE * nth
      BY <2>1, <2>2
    <3>2. pa + LPGSIZE * nth \in Nat
      BY <2>1
    <3> HIDE DEF k, nth
    <3>3. (pa + LPGSIZE * nth) \div LPGSIZE = k + nth
      BY <1>2, <3>1, <3>2, DivIs
    <3> DEFINE a == pa + LPGSIZE * nth
    <3>4. a \in Nat /\ a \div LPGSIZE = k + nth /\ a = LPGSIZE * (k + nth)
      BY <3>1, <3>2, <3>3
    <3> HIDE DEF a
    <3>5. a % LPGSIZE = a - LPGSIZE * (a \div LPGSIZE)
      BY <1>1, <3>4
    <3>6. a % LPGSIZE = a - a
      BY <3>4, <3>5
    <3>7. a % LPGSIZE = 0
      BY <3>4, <3>6
    <3> QED
      BY <3>7 DEF a
  <2> HIDE DEF k, nth
  <2>7. Start!Translated(dir, v) = pa + LPGSIZE * nth + (v % LPGSIZE)
    BY <1>10, <1>11, <2>1, <2>5, <2>6
  <2>8. v \in va .. va + n - 1
    BY <1>2, <1>4, <1>6, <2>1, <2>3, <2>4
  <2> QED
    BY <1>2, <1>6, <2>1, <2>3, <2>7, <2>8
\* Among the small ones, or nowhere.
<1>14. CASE d \notin first .. first + larges - 1
  <2>1. Start!Translated(dir, v) = dir.small[v]
    BY <1>9, <1>10, <1>14
  <2>2. ~(v \in va .. va + larges * LPGSIZE - 1)
    <3> SUFFICES ASSUME v \in va .. va + LPGSIZE * larges - 1 PROVE FALSE
      BY <1>12
    <3>1. larges # 0 /\ va = LPGSIZE * first
      <4>1. larges = 0 => LPGSIZE * larges = 0
        BY <1>2
      <4>2. larges # 0
        BY <4>1
      <4> QED
        BY <1>5, <4>2
    <3>2. d < first => LPGSIZE * d + LPGSIZE <= LPGSIZE * first
      BY <1>3, <1>6, TimesGrows
    <3>3. first + larges < d => LPGSIZE * (first + larges) + LPGSIZE <= LPGSIZE * d
      BY <1>3, <1>6, TimesGrows
    <3>4. LPGSIZE * (first + larges) = va + LPGSIZE * larges
      BY <1>3, <3>1
    <3>5. first + larges = d => LPGSIZE * (first + larges) = LPGSIZE * d
      OBVIOUS
    <3> QED
      BY <1>2, <1>3, <1>4, <1>6, <1>14, <3>1, <3>2, <3>3, <3>4, <3>5
  <2>3. larges * LPGSIZE \in Nat /\ larges * LPGSIZE <= n
    BY <1>4, <1>12
  <2>4. v \in va + larges * LPGSIZE .. va + n - 1 <=> v \in va .. va + n - 1
    BY <1>6, <2>2, <2>3
  <2> QED
    BY <1>9, <2>1, <2>4
<1> QED
  BY <1>13, <1>14

-----------------------------------------------------------------------------
(* strlcpy().                                                              *)

\* strlcpy() leaves a string that ends in the room it is given, the longest
\* start of s that fits, and nothing else of the buffer changed.
THEOREM StrlcpyFits ==
    ASSUME NEW Alphabet, NEW dst \in Seq(Alphabet \cup {Lib!NUL}), NEW s \in Seq(Alphabet), NEW room \in Nat, room <= Len(dst)
    PROVE  Lib!StrlcpyOf(dst, s, room)
<1> DEFINE n == IF Len(s) < room THEN Len(s) ELSE room - 1
           to == [i \in DOMAIN dst |-> IF i <= n THEN s[i] ELSE IF i = n + 1 THEN Lib!NUL ELSE dst[i]]
<1>1. CASE room = 0
  BY <1>1 DEF Lib!StrlcpyOf, Lib!Strlcpy
<1>2. CASE room # 0
  <2>1. n \in 0 .. room - 1 /\ n <= Len(s) /\ (n < Len(s) => n = room - 1)
    BY <1>2
  <2>2. Lib!Strlcpy(dst, s, room) = <<to, n>>
    BY <1>2 DEF Lib!Strlcpy
  <2> HIDE DEF n
  <2>3. DOMAIN dst = 1 .. Len(dst) /\ Len(s) \in Nat /\ Len(dst) \in Nat
    OBVIOUS
  <2>4. to \in Seq(Alphabet \cup {Lib!NUL}) /\ Len(to) = Len(dst)
    <3>1. to \in [1 .. Len(dst) -> Alphabet \cup {Lib!NUL}]
      <4>1. ASSUME NEW i \in 1 .. Len(dst) PROVE to[i] \in Alphabet \cup {Lib!NUL}
        BY <2>1, <2>3
      <4> QED
        BY <2>3, <4>1
    <3> HIDE DEF to
    <3> QED
      BY <2>3, <3>1
  <2>5. \A i \in 1 .. n : to[i] = s[i]
    BY <2>1, <2>3
  <2>6. to[n + 1] = Lib!NUL /\ n + 1 \in 1 .. room
    BY <2>1, <2>3
  <2>7. \A i \in DOMAIN dst : i > room => to[i] = dst[i]
    BY <2>1, <2>3
  <2> HIDE DEF to
  <2>8. SubSeq(to, 1, n) = SubSeq(s, 1, n) /\ Len(SubSeq(to, 1, n)) = n /\ SubSeq(SubSeq(to, 1, n), 1, n) = SubSeq(to, 1, n)
    BY <2>1, <2>3, <2>4, <2>5
  <2>9. Lib!IsPrefix(SubSeq(to, 1, n), s)
    BY <2>1, <2>8 DEF Lib!IsPrefix
  <2>10. <<to, n>>[1] = to /\ <<to, n>>[2] = n
    OBVIOUS
  <2> QED
    BY <1>2, <2>1, <2>2, <2>6, <2>7, <2>9, <2>10 DEF Lib!StrlcpyOf
<1> QED
  BY <1>1, <1>2

-----------------------------------------------------------------------------
(* Recursion over numbers.                                                 *)

\* f begins with s, and G makes each of its values from the one before.
Follows(f, S, n, s, G) == f \in [0 .. n -> S] /\ f[0] = s /\ \A k \in 1 .. n : f[k] = G[<<k, f[k - 1]>>]

LEMMA Recursion ==
    ASSUME NEW S, NEW n \in Nat, NEW s \in S, NEW G, G \in [(1 .. n) \X S -> S]
    PROVE  \E f : Follows(f, S, n, s, G)
<1> DEFINE Done == {i \in Nat : i \in 0 .. n => \E f \in [0 .. i -> S] : f[0] = s /\ \A k \in 1 .. i : f[k] = G[<<k, f[k - 1]>>]}
<1>1. 0 \in Done
  <2> DEFINE f == [k \in 0 .. 0 |-> s]
  <2>1. f \in [0 .. 0 -> S] /\ f[0] = s /\ \A k \in 1 .. 0 : f[k] = G[<<k, f[k - 1]>>]
    OBVIOUS
  <2> HIDE DEF f
  <2> QED
    BY <2>1
<1>2. ASSUME NEW i \in Nat, i \in Done PROVE i + 1 \in Done
  <2> SUFFICES ASSUME i + 1 \in 0 .. n
               PROVE  \E f \in [0 .. i + 1 -> S] : f[0] = s /\ \A k \in 1 .. i + 1 : f[k] = G[<<k, f[k - 1]>>]
    OBVIOUS
  <2>1. PICK g \in [0 .. i -> S] : g[0] = s /\ \A k \in 1 .. i : g[k] = G[<<k, g[k - 1]>>]
    <3>1. i \in 0 .. n
      OBVIOUS
    <3> QED
      BY <1>2, <3>1
  <2> DEFINE last == G[<<i + 1, g[i]>>]
             f == [k \in 0 .. i + 1 |-> IF k = i + 1 THEN last ELSE g[k]]
  <2>2. last \in S
    <3>1. <<i + 1, g[i]>> \in (1 .. n) \X S
      BY <2>1
    <3> QED
      BY <3>1
  <2> HIDE DEF last
  <2>3. /\ f \in [0 .. i + 1 -> S] /\ f[i + 1] = last
        /\ \A k \in 0 .. i : f[k] = g[k]
    BY <2>1, <2>2
  <2> HIDE DEF f
  <2>4. f[0] = s
    BY <2>1, <2>3
  <2>5. ASSUME NEW k \in 1 .. i + 1 PROVE f[k] = G[<<k, f[k - 1]>>]
    <3>1. CASE k = i + 1
      <4>1. k - 1 = i /\ i \in 0 .. i
        BY <3>1
      <4> QED
        BY <2>3, <3>1, <4>1 DEF last
    <3>2. CASE k # i + 1
      <4>1. k \in 1 .. i /\ k \in 0 .. i /\ k - 1 \in 0 .. i
        BY <3>2
      <4> QED
        BY <2>1, <2>3, <4>1
    <3> QED
      BY <3>1, <3>2
  <2> QED
    BY <2>3, <2>4, <2>5
<1> HIDE DEF Done
<1>3. Nat \subseteq Done
  BY <1>1, <1>2, NatInduct
<1>4. n \in Done /\ n \in 0 .. n
  BY <1>3
<1> QED
  BY <1>4 DEF Done, Follows

LEMMA RecursionStays ==
    ASSUME NEW S, NEW n \in Nat, NEW f, f = [k \in 0 .. n |-> f[k]], f[0] \in S,
           \A k \in 1 .. n : f[k - 1] \in S => f[k] \in S
    PROVE  f \in [0 .. n -> S]
<1> DEFINE Fine == {k \in Nat : k \in 0 .. n => f[k] \in S}
<1>1. 0 \in Fine
  OBVIOUS
<1>2. ASSUME NEW k \in Nat, k \in Fine PROVE k + 1 \in Fine
  <2> SUFFICES ASSUME k + 1 \in 0 .. n PROVE f[k + 1] \in S
    OBVIOUS
  <2>1. k \in 0 .. n /\ k + 1 \in 1 .. n /\ (k + 1) - 1 = k
    OBVIOUS
  <2>2. f[k] \in S
    BY <1>2, <2>1
  <2>3. f[(k + 1) - 1] \in S => f[k + 1] \in S
    BY <2>1, Zenon
  <2> QED
    BY <2>1, <2>2, <2>3
<1> HIDE DEF Fine
<1>3. Nat \subseteq Fine
  BY <1>1, <1>2, NatInduct
<1>4. \A k \in 0 .. n : f[k] \in S
  <2>1. 0 .. n \subseteq Nat
    OBVIOUS
  <2> QED
    BY <1>3, <2>1 DEF Fine
<1> QED
  BY <1>4

-----------------------------------------------------------------------------
(* mp_init().                                                              *)

Entries == {"boot", "cpu", "other", "unknown"}
Tables == [ncpu : Nat, bootcpu : Nat, ismp : BOOLEAN]

\* The CPUs among the first k entries.
CpusTo(entries, k) == {j \in DOMAIN entries : entries[j] \in {"boot", "cpu"} /\ j <= k}
CountTo(entries, k) == Cardinality(CpusTo(entries, k))

LEMMA CountGrows ==
    ASSUME NEW entries \in Seq(Entries)
    PROVE  /\ CountTo(entries, 0) = 0
           /\ \A k \in 0 .. Len(entries) : CountTo(entries, k) \in Nat
           /\ \A k \in 1 .. Len(entries) :
                 CountTo(entries, k) = IF entries[k] \in {"boot", "cpu"} THEN CountTo(entries, k - 1) + 1 ELSE CountTo(entries, k - 1)
<1>1. DOMAIN entries = 1 .. Len(entries) /\ Len(entries) \in Nat
  OBVIOUS
<1>2. ASSUME NEW k \in 0 .. Len(entries) PROVE IsFiniteSet(CpusTo(entries, k)) /\ CountTo(entries, k) \in Nat
  <2>1. IsFiniteSet(1 .. Len(entries)) /\ CpusTo(entries, k) \subseteq 1 .. Len(entries)
    BY <1>1, FS_Interval DEF CpusTo
  <2>2. IsFiniteSet(CpusTo(entries, k))
    BY <2>1, FS_Subset
  <2> QED
    BY <2>2, FS_CardinalityType DEF CountTo
<1>3. CountTo(entries, 0) = 0
  <2>1. CpusTo(entries, 0) = {}
    BY <1>1 DEF CpusTo
  <2> QED
    BY <2>1, FS_EmptySet DEF CountTo
<1>4. ASSUME NEW k \in 1 .. Len(entries)
      PROVE  CountTo(entries, k) = IF entries[k] \in {"boot", "cpu"} THEN CountTo(entries, k - 1) + 1 ELSE CountTo(entries, k - 1)
  <2>1. k - 1 \in 0 .. Len(entries) /\ k \in DOMAIN entries /\ \A j \in DOMAIN entries : (j <= k <=> j = k \/ j <= k - 1)
    BY <1>1
  <2>2. CASE entries[k] \in {"boot", "cpu"}
    <3>1. CpusTo(entries, k) = CpusTo(entries, k - 1) \cup {k}
      BY <2>1, <2>2 DEF CpusTo
    <3>2. k \notin CpusTo(entries, k - 1)
      BY <1>1 DEF CpusTo
    <3>3. IsFiniteSet(CpusTo(entries, k - 1))
      BY <1>2, <2>1
    <3> QED
      BY <2>2, <3>1, <3>2, <3>3, FS_AddElement DEF CountTo
  <2>3. CASE entries[k] \notin {"boot", "cpu"}
    <3>1. CpusTo(entries, k) = CpusTo(entries, k - 1)
      BY <2>1, <2>3 DEF CpusTo
    <3> QED
      BY <2>3, <3>1 DEF CountTo
  <2> QED
    BY <2>2, <2>3
<1> QED
  BY <1>2, <1>3, <1>4

\* The loop over the entries.
LEMMA MpInitLoop ==
    ASSUME NCPU \in Nat, NEW entries \in Seq(Entries)
    PROVE  \E f \in [0 .. Len(entries) -> Tables] :
              /\ f[0] = Start!NoCpus
              /\ \A k \in 1 .. Len(entries) : f[k] = Start!Found(f[k - 1], entries[k])
              /\ Start!mp_init(entries) = IF f[Len(entries)].ismp THEN f[Len(entries)] ELSE [f[Len(entries)] EXCEPT !.ncpu = 1]
<1> DEFINE n == Len(entries)
           Loops(f) == f = [k \in 0 .. n |-> IF k = 0 THEN Start!NoCpus ELSE Start!Found(f[k - 1], entries[k])]
           G == [x \in (1 .. n) \X Tables |-> Start!Found(x[2], entries[x[1]])]
           after == CHOOSE f : Loops(f)
<1>1. n \in Nat /\ Start!NoCpus \in Tables
  BY DEF Start!NoCpus, Tables
<1>2. ASSUME NEW r \in Tables, NEW e PROVE Start!Found(r, e) \in Tables
  <2>1. [r EXCEPT !.ismp = FALSE] \in Tables
    BY DEF Tables
  <2>2. \A x \in Nat, y \in Nat : [r EXCEPT !.ncpu = x, !.bootcpu = y] \in Tables
    BY DEF Tables
  <2> DEFINE x == IF r.ncpu < NCPU THEN r.ncpu + 1 ELSE r.ncpu
             y == IF e = "boot" THEN r.ncpu ELSE r.bootcpu
  <2>3. x \in Nat /\ y \in Nat
    BY DEF Tables
  <2>4. Start!Found(r, e) \in {r, [r EXCEPT !.ismp = FALSE], [r EXCEPT !.ncpu = x, !.bootcpu = y]}
    BY DEF Start!Found
  <2> HIDE DEF x, y
  <2> QED
    BY <2>1, <2>2, <2>3, <2>4, ZenonT(40)
<1>3. PICK g : Follows(g, Tables, n, Start!NoCpus, G)
  <2>1. G \in [(1 .. n) \X Tables -> Tables]
    BY <1>2
  <2> HIDE DEF n, G
  <2> QED
    BY <1>1, <2>1, Recursion, Zenon
<1>4. ASSUME NEW k \in 1 .. n PROVE g[k] = Start!Found(g[k - 1], entries[k])
  <2>1. k - 1 \in 0 .. n
    BY <1>1
  <2>2. g[k] = G[<<k, g[k - 1]>>] /\ g[k - 1] \in Tables
    <3> HIDE DEF n, G
    <3> QED
      BY <1>3, <2>1 DEF Follows
  <2>3. <<k, g[k - 1]>> \in (1 .. n) \X Tables
    BY <2>2
  <2> QED
    BY <2>2, <2>3
<1>5. Loops(g)
  <2>1. \A k \in 0 .. n : g[k] = IF k = 0 THEN Start!NoCpus ELSE Start!Found(g[k - 1], entries[k])
    <3>1. \A k \in 0 .. n : k = 0 \/ k \in 1 .. n
      OBVIOUS
    <3> HIDE DEF n
    <3> QED
      BY <1>3, <1>4, <3>1 DEF Follows
  <2>2. g = [k \in 0 .. n |-> g[k]]
    BY <1>3 DEF Follows
  <2> HIDE DEF n
  <2> QED
    BY <2>1, <2>2
<1>6. Loops(after)
  <2> HIDE DEF Loops
  <2> QED
    BY <1>5
<1>7. Start!mp_init(entries) = IF after[n].ismp THEN after[n] ELSE [after[n] EXCEPT !.ncpu = 1]
  BY DEF Start!mp_init
<1> HIDE DEF after
<1>8. \A k \in 0 .. n : after[k] = IF k = 0 THEN Start!NoCpus ELSE Start!Found(after[k - 1], entries[k])
  <2> HIDE DEF n
  <2> QED
    BY <1>6
<1>9. after[0] = Start!NoCpus /\ \A k \in 1 .. n : after[k] = Start!Found(after[k - 1], entries[k])
  <2>1. 0 \in 0 .. n /\ \A k \in 1 .. n : k \in 0 .. n /\ k # 0
    BY <1>1
  <2> HIDE DEF n
  <2> QED
    BY <1>8, <2>1
<1>10. after = [k \in 0 .. n |-> after[k]]
  <2> HIDE DEF n
  <2> QED
    BY <1>6
<1> HIDE DEF n
<1>11. after \in [0 .. n -> Tables]
  <2>1. after[0] \in Tables /\ \A k \in 1 .. n : after[k - 1] \in Tables => after[k] \in Tables
    BY <1>1, <1>2, <1>9
  <2> QED
    BY <1>1, <1>10, <2>1, RecursionStays
<1> QED
  BY <1>7, <1>9, <1>11 DEF n

\* mp_init() counts the CPUs of every table, up to NCPU, and bootcpu is where
\* the boot processor is among them, unless that is beyond the table of CPUs.
THEOREM CpusAreFound ==
    ASSUME NCPU \in Nat, NEW entries \in Seq(Entries)
    PROVE  Start!CpusFound(entries)
<1> DEFINE n == Len(entries)
           cpus == {k \in DOMAIN entries : entries[k] \in {"boot", "cpu"}}
           before(k) == Cardinality({j \in cpus : j < k})
           r == Start!mp_init(entries)
<1> SUFFICES ASSUME NEW b \in cpus, "unknown" \notin Start!ToSet(entries), {k \in cpus : entries[k] = "boot"} = {b}, before(b) < NCPU
             PROVE  r.ncpu = Start!Min({Cardinality(cpus), NCPU}) /\ r.bootcpu = before(b)
  BY DEF Start!CpusFound, Start!Cardinality, Cardinality
<1>1. n \in Nat /\ DOMAIN entries = 1 .. n /\ \A k \in 1 .. n : entries[k] \in {"boot", "cpu", "other"}
  BY DEF Entries, Start!ToSet
<1>2. /\ CountTo(entries, 0) = 0
      /\ \A k \in 0 .. n : CountTo(entries, k) \in Nat
      /\ \A k \in 1 .. n : CountTo(entries, k) = IF entries[k] \in {"boot", "cpu"} THEN CountTo(entries, k - 1) + 1
                                                                                 ELSE CountTo(entries, k - 1)
  BY CountGrows
<1>3. PICK f \in [0 .. n -> Tables] :
         /\ f[0] = Start!NoCpus
         /\ \A k \in 1 .. n : f[k] = Start!Found(f[k - 1], entries[k])
         /\ r = IF f[n].ismp THEN f[n] ELSE [f[n] EXCEPT !.ncpu = 1]
  BY MpInitLoop
<1>4. b \in 1 .. n /\ entries[b] = "boot" /\ before(b) = CountTo(entries, b - 1) /\ Cardinality(cpus) = CountTo(entries, n)
  <2>1. b \in 1 .. n /\ entries[b] = "boot"
    BY <1>1
  <2>2. {j \in cpus : j < b} = CpusTo(entries, b - 1)
    BY <1>1, <2>1 DEF CpusTo
  <2>3. cpus = CpusTo(entries, n)
    BY <1>1 DEF CpusTo
  <2> QED
    BY <2>1, <2>2, <2>3 DEF CountTo
<1>5. \A k \in 1 .. n : entries[k] = "boot" <=> k = b
  BY <1>1
<1> HIDE DEF cpus, before, r
\* After k entries.
<1> DEFINE Counted(k) == /\ f[k].ismp
                         /\ f[k].ncpu = IF CountTo(entries, k) < NCPU THEN CountTo(entries, k) ELSE NCPU
                         /\ f[k].bootcpu = IF b <= k THEN CountTo(entries, b - 1) ELSE 0
           Right == {k \in Nat : k \in 0 .. n => Counted(k)}
<1>6. 0 \in Right
  <2>1. f[0].ncpu = 0 /\ f[0].bootcpu = 0 /\ f[0].ismp
    BY <1>3 DEF Start!NoCpus
  <2> QED
    BY <1>2, <1>4, <2>1
<1>7. ASSUME NEW k \in Nat, k \in Right PROVE k + 1 \in Right
  <2> SUFFICES ASSUME k + 1 \in 0 .. n PROVE Counted(k + 1)
    OBVIOUS
  <2>1. k \in 0 .. n /\ k + 1 \in 1 .. n /\ (k + 1) - 1 = k
    BY <1>1
  <2>2. Counted(k) /\ f[k] \in Tables /\ f[k + 1] = Start!Found(f[k], entries[k + 1])
    BY <1>3, <1>7, <2>1
  <2>3. /\ CountTo(entries, k) \in Nat
        /\ CountTo(entries, k + 1) = IF entries[k + 1] \in {"boot", "cpu"} THEN CountTo(entries, k) + 1 ELSE CountTo(entries, k)
    BY <1>2, <2>1
  <2>4. CASE entries[k + 1] = "other"
    <3>1. f[k + 1] = f[k]
      BY <2>2, <2>4 DEF Start!Found
    <3>2. b # k + 1
      BY <1>4, <2>4
    <3> QED
      BY <1>4, <2>1, <2>2, <2>3, <2>4, <3>1, <3>2
  <2>5. CASE entries[k + 1] \in {"boot", "cpu"}
    <3>1. f[k + 1] = [f[k] EXCEPT !.ncpu = IF @ < NCPU THEN @ + 1 ELSE @,
                                  !.bootcpu = IF entries[k + 1] = "boot" THEN f[k].ncpu ELSE @]
      BY <2>2, <2>5 DEF Start!Found
    <3>2. /\ f[k + 1].ismp = f[k].ismp
          /\ f[k + 1].ncpu = IF f[k].ncpu < NCPU THEN f[k].ncpu + 1 ELSE f[k].ncpu
          /\ f[k + 1].bootcpu = IF entries[k + 1] = "boot" THEN f[k].ncpu ELSE f[k].bootcpu
      BY <2>2, <3>1 DEF Tables
    <3>3. entries[k + 1] = "boot" <=> b = k + 1
      BY <1>5, <2>1
    <3>4. b = k + 1 => CountTo(entries, b - 1) = CountTo(entries, k) /\ CountTo(entries, k) < NCPU
      BY <1>4, <2>1
    <3> DEFINE c == CountTo(entries, k)
    <3>5. /\ c \in Nat /\ CountTo(entries, k + 1) = c + 1
          /\ f[k].ismp /\ f[k].ncpu = (IF c < NCPU THEN c ELSE NCPU)
          /\ f[k].bootcpu = IF b <= k THEN CountTo(entries, b - 1) ELSE 0
      <4>1. c \in Nat /\ CountTo(entries, k + 1) = c + 1
        BY <2>3, <2>5
      <4>2. f[k].ismp /\ f[k].ncpu = (IF c < NCPU THEN c ELSE NCPU) /\ f[k].bootcpu = IF b <= k THEN CountTo(entries, b - 1) ELSE 0
        BY <2>2
      <4> QED
        BY <4>1, <4>2, Zenon
    <3>6. b = k + 1 => CountTo(entries, b - 1) = c /\ c < NCPU
      BY <3>4
    <3> HIDE DEF c
    <3>7. f[k + 1].ncpu = IF CountTo(entries, k + 1) < NCPU THEN CountTo(entries, k + 1) ELSE NCPU
      <4>1. f[k + 1].ncpu = (IF (IF c < NCPU THEN c ELSE NCPU) < NCPU THEN (IF c < NCPU THEN c ELSE NCPU) + 1 ELSE (IF c < NCPU THEN c ELSE NCPU))
        BY <3>2, <3>5, Zenon
      <4>2. c \in Nat /\ NCPU \in Nat
        BY <3>5
      <4> QED
        BY <3>5, <4>1, <4>2
    <3>8. f[k + 1].bootcpu = IF b <= k + 1 THEN CountTo(entries, b - 1) ELSE 0
      <4>1. CASE b = k + 1
        BY <3>2, <3>3, <3>5, <3>6, <4>1
      <4>2. CASE b # k + 1
        <5>1. b <= k + 1 <=> b <= k
          BY <1>4, <4>2
        <5> QED
          BY <3>2, <3>3, <3>5, <4>2, <5>1
      <4> QED
        BY <4>1, <4>2
    <3>9. f[k + 1].ismp
      BY <3>2, <3>5
    <3> QED
      BY <3>7, <3>8, <3>9, Zenon
  <2> QED
    BY <1>1, <2>1, <2>4, <2>5
<1> HIDE DEF Right
<1>8. Nat \subseteq Right
  BY <1>6, <1>7, NatInduct
<1>9. Counted(n)
  BY <1>1, <1>8 DEF Right
<1>10. r = f[n]
  BY <1>3, <1>9
<1>11. CountTo(entries, n) \in Nat
  BY <1>1, <1>2
<1>12. Start!Min({CountTo(entries, n), NCPU}) = IF CountTo(entries, n) < NCPU THEN CountTo(entries, n) ELSE NCPU
  <2>1. \A x, y \in Nat : Start!Min({x, y}) = IF x < y THEN x ELSE y
    BY DEF Start!Min
  <2> QED
    BY <1>11, <2>1
<1> QED
  BY <1>4, <1>9, <1>10, <1>12

-----------------------------------------------------------------------------
(* boot_alloc() and page_init().                                           *)

\* A memory with the kernel behind the hole.
Memories == {m \in [npages : Nat, mpentry : Nat, io : Nat, ext : Nat, end : Nat] : PGSIZE * m.ext <= m.end}
Chunks == [chunks : Seq(Nat \X Nat), nextfree : Nat \cup {Start!OutOfMemory}]

ChunkBytes(c) == c[1] .. c[1] + c[2] - 1
Taken(m, chunks) == (m.ext * PGSIZE .. m.end - 1) \cup UNION {ChunkBytes(chunks[k]) : k \in DOMAIN chunks}

LEMMA Rounded ==
    ASSUME PGSIZE \in Nat \ {0}, NEW a \in Nat
    PROVE  \E q \in Nat : /\ Start!UP(a) = PGSIZE * q /\ PGSIZE * q \in Nat
                          /\ a <= PGSIZE * q /\ PGSIZE * q < a + PGSIZE
<1> DEFINE q == (a + PGSIZE - 1) \div PGSIZE
<1>1. a + PGSIZE - 1 \in Nat
  OBVIOUS
<1>2. q \in Nat /\ PGSIZE * q <= a + PGSIZE - 1 /\ a + PGSIZE - 1 < PGSIZE * q + PGSIZE
  BY <1>1, DivBounds
<1>3. Start!UP(a) = q * PGSIZE
  BY DEF Start!UP, Start!PGNUM
<1> HIDE DEF q
<1>4. PGSIZE * q \in Nat /\ q * PGSIZE = PGSIZE * q
  BY <1>2
<1> QED
  BY <1>2, <1>3, <1>4

\* A range that starts with page p and ends on page q - 1.
Spans(p, q, from, to) ==
    from = PGSIZE * p /\ to \in Nat /\ from <= to /\ to <= PGSIZE * q /\ PGSIZE * q < to + PGSIZE

LEMMA PagesOfRange ==
    ASSUME PGSIZE \in Nat \ {0}, NEW p \in Nat, NEW q \in Nat, NEW from, NEW to, Spans(p, q, from, to), NEW i \in Nat
    PROVE  i \in p .. q - 1 <=> \E a \in from .. to - 1 : Start!PGNUM(a) = i
<1> USE DEF Spans
<1>1. PGSIZE * p \in Nat /\ PGSIZE * q \in Nat /\ PGSIZE * i \in Nat
  OBVIOUS
<1>2. ASSUME i \in p .. q - 1 PROVE \E a \in PGSIZE * p .. to - 1 : Start!PGNUM(a) = i
  <2>1. PGSIZE * i + PGSIZE <= PGSIZE * q
    BY <1>2, TimesGrows
  <2>2. PGSIZE * p <= PGSIZE * i
    <3>1. p < i => PGSIZE * p + PGSIZE <= PGSIZE * i
      BY TimesGrows
    <3> QED
      BY <1>1, <1>2, <3>1
  <2>3. PGSIZE * i \in PGSIZE * p .. to - 1
    BY <1>1, <2>1, <2>2
  <2>4. Start!PGNUM(PGSIZE * i) = i
    BY <1>1, DivIs DEF Start!PGNUM
  <2> QED
    BY <2>3, <2>4
<1>3. ASSUME NEW a \in PGSIZE * p .. to - 1, Start!PGNUM(a) = i PROVE i \in p .. q - 1
  <2>1. a \in Nat /\ PGSIZE * i <= a /\ a < PGSIZE * i + PGSIZE
    <3>1. a \in Nat
      BY <1>1
    <3> QED
      BY <1>3, <3>1, DivBounds DEF Start!PGNUM
  <2>2. ~(i < p)
    <3>1. i < p => PGSIZE * i + PGSIZE <= PGSIZE * p
      BY TimesGrows
    <3> QED
      BY <1>1, <2>1, <3>1
  <2>3. i < q
    <3>1. q < i => PGSIZE * q + PGSIZE <= PGSIZE * i
      BY TimesGrows
    <3>2. q = i => PGSIZE * q = PGSIZE * i
      OBVIOUS
    <3> QED
      BY <1>1, <2>1, <3>1, <3>2
  <2> QED
    BY <2>2, <2>3
<1> QED
  BY <1>2, <1>3

\* The chunks are behind the kernel, one after the other, and with the kernel
\* take the pages up to nextfree.
Laid(m, r) ==
    /\ r \in Chunks
    /\ \E q \in Nat : /\ r.nextfree = PGSIZE * q /\ m.ext <= q /\ m.end <= PGSIZE * q
                      /\ \A i \in Nat : i \in m.ext .. q - 1 <=> \E a \in Taken(m, r.chunks) : Start!PGNUM(a) = i
    /\ \A k \in DOMAIN r.chunks : /\ \E p \in Nat : r.chunks[k][1] = PGSIZE * p
                                  /\ m.end <= r.chunks[k][1] /\ r.chunks[k][1] + r.chunks[k][2] <= r.nextfree
    /\ \A j, k \in DOMAIN r.chunks : j < k => r.chunks[j][1] + r.chunks[j][2] <= r.chunks[k][1]

LEMMA FirstLaid ==
    ASSUME PGSIZE \in Nat \ {0}, NEW m \in Memories
    PROVE  Laid(m, [chunks |-> <<>>, nextfree |-> Start!UP(m.end)])
<1> DEFINE r == [chunks |-> <<>>, nextfree |-> Start!UP(m.end)]
<1>1. m.end \in Nat /\ m.ext \in Nat /\ PGSIZE * m.ext <= m.end /\ m.ext * PGSIZE = PGSIZE * m.ext
  BY DEF Memories
<1>2. PICK q \in Nat : Start!UP(m.end) = PGSIZE * q /\ PGSIZE * q \in Nat /\ m.end <= PGSIZE * q /\ PGSIZE * q < m.end + PGSIZE
  BY <1>1, Rounded
<1>3. r \in Chunks
  BY <1>2 DEF Chunks
<1>4. Taken(m, <<>>) = PGSIZE * m.ext .. m.end - 1
  BY <1>1 DEF Taken
<1>5. \A i \in Nat : i \in m.ext .. q - 1 <=> \E a \in Taken(m, <<>>) : Start!PGNUM(a) = i
  <2>1. Spans(m.ext, q, PGSIZE * m.ext, m.end)
    BY <1>1, <1>2 DEF Spans
  <2>2. \A i \in Nat : i \in m.ext .. q - 1 <=> \E a \in PGSIZE * m.ext .. m.end - 1 : Start!PGNUM(a) = i
    BY <1>1, <2>1, PagesOfRange
  <2> QED
    BY <1>4, <2>2, Zenon
<1>6. m.ext <= q
  <2>1. q < m.ext => PGSIZE * q + PGSIZE <= PGSIZE * m.ext
    BY <1>1, TimesGrows
  <2> QED
    BY <1>1, <1>2, <2>1
<1>7. r.chunks = <<>> /\ r.nextfree = PGSIZE * q /\ DOMAIN r.chunks = {}
  BY <1>2
<1> HIDE DEF r
<1> QED
  BY <1>2, <1>3, <1>5, <1>6, <1>7 DEF Laid, r

LEMMA NextLaid ==
    ASSUME PGSIZE \in Nat \ {0}, NEW m \in Memories, NEW n \in Nat, NEW r, Laid(m, r),
           NEW h, h = Start!Allotted(m, r, n), h.nextfree # Start!OutOfMemory
    PROVE  Laid(m, h)
<1>1. m.end \in Nat /\ m.ext \in Nat
  BY DEF Memories
<1>2. PICK p \in Nat : /\ r.nextfree = PGSIZE * p /\ m.ext <= p /\ m.end <= PGSIZE * p
                       /\ \A i \in Nat : i \in m.ext .. p - 1 <=> \E a \in Taken(m, r.chunks) : Start!PGNUM(a) = i
  BY DEF Laid
<1>3. PGSIZE * p \in Nat /\ PGSIZE * p + n \in Nat
  OBVIOUS
<1>4. PICK q \in Nat : /\ Start!UP(PGSIZE * p + n) = PGSIZE * q /\ PGSIZE * q \in Nat
                       /\ PGSIZE * p + n <= PGSIZE * q /\ PGSIZE * q < PGSIZE * p + n + PGSIZE
  BY <1>3, Rounded
<1> DEFINE c == <<PGSIZE * p, n>>
<1>5. h.chunks = Append(r.chunks, c) /\ h.nextfree = PGSIZE * q
  <2>1. r.nextfree # Start!OutOfMemory
    BY <1>2, <1>3 DEF Start!OutOfMemory
  <2>2. h = [chunks |-> Append(r.chunks, <<r.nextfree, n>>), nextfree |-> Start!boot_alloc(m, r.nextfree, n)]
    BY <2>1 DEF Start!Allotted
  <2>3. h.chunks = Append(r.chunks, <<r.nextfree, n>>) /\ h.nextfree = Start!boot_alloc(m, r.nextfree, n)
    BY <2>2
  <2>4. h.nextfree = Start!UP(r.nextfree + n)
    BY <2>3 DEF Start!boot_alloc
  <2> QED
    BY <1>2, <1>4, <2>3, <2>4
<1>6. c \in Nat \X Nat /\ c[1] = PGSIZE * p /\ c[2] = n /\ ChunkBytes(c) = PGSIZE * p .. PGSIZE * p + n - 1
  BY <1>3 DEF ChunkBytes
<1> DEFINE l == Len(r.chunks)
<1>7. r.chunks \in Seq(Nat \X Nat) /\ l \in Nat /\ DOMAIN r.chunks = 1 .. l
  <2>1. r.chunks \in Seq(Nat \X Nat)
    BY DEF Laid, Chunks
  <2> QED
    BY <2>1
<1> HIDE DEF c
<1>8. /\ h.chunks \in Seq(Nat \X Nat) /\ DOMAIN h.chunks = 1 .. l + 1
      /\ \A k \in 1 .. l : h.chunks[k] = r.chunks[k]
      /\ h.chunks[l + 1] = c
  BY <1>5, <1>6, <1>7, SMTT(30)
<1> HIDE DEF l
<1>9. h \in Chunks
  <2>1. h = [chunks |-> h.chunks, nextfree |-> h.nextfree]
    <3>1. r.nextfree # Start!OutOfMemory
      BY <1>2, <1>3 DEF Start!OutOfMemory
    <3> QED
      BY <3>1 DEF Start!Allotted
  <2> QED
    BY <1>4, <1>5, <1>8, <2>1 DEF Chunks
<1>10. Taken(m, h.chunks) = Taken(m, r.chunks) \cup ChunkBytes(c)
  <2> DEFINE new == UNION {ChunkBytes(h.chunks[k]) : k \in DOMAIN h.chunks}
             old == UNION {ChunkBytes(r.chunks[k]) : k \in DOMAIN r.chunks}
  <2>1. ASSUME NEW a PROVE a \in new <=> a \in old \/ a \in ChunkBytes(c)
    <3>1. \A k : k \in 1 .. l + 1 <=> k \in 1 .. l \/ k = l + 1
      <4>1. \A x \in Nat : 1 .. x + 1 = (1 .. x) \cup {x + 1}
        OBVIOUS
      <4>2. 1 .. l + 1 = (1 .. l) \cup {l + 1}
        BY <1>7, <4>1
      <4> QED
        BY <4>2, Zenon
    <3>2. a \in new <=> \E k \in 1 .. l + 1 : a \in ChunkBytes(h.chunks[k])
      BY <1>8, Zenon
    <3>3. a \in old <=> \E k \in 1 .. l : a \in ChunkBytes(r.chunks[k])
      BY <1>7, Zenon
    <3> HIDE DEF new, old
    <3> QED
      BY <1>8, <3>1, <3>2, <3>3, Zenon
  <2>2. Taken(m, h.chunks) = (m.ext * PGSIZE .. m.end - 1) \cup new /\ Taken(m, r.chunks) = (m.ext * PGSIZE .. m.end - 1) \cup old
    BY Zenon DEF Taken
  <2> HIDE DEF new, old
  <2> QED
    BY <2>1, <2>2
<1>11. p <= q
  <2>1. q < p => PGSIZE * q + PGSIZE <= PGSIZE * p
    BY TimesGrows
  <2> QED
    BY <1>3, <1>4, <2>1
<1>12. ASSUME NEW i \in Nat PROVE i \in m.ext .. q - 1 <=> \E a \in Taken(m, h.chunks) : Start!PGNUM(a) = i
  <2>1. i \in p .. q - 1 <=> \E a \in ChunkBytes(c) : Start!PGNUM(a) = i
    <3>1. i \in p .. q - 1 <=> \E a \in PGSIZE * p .. PGSIZE * p + n - 1 : Start!PGNUM(a) = i
      <4>1. Spans(p, q, PGSIZE * p, PGSIZE * p + n)
        BY <1>3, <1>4 DEF Spans
      <4> QED
        BY <4>1, PagesOfRange
    <3> QED
      BY <1>6, <3>1
  <2>2. i \in m.ext .. q - 1 <=> i \in m.ext .. p - 1 \/ i \in p .. q - 1
    BY <1>1, <1>2, <1>11
  <2> QED
    BY <1>2, <1>10, <2>1, <2>2
<1>13. ASSUME NEW k \in DOMAIN h.chunks
       PROVE  /\ \E x \in Nat : h.chunks[k][1] = PGSIZE * x
              /\ m.end <= h.chunks[k][1] /\ h.chunks[k][1] + h.chunks[k][2] <= h.nextfree
  <2>1. CASE k \in 1 .. l
    <3>1. h.chunks[k] = r.chunks[k] /\ r.chunks[k] \in Nat \X Nat
      <4>1. r.chunks \in [1 .. l -> Nat \X Nat]
        BY <1>7
      <4> QED
        BY <1>8, <2>1, <4>1
    <3>2. /\ \E x \in Nat : r.chunks[k][1] = PGSIZE * x
          /\ m.end <= r.chunks[k][1] /\ r.chunks[k][1] + r.chunks[k][2] <= r.nextfree
      BY <1>7, <2>1 DEF Laid
    <3>3. r.chunks[k][1] \in Nat /\ r.chunks[k][2] \in Nat
      BY <3>1
    <3>4. r.nextfree <= h.nextfree /\ r.nextfree \in Nat /\ h.nextfree \in Nat
      <4> DEFINE x == PGSIZE * p
                 y == PGSIZE * q
      <4>1. r.nextfree = x /\ h.nextfree = y /\ x \in Nat /\ y \in Nat /\ x + n <= y
        BY <1>2, <1>3, <1>4, <1>5
      <4> HIDE DEF x, y
      <4> QED
        BY <4>1
    <3> QED
      BY <3>1, <3>2, <3>3, <3>4
  <2>2. CASE k = l + 1
    BY <1>2, <1>4, <1>5, <1>6, <1>8, <2>2
  <2> QED
    BY <1>7, <1>8, <2>1, <2>2
<1>14. ASSUME NEW j \in DOMAIN h.chunks, NEW k \in DOMAIN h.chunks, j < k
       PROVE  h.chunks[j][1] + h.chunks[j][2] <= h.chunks[k][1]
  <2>1. j \in 1 .. l /\ (k \in 1 .. l \/ k = l + 1)
    <3>1. j \in 1 .. l + 1 /\ k \in 1 .. l + 1
      BY <1>8
    <3> QED
      BY <1>7, <1>14, <3>1
  <2>2. CASE k \in 1 .. l
    BY <1>7, <1>8, <1>14, <2>1, <2>2 DEF Laid
  <2>3. CASE k = l + 1
    <3>1. h.chunks[j] = r.chunks[j] /\ r.chunks[j][1] + r.chunks[j][2] <= r.nextfree
      BY <1>7, <1>8, <2>1 DEF Laid
    <3> QED
      BY <1>2, <1>6, <1>8, <2>3, <3>1
  <2> QED
    BY <2>1, <2>2, <2>3
<1>15. \E x \in Nat : /\ h.nextfree = PGSIZE * x /\ m.ext <= x /\ m.end <= PGSIZE * x
                      /\ \A i \in Nat : i \in m.ext .. x - 1 <=> \E a \in Taken(m, h.chunks) : Start!PGNUM(a) = i
  <2>1. h.nextfree = PGSIZE * q /\ m.ext <= q /\ m.end <= PGSIZE * q
    BY <1>1, <1>2, <1>3, <1>4, <1>5, <1>11
  <2> QED
    BY <1>12, <2>1
<1> QED
  BY <1>9, <1>13, <1>14, <1>15 DEF Laid

\* The loop over the sizes.
LEMMA BootAllocsLoop ==
    ASSUME PGSIZE \in Nat \ {0}, NEW m \in Memories, NEW sizes \in Seq(Nat)
    PROVE  \E f \in [0 .. Len(sizes) -> Chunks] :
              /\ f[0] = [chunks |-> <<>>, nextfree |-> Start!UP(m.end)]
              /\ \A k \in 1 .. Len(sizes) : f[k] = Start!Allotted(m, f[k - 1], sizes[k])
              /\ Start!BootAllocs(m, sizes) = f[Len(sizes)]
<1> DEFINE n == Len(sizes)
           first == [chunks |-> <<>>, nextfree |-> Start!UP(m.end)]
           Loops(f) == f = [k \in 0 .. n |-> IF k = 0 THEN first ELSE Start!Allotted(m, f[k - 1], sizes[k])]
           G == [x \in (1 .. n) \X Chunks |-> Start!Allotted(m, x[2], sizes[x[1]])]
           after == CHOOSE f : Loops(f)
<1>1. n \in Nat /\ first \in Chunks /\ \A k \in 1 .. n : sizes[k] \in Nat
  BY FirstLaid DEF Laid
<1>2. ASSUME NEW r \in Chunks, NEW bytes \in Nat PROVE Start!Allotted(m, r, bytes) \in Chunks
  <2>1. CASE r.nextfree = Start!OutOfMemory
    BY <2>1 DEF Start!Allotted
  <2>2. CASE r.nextfree # Start!OutOfMemory
    <3>1. r.nextfree \in Nat /\ r.chunks \in Seq(Nat \X Nat)
      BY <2>2 DEF Chunks
    <3>2. Start!boot_alloc(m, r.nextfree, bytes) \in Nat \cup {Start!OutOfMemory}
      <4>1. Start!UP(r.nextfree + bytes) \in Nat
        <5>1. r.nextfree + bytes \in Nat
          BY <3>1
        <5> QED
          BY <5>1, Rounded
      <4> QED
        BY <4>1 DEF Start!boot_alloc
    <3>3. Append(r.chunks, <<r.nextfree, bytes>>) \in Seq(Nat \X Nat)
      BY <3>1
    <3> QED
      BY <2>2, <3>2, <3>3 DEF Start!Allotted, Chunks
  <2> QED
    BY <2>1, <2>2
<1>3. PICK g : Follows(g, Chunks, n, first, G)
  <2>1. G \in [(1 .. n) \X Chunks -> Chunks]
    BY <1>1, <1>2
  <2> HIDE DEF n, G, first
  <2> QED
    BY <1>1, <2>1, Recursion, Zenon
<1>4. ASSUME NEW k \in 1 .. n PROVE g[k] = Start!Allotted(m, g[k - 1], sizes[k])
  <2>1. k - 1 \in 0 .. n
    BY <1>1
  <2>2. g[k] = G[<<k, g[k - 1]>>] /\ g[k - 1] \in Chunks
    <3> HIDE DEF n, G
    <3> QED
      BY <1>3, <2>1 DEF Follows
  <2>3. <<k, g[k - 1]>> \in (1 .. n) \X Chunks
    BY <2>2
  <2> QED
    BY <2>2, <2>3
<1>5. Loops(g)
  <2>1. \A k \in 0 .. n : g[k] = IF k = 0 THEN first ELSE Start!Allotted(m, g[k - 1], sizes[k])
    <3>1. \A k \in 0 .. n : k = 0 \/ k \in 1 .. n
      OBVIOUS
    <3> HIDE DEF n, first
    <3> QED
      BY <1>3, <1>4, <3>1 DEF Follows
  <2>2. g = [k \in 0 .. n |-> g[k]]
    BY <1>3 DEF Follows
  <2> HIDE DEF n, first
  <2> QED
    BY <2>1, <2>2
<1>6. Loops(after)
  <2> HIDE DEF Loops
  <2> QED
    BY <1>5
<1>7. Start!BootAllocs(m, sizes) = after[n]
  BY DEF Start!BootAllocs
<1> HIDE DEF after, first
<1>8. \A k \in 0 .. n : after[k] = IF k = 0 THEN first ELSE Start!Allotted(m, after[k - 1], sizes[k])
  <2> HIDE DEF n
  <2> QED
    BY <1>6
<1>9. after[0] = first /\ \A k \in 1 .. n : after[k] = Start!Allotted(m, after[k - 1], sizes[k])
  <2>1. 0 \in 0 .. n /\ \A k \in 1 .. n : k \in 0 .. n /\ k # 0
    BY <1>1
  <2> HIDE DEF n
  <2> QED
    BY <1>8, <2>1
<1>10. after = [k \in 0 .. n |-> after[k]]
  <2> HIDE DEF n
  <2> QED
    BY <1>6
<1> HIDE DEF n
<1>11. after \in [0 .. n -> Chunks]
  <2>1. after[0] \in Chunks /\ \A k \in 1 .. n : after[k - 1] \in Chunks => after[k] \in Chunks
    BY <1>1, <1>2, <1>9
  <2> QED
    BY <1>1, <1>10, <2>1, RecursionStays
<1> QED
  BY <1>7, <1>9, <1>11 DEF n, first

\* What mem_init() allocates before page_init(), if memory does not run out.
LEMMA ChunksAreLaid ==
    ASSUME PGSIZE \in Nat \ {0}, NEW m \in Memories, NEW sizes \in Seq(Nat),
           Start!BootAllocs(m, sizes).nextfree # Start!OutOfMemory
    PROVE  Laid(m, Start!BootAllocs(m, sizes))
<1> DEFINE n == Len(sizes)
<1>1. PICK f \in [0 .. n -> Chunks] :
         /\ f[0] = [chunks |-> <<>>, nextfree |-> Start!UP(m.end)]
         /\ \A k \in 1 .. n : f[k] = Start!Allotted(m, f[k - 1], sizes[k])
         /\ Start!BootAllocs(m, sizes) = f[n]
  BY BootAllocsLoop
<1>2. n \in Nat /\ \A k \in 1 .. n : sizes[k] \in Nat
  OBVIOUS
<1> DEFINE Right == {k \in Nat : k \in 0 .. n /\ f[k].nextfree # Start!OutOfMemory => Laid(m, f[k])}
<1>3. 0 \in Right
  <2>1. Laid(m, f[0])
    BY <1>1, FirstLaid
  <2> QED
    BY <2>1
<1> HIDE DEF n
<1>4. ASSUME NEW k \in Nat, k \in Right PROVE k + 1 \in Right
  <2> SUFFICES ASSUME k + 1 \in 0 .. n, f[k + 1].nextfree # Start!OutOfMemory PROVE Laid(m, f[k + 1])
    OBVIOUS
  <2>1. k \in 0 .. n /\ k + 1 \in 1 .. n /\ (k + 1) - 1 = k
    BY <1>2
  <2>2. f[k + 1] = Start!Allotted(m, f[k], sizes[k + 1]) /\ sizes[k + 1] \in Nat
    BY <1>1, <1>2, <2>1
  <2>3. f[k].nextfree # Start!OutOfMemory
    BY <2>2 DEF Start!Allotted
  <2>4. Laid(m, f[k])
    BY <1>4, <2>1, <2>3
  <2> QED
    BY <2>2, <2>4, NextLaid
<1> HIDE DEF Right
<1>5. Nat \subseteq Right
  BY <1>3, <1>4, NatInduct
<1>6. n \in 0 .. n
  BY <1>2
<1> QED
  BY <1>1, <1>2, <1>5, <1>6 DEF Right

\* The loop over the pages.
LEMMA PageInitLoop ==
    ASSUME NEW m \in Memories, NEW nextfree
    PROVE  \E f \in [0 .. m.npages -> Seq(Nat)] :
              /\ f[0] = <<>>
              /\ \A k \in 1 .. m.npages : f[k] = Start!Pushed(m, nextfree, f[k - 1], k - 1)
              /\ Start!page_init(m, nextfree) = f[m.npages]
<1> DEFINE n == m.npages
           Loops(f) == f = [k \in 0 .. n |-> IF k = 0 THEN <<>> ELSE Start!Pushed(m, nextfree, f[k - 1], k - 1)]
           G == [x \in (1 .. n) \X Seq(Nat) |-> Start!Pushed(m, nextfree, x[2], x[1] - 1)]
           list == CHOOSE f : Loops(f)
<1>1. n \in Nat /\ <<>> \in Seq(Nat)
  BY DEF Memories
<1>2. ASSUME NEW s \in Seq(Nat), NEW k \in 1 .. n PROVE Start!Pushed(m, nextfree, s, k - 1) \in Seq(Nat)
  <2>1. k - 1 \in Nat
    BY <1>1
  <2>2. <<k - 1>> \o s \in Seq(Nat)
    BY <2>1
  <2> QED
    BY <2>2 DEF Start!Pushed
<1>3. PICK g : Follows(g, Seq(Nat), n, <<>>, G)
  <2>1. G \in [(1 .. n) \X Seq(Nat) -> Seq(Nat)]
    BY <1>2
  <2> HIDE DEF n, G
  <2> QED
    BY <1>1, <2>1, Recursion, Zenon
<1>4. ASSUME NEW k \in 1 .. n PROVE g[k] = Start!Pushed(m, nextfree, g[k - 1], k - 1)
  <2>1. k - 1 \in 0 .. n
    BY <1>1
  <2>2. g[k] = G[<<k, g[k - 1]>>] /\ g[k - 1] \in Seq(Nat)
    <3> HIDE DEF n, G
    <3> QED
      BY <1>3, <2>1 DEF Follows
  <2>3. <<k, g[k - 1]>> \in (1 .. n) \X Seq(Nat)
    BY <2>2
  <2> QED
    BY <2>2, <2>3
<1>5. Loops(g)
  <2>1. \A k \in 0 .. n : g[k] = IF k = 0 THEN <<>> ELSE Start!Pushed(m, nextfree, g[k - 1], k - 1)
    <3>1. \A k \in 0 .. n : k = 0 \/ k \in 1 .. n
      BY <1>1
    <3> HIDE DEF n
    <3> QED
      BY <1>3, <1>4, <3>1 DEF Follows
  <2>2. g = [k \in 0 .. n |-> g[k]]
    BY <1>3 DEF Follows
  <2> HIDE DEF n
  <2> QED
    BY <2>1, <2>2
<1>6. Loops(list)
  <2> HIDE DEF Loops
  <2> QED
    BY <1>5
<1>7. Start!page_init(m, nextfree) = list[n]
  BY DEF Start!page_init
<1> HIDE DEF list
<1>8. \A k \in 0 .. n : list[k] = IF k = 0 THEN <<>> ELSE Start!Pushed(m, nextfree, list[k - 1], k - 1)
  <2> HIDE DEF n
  <2> QED
    BY <1>6
<1>9. list[0] = <<>> /\ \A k \in 1 .. n : list[k] = Start!Pushed(m, nextfree, list[k - 1], k - 1)
  <2>1. 0 \in 0 .. n /\ \A k \in 1 .. n : k \in 0 .. n /\ k # 0
    BY <1>1
  <2> HIDE DEF n
  <2> QED
    BY <1>8, <2>1
<1>10. list = [k \in 0 .. n |-> list[k]]
  <2> HIDE DEF n
  <2> QED
    BY <1>6
<1> HIDE DEF n
<1>11. list \in [0 .. n -> Seq(Nat)]
  <2>1. list[0] \in Seq(Nat) /\ \A k \in 1 .. n : list[k - 1] \in Seq(Nat) => list[k] \in Seq(Nat)
    BY <1>1, <1>2, <1>9
  <2> QED
    BY <1>1, <1>10, <2>1, RecursionStays
<1> QED
  BY <1>7, <1>9, <1>11 DEF n

\* The list holds each page before n that is not in use, once.
Lists(m, nextfree, s, n) ==
    /\ \A j, k \in DOMAIN s : s[j] = s[k] => j = k
    /\ \A i \in Nat : (\E k \in DOMAIN s : s[k] = i) <=> i < n /\ ~ Start!InUse(m, nextfree, i)

LEMMA NextListed ==
    ASSUME NEW m, NEW nextfree, NEW s \in Seq(Nat), NEW n \in Nat, Lists(m, nextfree, s, n)
    PROVE  Lists(m, nextfree, Start!Pushed(m, nextfree, s, n), n + 1)
<1>1. Len(s) \in Nat /\ DOMAIN s = 1 .. Len(s) /\ \A k \in 1 .. Len(s) : s[k] \in Nat
  OBVIOUS
<1>2. CASE Start!InUse(m, nextfree, n)
  <2>1. Start!Pushed(m, nextfree, s, n) = s
    BY <1>2 DEF Start!Pushed
  <2>2. \A i \in Nat : i < n + 1 /\ ~ Start!InUse(m, nextfree, i) <=> i < n /\ ~ Start!InUse(m, nextfree, i)
    <3>1. \A i \in Nat : i < n + 1 <=> i < n \/ i = n
      OBVIOUS
    <3> QED
      BY <1>2, <3>1, Zenon
  <2> QED
    BY <2>1, <2>2 DEF Lists
<1>3. CASE ~ Start!InUse(m, nextfree, n)
  <2> DEFINE t == <<n>> \o s
  <2>1. Start!Pushed(m, nextfree, s, n) = t
    BY <1>3 DEF Start!Pushed
  <2>2. t \in Seq(Nat) /\ DOMAIN t = 1 .. Len(s) + 1 /\ t[1] = n /\ \A k \in 1 .. Len(s) : t[k + 1] = s[k]
    BY <1>1
  <2> HIDE DEF t
  <2>3. \A k \in DOMAIN t : k = 1 \/ (k - 1 \in DOMAIN s /\ t[k] = s[k - 1])
    <3>1. \A k \in 1 .. Len(s) + 1 : k = 1 \/ (k - 1 \in 1 .. Len(s) /\ (k - 1) + 1 = k)
      BY <1>1
    <3> QED
      BY <1>1, <2>2, <3>1
  <2>4. \A k \in DOMAIN s : s[k] # n
    <3>1. \A k \in DOMAIN s : s[k] \in Nat /\ s[k] < n
      BY <1>1 DEF Lists
    <3> QED
      BY <3>1
  <2>5. ASSUME NEW j \in DOMAIN t, NEW k \in DOMAIN t, t[j] = t[k] PROVE j = k
    <3>1. j \in Nat /\ k \in Nat
      BY <1>1, <2>2
    <3>2. (j - 1 \in DOMAIN s /\ k - 1 \in DOMAIN s /\ s[j - 1] = s[k - 1]) => j - 1 = k - 1
      BY DEF Lists
    <3> QED
      BY <2>2, <2>3, <2>4, <2>5, <3>1, <3>2, SMTT(30)
  <2>6. ASSUME NEW i \in Nat PROVE (\E k \in DOMAIN t : t[k] = i) <=> i < n + 1 /\ ~ Start!InUse(m, nextfree, i)
    <3>1. (\E k \in DOMAIN t : t[k] = i) <=> i = n \/ \E k \in DOMAIN s : s[k] = i
      <4>1. ASSUME NEW k \in DOMAIN t, t[k] = i PROVE i = n \/ \E x \in DOMAIN s : s[x] = i
        BY <2>2, <2>3, <4>1
      <4>2. ASSUME NEW k \in DOMAIN s, s[k] = i PROVE \E x \in DOMAIN t : t[x] = i
        <5>1. k + 1 \in DOMAIN t
          BY <1>1, <2>2
        <5> QED
          BY <1>1, <2>2, <4>2, <5>1
      <4>3. 1 \in DOMAIN t
        BY <1>1, <2>2
      <4> QED
        BY <2>2, <4>1, <4>2, <4>3
    <3>2. i < n + 1 <=> i < n \/ i = n
      OBVIOUS
    <3>3. (\E k \in DOMAIN s : s[k] = i) <=> i < n /\ ~ Start!InUse(m, nextfree, i)
      BY DEF Lists
    <3> QED
      BY <1>3, <3>1, <3>2, <3>3, Zenon
  <2> QED
    BY <2>1, <2>5, <2>6 DEF Lists
<1> QED
  BY <1>2, <1>3

LEMMA PagesAreListed ==
    ASSUME NEW m \in Memories, NEW nextfree
    PROVE  Start!page_init(m, nextfree) \in Seq(Nat) /\ Lists(m, nextfree, Start!page_init(m, nextfree), m.npages)
<1> DEFINE n == m.npages
<1>1. PICK f \in [0 .. n -> Seq(Nat)] :
         /\ f[0] = <<>>
         /\ \A k \in 1 .. n : f[k] = Start!Pushed(m, nextfree, f[k - 1], k - 1)
         /\ Start!page_init(m, nextfree) = f[n]
  BY PageInitLoop
<1>2. n \in Nat
  BY DEF Memories
<1> HIDE DEF n
<1> DEFINE Right == {k \in Nat : k \in 0 .. n => Lists(m, nextfree, f[k], k)}
<1>3. 0 \in Right
  <2>1. \A i \in Nat : ~ (i < 0)
    OBVIOUS
  <2>2. Lists(m, nextfree, <<>>, 0)
    BY <2>1 DEF Lists
  <2> QED
    BY <1>1, <2>2
<1>4. ASSUME NEW k \in Nat, k \in Right PROVE k + 1 \in Right
  <2> SUFFICES ASSUME k + 1 \in 0 .. n PROVE Lists(m, nextfree, f[k + 1], k + 1)
    OBVIOUS
  <2>1. k \in 0 .. n /\ k + 1 \in 1 .. n /\ (k + 1) - 1 = k
    BY <1>2
  <2>2. f[k + 1] = Start!Pushed(m, nextfree, f[k], k) /\ f[k] \in Seq(Nat) /\ Lists(m, nextfree, f[k], k)
    BY <1>1, <1>4, <2>1
  <2> QED
    BY <2>2, NextListed
<1> HIDE DEF Right
<1>5. Nat \subseteq Right
  BY <1>3, <1>4, NatInduct
<1>6. n \in 0 .. n
  BY <1>2
<1>7. Lists(m, nextfree, f[n], n)
  BY <1>2, <1>5, <1>6 DEF Right
<1> QED
  BY <1>1, <1>6, <1>7 DEF n

LEMMA ModOfMultiple ==
    ASSUME NEW p \in Nat \ {0}, NEW q \in Nat
    PROVE  (p * q) % p = 0
<1>1. p * q \in Nat /\ (p * q) \div p = q
  <2>1. p * q \in Nat
    OBVIOUS
  <2> QED
    BY <2>1, DivIs
<1>2. \A a \in Nat : a % p = a - p * (a \div p)
  OBVIOUS
<1>3. (p * q) % p = p * q - p * q
  BY <1>1, <1>2
<1> QED
  BY <1>1, <1>3

\* In a memory of any size, what boot_alloc() gives is behind the kernel and
\* does not overlap, and page_init() puts each page that is none of the
\* kernel's, the hole's or a chunk's on the free list once, and no other.
THEOREM PagesAreAccounted ==
    ASSUME PGSIZE \in Nat \ {0}, NEW m \in Memories, NEW sizes \in Seq(Nat)
    PROVE  Start!PagesAccounted(m, sizes)
<1> DEFINE boot == Start!BootAllocs(m, sizes)
           free == Start!page_init(m, boot.nextfree)
           taken == Taken(m, boot.chunks)
<1> SUFFICES ASSUME boot.nextfree # Start!OutOfMemory
             PROVE  /\ \A j, k \in DOMAIN boot.chunks : j # k => ChunkBytes(boot.chunks[j]) \cap ChunkBytes(boot.chunks[k]) = {}
                    /\ \A k \in DOMAIN boot.chunks : boot.chunks[k][1] % PGSIZE = 0 /\ ChunkBytes(boot.chunks[k]) \cap 0 .. m.end - 1 = {}
                    /\ \A j, k \in DOMAIN free : free[j] = free[k] => j = k
                    /\ Start!ToSet(free) = {i \in 1 .. m.npages - 1 : /\ i # m.mpentry /\ i \notin m.io .. m.ext - 1
                                                                      /\ i \notin {Start!PGNUM(a) : a \in taken}}
  BY Zenon DEF Start!PagesAccounted, ChunkBytes, Taken
<1>1. Laid(m, boot)
  BY ChunksAreLaid
<1>2. boot.chunks \in Seq(Nat \X Nat) /\ m.end \in Nat /\ m.ext \in Nat /\ m.npages \in Nat
  BY <1>1 DEF Laid, Chunks, Memories
<1>3. free \in Seq(Nat) /\ Lists(m, boot.nextfree, free, m.npages)
  BY PagesAreListed
<1> HIDE DEF boot, free
<1>4. DOMAIN boot.chunks \subseteq Nat /\ \A k \in DOMAIN boot.chunks : boot.chunks[k][1] \in Nat /\ boot.chunks[k][2] \in Nat
  <2>1. boot.chunks \in [1 .. Len(boot.chunks) -> Nat \X Nat] /\ DOMAIN boot.chunks = 1 .. Len(boot.chunks)
    BY <1>2
  <2>2. \A k \in DOMAIN boot.chunks : boot.chunks[k] \in Nat \X Nat
    BY <2>1
  <2> QED
    BY <1>2, <2>1, <2>2, SMTT(30)
<1>5. ASSUME NEW j \in DOMAIN boot.chunks, NEW k \in DOMAIN boot.chunks, j # k
      PROVE  ChunkBytes(boot.chunks[j]) \cap ChunkBytes(boot.chunks[k]) = {}
  <2>1. \A x, y \in DOMAIN boot.chunks : x < y => boot.chunks[x][1] + boot.chunks[x][2] <= boot.chunks[y][1]
    BY <1>1 DEF Laid
  <2>2. j < k \/ k < j
    BY <1>4, <1>5
  <2>3. \A x, y, z, w \in Nat : x + y <= z => (x .. x + y - 1) \cap (z .. z + w - 1) = {}
    OBVIOUS
  <2>4. CASE j < k
    BY <1>4, <2>1, <2>3, <2>4 DEF ChunkBytes
  <2>5. CASE k < j
    <3>1. ChunkBytes(boot.chunks[k]) \cap ChunkBytes(boot.chunks[j]) = {}
      BY <1>4, <2>1, <2>3, <2>5 DEF ChunkBytes
    <3> QED
      BY <3>1
  <2> QED
    BY <2>2, <2>4, <2>5
<1>6. ASSUME NEW k \in DOMAIN boot.chunks
      PROVE  boot.chunks[k][1] % PGSIZE = 0 /\ ChunkBytes(boot.chunks[k]) \cap 0 .. m.end - 1 = {}
  <2>1. PICK p \in Nat : boot.chunks[k][1] = PGSIZE * p
    BY <1>1 DEF Laid
  <2>2. m.end <= boot.chunks[k][1]
    BY <1>1 DEF Laid
  <2>3. (PGSIZE * p) % PGSIZE = 0
    BY ModOfMultiple
  <2>4. ChunkBytes(boot.chunks[k]) \cap 0 .. m.end - 1 = {}
    <3>1. \A x, y, e \in Nat : e <= x => (x .. x + y - 1) \cap (0 .. e - 1) = {}
      OBVIOUS
    <3> QED
      BY <1>2, <1>4, <2>2, <3>1 DEF ChunkBytes
  <2> QED
    BY <2>1, <2>3, <2>4
<1>7. PICK q \in Nat : /\ boot.nextfree = PGSIZE * q
                       /\ \A i \in Nat : i \in m.ext .. q - 1 <=> \E a \in taken : Start!PGNUM(a) = i
  BY <1>1 DEF Laid
<1>8. Start!PGNUM(boot.nextfree) = q
  <2>1. PGSIZE * q \in Nat
    OBVIOUS
  <2> QED
    BY <1>7, <2>1, DivIs DEF Start!PGNUM
<1> HIDE DEF taken
<1>9. ASSUME NEW i \in Nat
      PROVE  (\E k \in DOMAIN free : free[k] = i) <=> /\ i \in 1 .. m.npages - 1 /\ i # m.mpentry /\ i \notin m.io .. m.ext - 1
                                                      /\ i \notin {Start!PGNUM(a) : a \in taken}
  <2>1. (\E k \in DOMAIN free : free[k] = i) <=> i < m.npages /\ ~ Start!InUse(m, boot.nextfree, i)
    BY <1>3 DEF Lists
  <2>2. i \in {Start!PGNUM(a) : a \in taken} <=> \E a \in taken : Start!PGNUM(a) = i
    OBVIOUS
  <2>3. Start!InUse(m, boot.nextfree, i) <=> i = 0 \/ i = m.mpentry \/ i \in m.io .. m.ext - 1 \/ i \in m.ext .. q - 1
    BY <1>8 DEF Start!InUse
  <2>4. i \in 1 .. m.npages - 1 <=> i < m.npages /\ i # 0
    BY <1>2
  <2> QED
    BY <1>7, <2>1, <2>2, <2>3, <2>4, Zenon
<1>10. Start!ToSet(free) = {i \in 1 .. m.npages - 1 : /\ i # m.mpentry /\ i \notin m.io .. m.ext - 1
                                                     /\ i \notin {Start!PGNUM(a) : a \in taken}}
  <2>1. \A i : i \in Start!ToSet(free) <=> \E k \in DOMAIN free : free[k] = i
    BY DEF Start!ToSet
  <2>2. \A k \in DOMAIN free : free[k] \in Nat
    BY <1>3
  <2>3. \A i \in 1 .. m.npages - 1 : i \in Nat
    BY <1>2
  <2> QED
    BY <1>9, <2>1, <2>2, <2>3, ZenonT(40)
<1>11. \A j, k \in DOMAIN free : free[j] = free[k] => j = k
  BY <1>3 DEF Lists
<1> QED
  BY <1>5, <1>6, <1>10, <1>11

-----------------------------------------------------------------------------
(* load_icode().                                                           *)

\* Program headers as ELF has them, in an address space they do not wrap, and
\* what memory may hold.
Headers(Letters) == {s \in [load : BOOLEAN, va : Nat, memsz : Nat, file : Seq(Letters)] :
                     Len(s.file) <= s.memsz /\ s.va + s.memsz <= Start!Width - PGSIZE}
Images(Letters) == UNION {[D -> Letters \cup {"0", Start!Junk}] : D \in SUBSET (0 .. Start!Width - 1)}

PagesIn(s) == Start!PagesOf(s.va, s.memsz)
\* f holds the bytes of s, and zeros behind them.
Holds(f, s) == \A n \in 1 .. s.memsz : f[s.va + n - 1] = IF n <= Len(s.file) THEN s.file[n] ELSE "0"

LEMMA RegionEnds ==
    ASSUME PGSIZE \in Nat \ {0}, PAGES \in Nat, NEW va \in Nat, NEW len \in Nat, va + len <= Start!Width - PGSIZE
    PROVE  \E q \in Nat : /\ Start!PagesOf(va, len) = Start!PGNUM(va) .. q - 1 /\ PGSIZE * q \in Nat
                          /\ va + len <= PGSIZE * q /\ PGSIZE * q < va + len + PGSIZE
<1>1. Start!Width \in Nat
  BY DEF Start!Width
<1>2. PICK q \in Nat : /\ Start!UP(va + len) = PGSIZE * q /\ PGSIZE * q \in Nat
                       /\ va + len <= PGSIZE * q /\ PGSIZE * q < va + len + PGSIZE
  <2>1. va + len \in Nat
    OBVIOUS
  <2> QED
    BY <2>1, Rounded
<1>3. Start!ROUNDUP(va + len) = PGSIZE * q
  <2>1. (va + len + PGSIZE - 1) % Start!Width = va + len + PGSIZE - 1
    <3>1. \A x, w \in Nat : x < w => x % w = x
      OBVIOUS
    <3>2. va + len + PGSIZE - 1 \in Nat /\ va + len + PGSIZE - 1 < Start!Width
      BY <1>1
    <3> QED
      BY <1>1, <3>1, <3>2
  <2> QED
    BY <1>2, <2>1 DEF Start!ROUNDUP, Start!ROUNDDOWN, Start!UP
<1>4. Start!PGNUM(PGSIZE * q) = q
  BY <1>2, DivIs DEF Start!PGNUM
<1> QED
  BY <1>2, <1>3, <1>4 DEF Start!PagesOf

\* Each byte of a range is on one of its pages, and each page has a byte.
LEMMA RegionPages ==
    ASSUME PGSIZE \in Nat \ {0}, PAGES \in Nat, NEW va \in Nat, NEW len \in Nat, va + len <= Start!Width - PGSIZE
    PROVE  /\ \A a \in va .. va + len - 1 : a \in 0 .. Start!Width - 1 /\ Start!PGNUM(a) \in Start!PagesOf(va, len)
           /\ \A p \in Start!PagesOf(va, len) : \E a \in 0 .. Start!Width - 1 : Start!PGNUM(a) = p
<1>1. Start!Width \in Nat
  BY DEF Start!Width
<1>2. PICK q \in Nat : /\ Start!PagesOf(va, len) = Start!PGNUM(va) .. q - 1 /\ PGSIZE * q \in Nat
                       /\ va + len <= PGSIZE * q /\ PGSIZE * q < va + len + PGSIZE
  BY RegionEnds
<1>3. ASSUME NEW a \in va .. va + len - 1 PROVE a \in 0 .. Start!Width - 1 /\ Start!PGNUM(a) \in Start!PagesOf(va, len)
  <2>1. a \in 0 .. Start!Width - 1 /\ len \in Nat \ {0}
    BY <1>1
  <2>2. Start!PGNUM(a) \in Start!PGNUM(va) .. q - 1
    BY <1>2, <2>1, PagesTouched
  <2> QED
    BY <1>2, <2>1, <2>2
<1>4. ASSUME NEW p \in Start!PagesOf(va, len) PROVE \E a \in 0 .. Start!Width - 1 : Start!PGNUM(a) = p
  <2>1. Start!PGNUM(va) \in Nat
    BY DivBounds DEF Start!PGNUM
  <2>2. p \in Nat /\ p < q
    BY <1>2, <2>1
  <2>3. PGSIZE * p + PGSIZE <= PGSIZE * q /\ PGSIZE * p \in Nat
    BY <2>2, TimesGrows
  <2>4. PGSIZE * p \in 0 .. Start!Width - 1
    <3> DEFINE x == PGSIZE * p
               y == PGSIZE * q
    <3>1. x \in Nat /\ y \in Nat /\ x + PGSIZE <= y /\ y < va + len + PGSIZE
      BY <1>2, <2>3
    <3> HIDE DEF x, y
    <3>2. x \in 0 .. Start!Width - 1
      BY <1>1, <3>1
    <3> QED
      BY <3>2 DEF x
  <2>5. Start!PGNUM(PGSIZE * p) = p
    BY <2>2, <2>3, DivIs DEF Start!PGNUM
  <2> QED
    BY <2>4, <2>5
<1> QED
  BY <1>3, <1>4

LEMMA StackPage ==
    ASSUME PGSIZE \in Nat \ {0}, PAGES \in Nat, NEW t \in Nat \ {0}, USTACKTOP = PGSIZE * t, USTACKTOP <= Start!Width - PGSIZE
    PROVE  /\ Start!PGNUM(USTACKTOP) = t /\ Start!PagesOf(USTACKTOP - PGSIZE, PGSIZE) = {t - 1}
           /\ \E a \in 0 .. Start!Width - 1 : Start!PGNUM(a) = t - 1
<1> DEFINE va == USTACKTOP - PGSIZE
<1>1. USTACKTOP \in Nat /\ va \in Nat /\ va = PGSIZE * (t - 1) /\ va + PGSIZE = USTACKTOP /\ t - 1 \in Nat
  OBVIOUS
<1>2. Start!PGNUM(USTACKTOP) = t /\ Start!PGNUM(va) = t - 1
  <2>1. \A a, q \in Nat : PGSIZE * q = a => a \div PGSIZE = q
    BY DivIs
  <2> QED
    BY <1>1, <2>1 DEF Start!PGNUM
<1>3. va + PGSIZE <= Start!Width - PGSIZE
  BY <1>1
<1> HIDE DEF va
<1>4. PICK q \in Nat : /\ Start!PagesOf(va, PGSIZE) = Start!PGNUM(va) .. q - 1 /\ PGSIZE * q \in Nat
                       /\ va + PGSIZE <= PGSIZE * q /\ PGSIZE * q < va + PGSIZE + PGSIZE
  BY <1>1, <1>3, RegionEnds
<1>5. q = t
  <2>1. q < t => PGSIZE * q + PGSIZE <= PGSIZE * t
    BY TimesGrows
  <2>2. t < q => PGSIZE * t + PGSIZE <= PGSIZE * q
    BY TimesGrows
  <2> DEFINE x == PGSIZE * q
  <2>3. x \in Nat /\ USTACKTOP <= x /\ x < USTACKTOP + PGSIZE /\ (q < t => x + PGSIZE <= USTACKTOP) /\ (t < q => USTACKTOP + PGSIZE <= x)
    BY <1>1, <1>4, <2>1, <2>2
  <2> HIDE DEF x
  <2> QED
    BY <1>1, <2>3
<1>6. Start!PagesOf(va, PGSIZE) = {t - 1}
  BY <1>1, <1>2, <1>4, <1>5
<1>7. \E a \in 0 .. Start!Width - 1 : Start!PGNUM(a) = t - 1
  BY <1>1, <1>3, <1>6, RegionPages
<1> QED
  BY <1>2, <1>6, <1>7 DEF va

LEMMA RegionAllocated ==
    ASSUME NEW Letters, NEW f \in Images(Letters), NEW va, NEW len, NEW g, g = Start!region_alloc(f, va, len)
    PROVE  /\ g \in Images(Letters)
           /\ \A a : a \in DOMAIN g <=> a \in DOMAIN f \/ (a \in 0 .. Start!Width - 1 /\ Start!PGNUM(a) \in Start!PagesOf(va, len))
           /\ \A a \in DOMAIN f : Start!PGNUM(a) \notin Start!PagesOf(va, len) => g[a] = f[a]
<1> DEFINE Values == Letters \cup {"0", Start!Junk}
           added == {b \in 0 .. Start!Width - 1 : Start!PGNUM(b) \in Start!PagesOf(va, len)}
           D == DOMAIN f \cup added
<1>1. DOMAIN f \subseteq 0 .. Start!Width - 1 /\ \A a \in DOMAIN f : f[a] \in Values
  BY DEF Images
<1>2. D \subseteq 0 .. Start!Width - 1
  BY <1>1
<1>3. g = [a \in D |-> IF Start!PGNUM(a) \in Start!PagesOf(va, len) THEN Start!Junk ELSE f[a]]
  BY DEF Start!region_alloc
<1>4. ASSUME NEW a \in D PROVE (IF Start!PGNUM(a) \in Start!PagesOf(va, len) THEN Start!Junk ELSE f[a]) \in Values
  BY <1>1
<1> HIDE DEF D, Values
<1>5. DOMAIN g = D /\ g \in [D -> Values] /\ \A a \in D : g[a] = IF Start!PGNUM(a) \in Start!PagesOf(va, len) THEN Start!Junk ELSE f[a]
  BY <1>3, <1>4
<1>6. g \in Images(Letters)
  BY <1>2, <1>5 DEF Images, Values
<1> QED
  BY <1>5, <1>6 DEF D

LEMMA SegmentLoaded ==
    ASSUME PGSIZE \in Nat \ {0}, PAGES \in Nat, NEW Letters, NEW f \in Images(Letters), NEW s \in Headers(Letters), s.load,
           NEW g, g = Start!Loaded(f, s)
    PROVE  /\ g \in Images(Letters)
           /\ \A a : a \in DOMAIN g <=> a \in DOMAIN f \/ (a \in 0 .. Start!Width - 1 /\ Start!PGNUM(a) \in PagesIn(s))
           /\ \A a \in DOMAIN f : Start!PGNUM(a) \notin PagesIn(s) => g[a] = f[a]
           /\ Holds(g, s)
<1> DEFINE h == Start!region_alloc(f, s.va, s.memsz)
           Values == Letters \cup {"0", Start!Junk}
           l == Len(s.file)
           V(a) == CASE a \in s.va .. s.va + l - 1 -> s.file[a - s.va + 1]
                     [] a \in s.va + l .. s.va + s.memsz - 1 -> "0"
                     [] OTHER -> h[a]
<1>1. /\ s.va \in Nat /\ s.memsz \in Nat /\ s.file \in Seq(Letters) /\ l \in Nat /\ l <= s.memsz
      /\ s.va + s.memsz <= Start!Width - PGSIZE
  BY DEF Headers
<1>2. /\ h \in Images(Letters)
      /\ \A a : a \in DOMAIN h <=> a \in DOMAIN f \/ (a \in 0 .. Start!Width - 1 /\ Start!PGNUM(a) \in PagesIn(s))
      /\ \A a \in DOMAIN f : Start!PGNUM(a) \notin PagesIn(s) => h[a] = f[a]
  BY RegionAllocated DEF PagesIn
<1>3. g = [a \in DOMAIN h |-> V(a)]
  BY DEF Start!Loaded
<1>4. \A a \in s.va .. s.va + s.memsz - 1 : a \in 0 .. Start!Width - 1 /\ Start!PGNUM(a) \in PagesIn(s)
  BY <1>1, RegionPages DEF PagesIn
<1> HIDE DEF h
<1>5. \A a \in DOMAIN h : h[a] \in Values
  BY <1>2 DEF Images
<1>6. ASSUME NEW n \in 1 .. s.memsz PROVE V(s.va + n - 1) = IF n <= l THEN s.file[n] ELSE "0"
  <2>1. /\ s.va + n - 1 \in s.va .. s.va + l - 1 <=> n <= l
        /\ s.va + n - 1 \in s.va + l .. s.va + s.memsz - 1 <=> ~ (n <= l)
        /\ (s.va + n - 1) - s.va + 1 = n
    <3>1. \A va, x, z \in Nat : n <= z => /\ va + n - 1 \in va .. va + x - 1 <=> n <= x
                                         /\ va + n - 1 \in va + x .. va + z - 1 <=> ~ (n <= x)
                                         /\ (va + n - 1) - va + 1 = n
      OBVIOUS
    <3>2. n <= s.memsz
      BY <1>1
    <3> HIDE DEF l, V
    <3> QED
      BY <1>1, <3>1, <3>2, SMTT(30)
  <2> HIDE DEF l
  <2>2. CASE n <= l
    BY <2>1, <2>2
  <2>3. CASE ~ (n <= l)
    BY <2>1, <2>3
  <2> QED
    BY <2>2, <2>3
<1>7. ASSUME NEW a, a \notin s.va .. s.va + s.memsz - 1 PROVE V(a) = h[a]
  <2>1. a \notin s.va .. s.va + l - 1 /\ a \notin s.va + l .. s.va + s.memsz - 1
    BY <1>1, <1>7, SMTT(30)
  <2> HIDE DEF l
  <2> QED
    BY <2>1
<1>8. ASSUME NEW a \in DOMAIN h PROVE V(a) \in Values
  <2>1. CASE a \in s.va .. s.va + s.memsz - 1
    <3>1. a - s.va + 1 \in 1 .. s.memsz /\ s.va + (a - s.va + 1) - 1 = a
      BY <1>1, <2>1, SMTT(30)
    <3>2. V(a) = IF a - s.va + 1 <= l THEN s.file[a - s.va + 1] ELSE "0"
      <4> HIDE DEF V, l
      <4> QED
        BY <1>6, <3>1
    <3>3. a - s.va + 1 <= l => s.file[a - s.va + 1] \in Letters
      BY <1>1, <3>1
    <3> HIDE DEF V, l
    <3> QED
      BY <3>2, <3>3
  <2>2. CASE a \notin s.va .. s.va + s.memsz - 1
    <3> HIDE DEF V
    <3> QED
      BY <1>5, <1>7, <2>2
  <2> QED
    BY <2>1, <2>2
<1> HIDE DEF V, Values
<1>9. DOMAIN g = DOMAIN h /\ g \in [DOMAIN h -> Values] /\ \A a \in DOMAIN h : g[a] = V(a)
  BY <1>3, <1>8
<1>10. g \in Images(Letters)
  <2>1. DOMAIN h \subseteq 0 .. Start!Width - 1
    BY <1>2 DEF Images
  <2> QED
    BY <1>9, <2>1 DEF Images, Values
<1>11. \A a \in DOMAIN f : Start!PGNUM(a) \notin PagesIn(s) => g[a] = f[a]
  BY <1>2, <1>4, <1>7, <1>9
<1>12. Holds(g, s)
  <2>1. \A n \in 1 .. s.memsz : s.va + n - 1 \in s.va .. s.va + s.memsz - 1
    BY <1>1
  <2>2. \A n \in 1 .. s.memsz : s.va + n - 1 \in DOMAIN h
    BY <1>2, <1>4, <2>1
  <2> QED
    BY <1>6, <1>9, <2>2 DEF Holds, l
<1> QED
  BY <1>2, <1>9, <1>10, <1>11, <1>12

\* The loop over the program headers.
LEMMA LoadIcodeLoop ==
    ASSUME PGSIZE \in Nat \ {0}, PAGES \in Nat, NEW Letters, NEW segments \in Seq(Headers(Letters))
    PROVE  \E f \in [0 .. Len(segments) -> Images(Letters)] :
              /\ f[0] = <<>>
              /\ \A k \in 1 .. Len(segments) : f[k] = Start!Loaded(f[k - 1], segments[k])
              /\ Start!load_icode(segments) = Start!region_alloc(f[Len(segments)], USTACKTOP - PGSIZE, PGSIZE)
<1> DEFINE n == Len(segments)
           S == Images(Letters)
           Loops(f) == f = [k \in 0 .. n |-> IF k = 0 THEN <<>> ELSE Start!Loaded(f[k - 1], segments[k])]
           G == [x \in (1 .. n) \X S |-> Start!Loaded(x[2], segments[x[1]])]
           image == CHOOSE f : Loops(f)
<1>1. n \in Nat /\ <<>> \in S /\ \A k \in 1 .. n : segments[k] \in Headers(Letters)
  <2>1. <<>> \in [{} -> Letters \cup {"0", Start!Junk}] /\ {} \subseteq 0 .. Start!Width - 1
    OBVIOUS
  <2>2. <<>> \in S
    BY <2>1 DEF Images
  <2> QED
    BY <2>2
<1>2. ASSUME NEW f \in S, NEW s \in Headers(Letters) PROVE Start!Loaded(f, s) \in S
  <2>1. CASE s.load
    BY <2>1, SegmentLoaded
  <2>2. CASE ~ s.load
    BY <2>2 DEF Start!Loaded
  <2> QED
    BY <2>1, <2>2
<1> HIDE DEF S
<1>3. PICK g : Follows(g, S, n, <<>>, G)
  <2>1. G \in [(1 .. n) \X S -> S]
    BY <1>1, <1>2
  <2> HIDE DEF n, G
  <2> QED
    BY <1>1, <2>1, Recursion, Zenon
<1>4. ASSUME NEW k \in 1 .. n PROVE g[k] = Start!Loaded(g[k - 1], segments[k])
  <2>1. k - 1 \in 0 .. n
    BY <1>1
  <2>2. g[k] = G[<<k, g[k - 1]>>] /\ g[k - 1] \in S
    <3> HIDE DEF n, G
    <3> QED
      BY <1>3, <2>1 DEF Follows
  <2>3. <<k, g[k - 1]>> \in (1 .. n) \X S
    BY <2>2
  <2> QED
    BY <2>2, <2>3
<1>5. Loops(g)
  <2>1. \A k \in 0 .. n : g[k] = IF k = 0 THEN <<>> ELSE Start!Loaded(g[k - 1], segments[k])
    <3>1. \A k \in 0 .. n : k = 0 \/ k \in 1 .. n
      OBVIOUS
    <3> HIDE DEF n
    <3> QED
      BY <1>3, <1>4, <3>1 DEF Follows
  <2>2. g = [k \in 0 .. n |-> g[k]]
    BY <1>3 DEF Follows
  <2> HIDE DEF n
  <2> QED
    BY <2>1, <2>2
<1>6. Loops(image)
  <2> HIDE DEF Loops
  <2> QED
    BY <1>5
<1>7. Start!load_icode(segments) = Start!region_alloc(image[n], USTACKTOP - PGSIZE, PGSIZE)
  BY DEF Start!load_icode
<1> HIDE DEF image
<1>8. \A k \in 0 .. n : image[k] = IF k = 0 THEN <<>> ELSE Start!Loaded(image[k - 1], segments[k])
  <2> HIDE DEF n
  <2> QED
    BY <1>6
<1>9. image[0] = <<>> /\ \A k \in 1 .. n : image[k] = Start!Loaded(image[k - 1], segments[k])
  <2>1. 0 \in 0 .. n /\ \A k \in 1 .. n : k \in 0 .. n /\ k # 0
    BY <1>1
  <2> HIDE DEF n
  <2> QED
    BY <1>8, <2>1
<1>10. image = [k \in 0 .. n |-> image[k]]
  <2> HIDE DEF n
  <2> QED
    BY <1>6
<1> HIDE DEF n
<1>11. image \in [0 .. n -> S]
  <2>1. image[0] \in S /\ \A k \in 1 .. n : image[k - 1] \in S => image[k] \in S
    BY <1>1, <1>2, <1>9
  <2> QED
    BY <1>1, <1>10, <2>1, RecursionStays
<1> QED
  BY <1>7, <1>9, <1>11 DEF n, S

\* What is in memory after k program headers.
InMemory(segments, f, k) ==
    /\ \A a : a \in DOMAIN f <=> /\ a \in 0 .. Start!Width - 1
                                 /\ \E j \in DOMAIN segments : j <= k /\ segments[j].load /\ Start!PGNUM(a) \in PagesIn(segments[j])
    /\ \A j \in DOMAIN segments : j <= k /\ segments[j].load => Holds(f, segments[j])

LEMMA NextInMemory ==
    ASSUME PGSIZE \in Nat \ {0}, PAGES \in Nat, NEW Letters, NEW segments \in Seq(Headers(Letters)),
           \A i, j \in DOMAIN segments : i # j /\ segments[i].load /\ segments[j].load => PagesIn(segments[i]) \cap PagesIn(segments[j]) = {},
           NEW k \in Nat, k + 1 \in DOMAIN segments, NEW f \in Images(Letters), InMemory(segments, f, k)
    PROVE  InMemory(segments, Start!Loaded(f, segments[k + 1]), k + 1)
<1> DEFINE s == segments[k + 1]
           g == Start!Loaded(f, s)
<1>1. \A j \in DOMAIN segments : j \in Nat /\ segments[j] \in Headers(Letters) /\ (j <= k + 1 <=> j <= k \/ j = k + 1)
  OBVIOUS
<1>2. s \in Headers(Letters)
  BY <1>1
<1> HIDE DEF g
<1>3. CASE ~ s.load
  <2>1. g = f
    BY <1>3 DEF Start!Loaded, g
  <2>2. \A j \in DOMAIN segments : j <= k + 1 /\ segments[j].load <=> j <= k /\ segments[j].load
    BY <1>1, <1>3
  <2> QED
    BY <2>1, <2>2 DEF InMemory, g
<1>4. CASE s.load
  <2>1. /\ g \in Images(Letters)
        /\ \A a : a \in DOMAIN g <=> a \in DOMAIN f \/ (a \in 0 .. Start!Width - 1 /\ Start!PGNUM(a) \in PagesIn(s))
        /\ \A a \in DOMAIN f : Start!PGNUM(a) \notin PagesIn(s) => g[a] = f[a]
        /\ Holds(g, s)
    BY <1>2, <1>4, SegmentLoaded DEF g
  <2>2. ASSUME NEW a
        PROVE  a \in DOMAIN g <=> /\ a \in 0 .. Start!Width - 1
                                  /\ \E j \in DOMAIN segments : j <= k + 1 /\ segments[j].load /\ Start!PGNUM(a) \in PagesIn(segments[j])
    <3> DEFINE On(j) == segments[j].load /\ Start!PGNUM(a) \in PagesIn(segments[j])
    <3>1. a \in DOMAIN f <=> a \in 0 .. Start!Width - 1 /\ \E j \in DOMAIN segments : j <= k /\ On(j)
      BY DEF InMemory
    <3>2. On(k + 1) <=> Start!PGNUM(a) \in PagesIn(s)
      BY <1>4
    <3> HIDE DEF On, s
    <3>3. (\E j \in DOMAIN segments : j <= k + 1 /\ On(j)) <=> On(k + 1) \/ \E j \in DOMAIN segments : j <= k /\ On(j)
      BY <1>1, Zenon
    <3>4. a \in DOMAIN g <=> a \in 0 .. Start!Width - 1 /\ \E j \in DOMAIN segments : j <= k + 1 /\ On(j)
      BY <2>1, <3>1, <3>2, <3>3, Zenon
    <3> QED
      BY <3>4, Zenon DEF On
  <2>3. ASSUME NEW j \in DOMAIN segments, j <= k, segments[j].load PROVE Holds(g, segments[j])
    <3> DEFINE t == segments[j]
    <3>1. PagesIn(t) \cap PagesIn(s) = {}
      BY <1>1, <1>4, <2>3
    <3>2. Holds(f, t)
      BY <2>3 DEF InMemory
    <3>3. t \in Headers(Letters)
      BY <1>1
    <3>4. t.va \in Nat /\ t.memsz \in Nat /\ t.va + t.memsz <= Start!Width - PGSIZE
      BY <3>3 DEF Headers
    <3>5. \A a \in t.va .. t.va + t.memsz - 1 : a \in 0 .. Start!Width - 1 /\ Start!PGNUM(a) \in PagesIn(t)
      BY <3>4, RegionPages DEF PagesIn
    <3>6. \A n \in 1 .. t.memsz : t.va + n - 1 \in t.va .. t.va + t.memsz - 1
      BY <3>4, SMTT(30)
    <3>7. \A a \in t.va .. t.va + t.memsz - 1 : a \in DOMAIN f
      BY <2>3, <3>5 DEF InMemory
    <3>8. \A a \in t.va .. t.va + t.memsz - 1 : g[a] = f[a]
      BY <2>1, <3>1, <3>5, <3>7
    <3> HIDE DEF t, s
    <3>9. Holds(g, t)
      BY <3>2, <3>6, <3>8 DEF Holds
    <3> QED
      BY <3>9 DEF t
  <2> HIDE DEF s
  <2>4. \A j \in DOMAIN segments : j <= k + 1 /\ segments[j].load => Holds(g, segments[j])
    BY <1>1, <2>1, <2>3 DEF s
  <2> QED
    BY <2>2, <2>4 DEF InMemory, g, s
<1> QED
  BY <1>3, <1>4

\* load_icode() gives a program of any number of segments the bytes of its
\* file, zeros behind them, and no pages but theirs and the stack's.
THEOREM ProgramsAreLoaded ==
    ASSUME PGSIZE \in Nat \ {0}, PAGES \in Nat, NEW t \in Nat \ {0}, USTACKTOP = PGSIZE * t, USTACKTOP <= Start!Width - PGSIZE,
           NEW Letters, NEW segments \in Seq(Headers(Letters))
    PROVE  Start!ProgramLoaded(segments)
<1> DEFINE n == Len(segments)
           loaded == {segments[k] : k \in {j \in DOMAIN segments : segments[j].load}}
           image == Start!load_icode(segments)
<1> SUFFICES ASSUME /\ \A s \in loaded : t - 1 \notin PagesIn(s)
                    /\ \A j, k \in DOMAIN segments :
                          j # k /\ {segments[j], segments[k]} \subseteq loaded => PagesIn(segments[j]) \cap PagesIn(segments[k]) = {}
             PROVE  /\ {Start!PGNUM(a) : a \in DOMAIN image} = {t - 1} \cup UNION {PagesIn(s) : s \in loaded}
                    /\ \A s \in loaded : Holds(image, s)
  <2>1. Start!PGNUM(USTACKTOP) = t
    BY StackPage
  <2> QED
    BY <2>1 DEF Start!ProgramLoaded, PagesIn, Holds
<1>1. n \in Nat /\ DOMAIN segments = 1 .. n /\ \A k \in 1 .. n : segments[k] \in Headers(Letters)
  OBVIOUS
<1>2. /\ \A j \in DOMAIN segments : segments[j].load => segments[j] \in loaded
      /\ \A s \in loaded : \E j \in DOMAIN segments : s = segments[j] /\ segments[j].load
  OBVIOUS
<1> HIDE DEF loaded
<1>3. \A i, j \in DOMAIN segments : i # j /\ segments[i].load /\ segments[j].load => PagesIn(segments[i]) \cap PagesIn(segments[j]) = {}
  BY <1>2
<1>4. PICK f \in [0 .. n -> Images(Letters)] :
         /\ f[0] = <<>>
         /\ \A k \in 1 .. n : f[k] = Start!Loaded(f[k - 1], segments[k])
         /\ image = Start!region_alloc(f[n], USTACKTOP - PGSIZE, PGSIZE)
  BY LoadIcodeLoop
<1> HIDE DEF n
<1> DEFINE Right == {k \in Nat : k \in 0 .. n => InMemory(segments, f[k], k)}
<1>5. 0 \in Right
  <2>1. \A j \in DOMAIN segments : ~ (j <= 0)
    BY <1>1
  <2> QED
    BY <1>4, <2>1 DEF InMemory
<1>6. ASSUME NEW k \in Nat, k \in Right PROVE k + 1 \in Right
  <2> SUFFICES ASSUME k + 1 \in 0 .. n PROVE InMemory(segments, f[k + 1], k + 1)
    OBVIOUS
  <2>1. k \in 0 .. n /\ k + 1 \in DOMAIN segments /\ (k + 1) - 1 = k
    BY <1>1
  <2>2. f[k] \in Images(Letters) /\ f[k + 1] = Start!Loaded(f[k], segments[k + 1]) /\ InMemory(segments, f[k], k)
    BY <1>1, <1>4, <1>6, <2>1
  <2> QED
    BY <1>3, <2>1, <2>2, NextInMemory
<1> HIDE DEF Right
<1>7. Nat \subseteq Right
  BY <1>5, <1>6, NatInduct
<1>8. n \in 0 .. n
  BY <1>1
<1>9. f[n] \in Images(Letters) /\ InMemory(segments, f[n], n)
  BY <1>1, <1>4, <1>7, <1>8 DEF Right
<1>10. /\ Start!PagesOf(USTACKTOP - PGSIZE, PGSIZE) = {t - 1}
       /\ \E a \in 0 .. Start!Width - 1 : Start!PGNUM(a) = t - 1
  BY StackPage
<1>11. /\ \A a : a \in DOMAIN image <=> a \in DOMAIN f[n] \/ (a \in 0 .. Start!Width - 1 /\ Start!PGNUM(a) \in {t - 1})
       /\ \A a \in DOMAIN f[n] : Start!PGNUM(a) \notin {t - 1} => image[a] = f[n][a]
  BY <1>4, <1>9, <1>10, RegionAllocated
<1> HIDE DEF image
<1>12. \A j \in DOMAIN segments : j <= n
  BY <1>1
<1>13. ASSUME NEW s \in loaded
       PROVE  /\ Holds(f[n], s)
              /\ \A a \in s.va .. s.va + s.memsz - 1 : a \in DOMAIN f[n] /\ Start!PGNUM(a) \in PagesIn(s)
              /\ \A p \in PagesIn(s) : \E a \in DOMAIN f[n] : Start!PGNUM(a) = p
              /\ s.va \in Nat /\ s.memsz \in Nat
  <2>1. PICK j \in DOMAIN segments : s = segments[j] /\ segments[j].load
    BY <1>2
  <2>2. s \in Headers(Letters) /\ j <= n
    BY <1>1, <2>1
  <2>3. s.va \in Nat /\ s.memsz \in Nat /\ s.va + s.memsz <= Start!Width - PGSIZE
    BY <2>2 DEF Headers
  <2>4. /\ \A a \in s.va .. s.va + s.memsz - 1 : a \in 0 .. Start!Width - 1 /\ Start!PGNUM(a) \in PagesIn(s)
        /\ \A p \in PagesIn(s) : \E a \in 0 .. Start!Width - 1 : Start!PGNUM(a) = p
    BY <2>3, RegionPages DEF PagesIn
  <2>5. \A a \in 0 .. Start!Width - 1 : Start!PGNUM(a) \in PagesIn(s) => a \in DOMAIN f[n]
    BY <1>9, <2>1, <2>2 DEF InMemory
  <2>6. Holds(f[n], s)
    BY <1>9, <2>1, <2>2 DEF InMemory
  <2> QED
    BY <2>3, <2>4, <2>5, <2>6
<1>14. ASSUME NEW s \in loaded PROVE Holds(image, s)
  <2>1. \A m \in 1 .. s.memsz : s.va + m - 1 \in s.va .. s.va + s.memsz - 1
    BY <1>13, SMTT(30)
  <2>2. \A a \in s.va .. s.va + s.memsz - 1 : image[a] = f[n][a]
    BY <1>11, <1>13
  <2> QED
    BY <1>13, <2>1, <2>2 DEF Holds
<1>15. {Start!PGNUM(a) : a \in DOMAIN image} = {t - 1} \cup UNION {PagesIn(s) : s \in loaded}
  <2>1. ASSUME NEW a \in DOMAIN image PROVE Start!PGNUM(a) \in {t - 1} \cup UNION {PagesIn(s) : s \in loaded}
    <3>1. CASE a \in DOMAIN f[n]
      <4>1. PICK j \in DOMAIN segments : segments[j].load /\ Start!PGNUM(a) \in PagesIn(segments[j])
        BY <1>9, <3>1 DEF InMemory
      <4> QED
        BY <1>2, <4>1
    <3> QED
      BY <1>11, <3>1
  <2>2. \E a \in DOMAIN image : Start!PGNUM(a) = t - 1
    BY <1>10, <1>11
  <2>3. ASSUME NEW s \in loaded, NEW p \in PagesIn(s) PROVE \E a \in DOMAIN image : Start!PGNUM(a) = p
    BY <1>11, <1>13
  <2> QED
    BY <2>1, <2>2, <2>3
<1> QED
  BY <1>14, <1>15

-----------------------------------------------------------------------------
(* The layout of memory.                                                   *)

LEMMA Layout ==
    /\ PTSIZE \in Nat \ {0} /\ NCPU \in Nat /\ PTSIZE >= 17
    /\ UENVS = PTSIZE /\ UPAGES = 2 * PTSIZE /\ UVPT = 3 * PTSIZE /\ MMIOBASE = 4 * PTSIZE /\ MMIOLIM = 5 * PTSIZE
    /\ KSTACKTOP = 6 * PTSIZE /\ KERNBASE = 6 * PTSIZE /\ npages = 2 * PTSIZE
    /\ Vas = 0 .. 8 * PTSIZE - 1
BY BootCpuAssumption, SizeAssumption DEF UENVS, UPAGES, UVPT, MMIOBASE, MMIOLIM, KSTACKTOP, KERNBASE, npages, Vas

LEMMA PdxIs ==
    ASSUME NEW n \in 0 .. 7, NEW a \in Nat, n * PTSIZE <= a, a < n * PTSIZE + PTSIZE
    PROVE  PDX(a) = n
<1>1. PTSIZE * n = n * PTSIZE /\ PTSIZE * n \in Nat
  BY Layout
<1> QED
  BY Layout, <1>1, DivIs DEF PDX

LEMMA PdxOf ==
    ASSUME NEW a \in Vas
    PROVE  /\ PDX(a) \in 0 .. 7
           /\ \A n \in 0 .. 7 : PDX(a) = n <=> n * PTSIZE <= a /\ a < n * PTSIZE + PTSIZE
<1>1. a \in Nat /\ a < 8 * PTSIZE
  BY Layout
<1>2. PDX(a) \in Nat /\ PTSIZE * PDX(a) <= a /\ a < PTSIZE * PDX(a) + PTSIZE
  BY <1>1, Layout, DivBounds DEF PDX
<1>3. PDX(a) \in 0 .. 7
  <2> DEFINE d == PDX(a)
  <2>1. d \in Nat /\ PTSIZE * d <= a
    BY <1>2
  <2> HIDE DEF d
  <2>2. 7 < d => PTSIZE * 7 + PTSIZE <= PTSIZE * d
    BY <2>1, Layout, TimesGrows
  <2>3. PTSIZE * d \in Nat /\ PTSIZE * 7 = 7 * PTSIZE
    BY <2>1, Layout
  <2>4. ~ (7 < d)
    BY <1>1, <2>1, <2>2, <2>3, Layout
  <2>5. d \in 0 .. 7
    BY <2>1, <2>4
  <2> QED
    BY <2>5 DEF d
<1>4. ASSUME NEW n \in 0 .. 7, PDX(a) = n PROVE n * PTSIZE <= a /\ a < n * PTSIZE + PTSIZE
  <2>1. PTSIZE * n = n * PTSIZE
    BY Layout
  <2> QED
    BY <1>2, <1>4, <2>1
<1> QED
  BY <1>1, <1>3, <1>4, PdxIs

LEMMA PdxsAre == Pdxs = 0 .. 7
<1>1. \A n \in 0 .. 7 : n * PTSIZE \in Vas /\ PDX(n * PTSIZE) = n
  <2> SUFFICES ASSUME NEW n \in 0 .. 7 PROVE n * PTSIZE \in Vas /\ PDX(n * PTSIZE) = n
    OBVIOUS
  <2>1. n * PTSIZE \in Nat /\ n * PTSIZE <= 7 * PTSIZE
    BY Layout
  <2>2. n * PTSIZE \in Vas
    BY <2>1, Layout
  <2> QED
    BY <2>1, <2>2, PdxIs, Layout
<1> QED
  BY <1>1, PdxOf DEF Pdxs

-----------------------------------------------------------------------------
(* The free list.                                                          *)

\* f[n] is what the first n of a list have of S.
Keeps(f, list, S, X) ==
    /\ f \in [0 .. Len(list) -> Seq(X)]
    /\ f[0] = <<>>
    /\ \A n \in 1 .. Len(list) : f[n] = IF list[n] \in S THEN Append(f[n - 1], list[n]) ELSE f[n - 1]

LEMMA AmongLoop ==
    ASSUME NEW X, NEW list \in Seq(X), NEW S
    PROVE  \E f : Keeps(f, list, S, X) /\ Among(list, S) = f[Len(list)]
<1> DEFINE l == Len(list)
           Z == Seq(X)
           Loops(f) == f = [n \in 0 .. l |-> IF n = 0 THEN <<>> ELSE IF list[n] \in S THEN Append(f[n - 1], list[n]) ELSE f[n - 1]]
           G == [x \in (1 .. l) \X Z |-> IF list[x[1]] \in S THEN Append(x[2], list[x[1]]) ELSE x[2]]
           kept == CHOOSE f : Loops(f)
<1>1. l \in Nat /\ <<>> \in Z /\ \A n \in 1 .. l : list[n] \in X
  OBVIOUS
<1>2. \A s \in Z, x \in X : Append(s, x) \in Z
  OBVIOUS
<1> HIDE DEF l, Z
<1>3. PICK g : Follows(g, Z, l, <<>>, G)
  <2>1. G \in [(1 .. l) \X Z -> Z]
    BY <1>1, <1>2
  <2> HIDE DEF G
  <2> QED
    BY <1>1, <2>1, Recursion, Zenon
<1>4. ASSUME NEW n \in 1 .. l PROVE g[n] = IF list[n] \in S THEN Append(g[n - 1], list[n]) ELSE g[n - 1]
  <2>1. n - 1 \in 0 .. l
    BY <1>1
  <2>2. g[n] = G[<<n, g[n - 1]>>] /\ g[n - 1] \in Z
    <3> HIDE DEF G
    <3> QED
      BY <1>3, <2>1 DEF Follows
  <2>3. <<n, g[n - 1]>> \in (1 .. l) \X Z
    BY <2>2
  <2> QED
    BY <2>2, <2>3
<1>5. Loops(g)
  <2>1. \A n \in 0 .. l : g[n] = IF n = 0 THEN <<>> ELSE IF list[n] \in S THEN Append(g[n - 1], list[n]) ELSE g[n - 1]
    <3>1. \A n \in 0 .. l : n = 0 \/ n \in 1 .. l
      BY <1>1
    <3> QED
      BY <1>3, <1>4, <3>1 DEF Follows
  <2>2. g = [n \in 0 .. l |-> g[n]]
    BY <1>3 DEF Follows
  <2> QED
    BY <2>1, <2>2
<1>6. Loops(kept)
  <2> HIDE DEF Loops
  <2> QED
    BY <1>5
<1>7. Among(list, S) = kept[l]
  BY DEF Among, l
<1> HIDE DEF kept
<1>8. \A n \in 0 .. l : kept[n] = IF n = 0 THEN <<>> ELSE IF list[n] \in S THEN Append(kept[n - 1], list[n]) ELSE kept[n - 1]
  BY <1>6
<1>9. kept[0] = <<>> /\ \A n \in 1 .. l : kept[n] = IF list[n] \in S THEN Append(kept[n - 1], list[n]) ELSE kept[n - 1]
  <2>1. 0 \in 0 .. l /\ \A n \in 1 .. l : n \in 0 .. l /\ n # 0
    BY <1>1
  <2> QED
    BY <1>8, <2>1
<1>10. kept = [n \in 0 .. l |-> kept[n]]
  BY <1>6
<1>11. kept \in [0 .. l -> Z]
  <2>1. kept[0] \in Z /\ \A n \in 1 .. l : kept[n - 1] \in Z => kept[n] \in Z
    BY <1>1, <1>2, <1>9
  <2> QED
    BY <1>1, <1>10, <2>1, RecursionStays
<1>12. Keeps(kept, list, S, X)
  BY <1>9, <1>11 DEF Keeps, l, Z
<1> QED
  BY <1>7, <1>12 DEF l

\* some has what list has of S, and nothing else.
Has(list, p) == \E k \in DOMAIN list : list[k] = p
Kept(some, list, S) == \A p : Has(some, p) <=> Has(list, p) /\ p \in S

LEMMA AmongHolds ==
    ASSUME NEW X, NEW list \in Seq(X), NEW S
    PROVE  Among(list, S) \in Seq(X) /\ Kept(Among(list, S), list, S)
<1> DEFINE l == Len(list)
<1>0. PICK f : Keeps(f, list, S, X) /\ Among(list, S) = f[Len(list)]
  BY AmongLoop, Zenon
<1>1. /\ f \in [0 .. l -> Seq(X)] /\ f[0] = <<>>
      /\ \A n \in 1 .. l : f[n] = IF list[n] \in S THEN Append(f[n - 1], list[n]) ELSE f[n - 1]
      /\ Among(list, S) = f[l]
  BY <1>0 DEF Keeps
<1>2. l \in Nat /\ DOMAIN list = 1 .. l /\ \A j \in 1 .. l : list[j] \in X
  OBVIOUS
<1> HIDE DEF l
<1> DEFINE Fine(n) == \A p : Has(f[n], p) <=> (\E j \in 1 .. n : list[j] = p) /\ p \in S
           Right == {n \in Nat : n \in 0 .. l => Fine(n)}
<1>3. 0 \in Right
  BY <1>1 DEF Has
<1>4. ASSUME NEW n \in Nat, n \in Right PROVE n + 1 \in Right
  <2> SUFFICES ASSUME n + 1 \in 0 .. l PROVE Fine(n + 1)
    OBVIOUS
  <2>1. n \in 0 .. l /\ n + 1 \in 1 .. l /\ (n + 1) - 1 = n /\ 1 .. n + 1 = (1 .. n) \cup {n + 1}
    BY <1>2
  <2> DEFINE s == f[n]
             x == list[n + 1]
  <2>2. s \in Seq(X) /\ x \in X /\ f[n + 1] = IF x \in S THEN Append(s, x) ELSE s
    BY <1>1, <1>2, <2>1
  <2>3. \A p : Has(s, p) <=> (\E j \in 1 .. n : list[j] = p) /\ p \in S
    BY <1>4, <2>1
  <2>4. \A p : (\E j \in 1 .. n + 1 : list[j] = p) <=> (\E j \in 1 .. n : list[j] = p) \/ x = p
    BY <2>1
  <2>5. CASE x \notin S
    <3>1. f[n + 1] = s
      BY <2>2, <2>5
    <3> HIDE DEF s, x
    <3> QED
      BY <2>3, <2>4, <2>5, <3>1, Zenon
  <2>6. CASE x \in S
    <3>1. f[n + 1] = Append(s, x)
      BY <2>2, <2>6
    <3> HIDE DEF s, x
    <3>2. /\ Len(s) \in Nat /\ DOMAIN s = 1 .. Len(s) /\ DOMAIN Append(s, x) = 1 .. Len(s) + 1
          /\ Append(s, x)[Len(s) + 1] = x /\ \A k \in 1 .. Len(s) : Append(s, x)[k] = s[k]
          /\ 1 .. Len(s) + 1 = (1 .. Len(s)) \cup {Len(s) + 1}
      BY <2>2
    <3>3. \A p : Has(Append(s, x), p) <=> Has(s, p) \/ p = x
      BY <3>2 DEF Has
    <3> QED
      BY <2>3, <2>4, <2>6, <3>1, <3>3, ZenonT(40)
  <2> QED
    BY <2>5, <2>6
<1> HIDE DEF Right
<1>5. Nat \subseteq Right
  BY <1>3, <1>4, NatInduct
<1>6. l \in 0 .. l
  BY <1>2
<1>7. Fine(l)
  BY <1>2, <1>5, <1>6 DEF Right
<1>8. Among(list, S) \in Seq(X)
  BY <1>1, <1>6
<1>9. \A p : Has(Among(list, S), p) <=> Has(list, p) /\ p \in S
  <2>1. Among(list, S) = f[l] /\ \A p : Has(list, p) <=> \E j \in 1 .. l : list[j] = p
    BY <1>1, <1>2 DEF Has
  <2> QED
    BY <1>7, <2>1, Zenon
<1> QED
  BY <1>8, <1>9 DEF Kept

\* The list starts with k pages that entry_pgdir maps, and does not end there.
Stocked(list, k) == k < Len(list) /\ \A j \in 1 .. k : list[j] \in 0 .. PTSIZE - 1

LEMMA ListStocked ==
    LowFirst(page_init) \in Seq(0 .. npages - 1) /\ Stocked(LowFirst(page_init), 6)
<1> DEFINE all == [k \in 1 .. npages |-> npages - k]
           notInUse == {p \in 0 .. npages - 1 : ~InUse(p)}
           X == 0 .. npages - 1
           lows == 0 .. PTSIZE - 1
           highs == PTSIZE .. npages - 1
           low == Among(page_init, lows)
           high == Among(page_init, highs)
<1>1. npages \in Nat /\ npages = 2 * PTSIZE /\ PTSIZE \in Nat /\ NCPU \in Nat /\ PTSIZE >= NCPU + 16
  BY Layout, SizeAssumption
<1>2. all \in Seq(X) /\ \A p \in notInUse : Has(all, p)
  <2>1. \A p \in X : npages - p \in 1 .. npages /\ npages - (npages - p) = p
    BY <1>1
  <2>2. all \in Seq(X) /\ DOMAIN all = 1 .. npages
    BY <1>1
  <2> QED
    BY <2>1, <2>2 DEF Has
<1>3. \A p \in PTSIZE - 6 .. PTSIZE - 1 : p \in notInUse /\ p \in lows
  BY <1>1 DEF InUse, MPENTRY_PADDR, IOPHYSMEM, envs, pages, kern_pgdir
<1>4. PTSIZE \in notInUse /\ PTSIZE \in highs
  BY <1>1 DEF InUse, MPENTRY_PADDR, IOPHYSMEM, envs, pages, kern_pgdir
<1>5. page_init = Among(all, notInUse) /\ LowFirst(page_init) = low \o high
  BY DEF page_init, LowFirst
<1> HIDE DEF all, notInUse, X, lows, highs
<1>6. page_init \in Seq(X) /\ Kept(page_init, all, notInUse)
  BY <1>2, <1>5, AmongHolds
<1>7. \A p \in notInUse : Has(page_init, p)
  BY <1>2, <1>6 DEF Kept
<1>8. low \in Seq(X) /\ Kept(low, page_init, lows)
  BY <1>6, AmongHolds
<1>9. high \in Seq(X) /\ Kept(high, page_init, highs)
  BY <1>6, AmongHolds
<1> HIDE DEF low, high
<1>10. \A p \in PTSIZE - 6 .. PTSIZE - 1 : Has(low, p)
  BY <1>3, <1>7, <1>8 DEF Kept
<1>11. Has(high, PTSIZE)
  BY <1>4, <1>7, <1>9 DEF Kept
<1>12. \A k \in 1 .. Len(low) : low[k] \in lows
  BY <1>8 DEF Kept, Has
<1>13. Len(low) \in Nat /\ DOMAIN low = 1 .. Len(low) /\ Len(high) \in Nat /\ DOMAIN high = 1 .. Len(high)
  BY <1>8, <1>9
<1>14. 6 <= Len(low)
  <2> DEFINE P == PTSIZE - 6 .. PTSIZE - 1
             n == Len(low)
             at6 == [p \in P |-> CHOOSE k \in 1 .. n : low[k] = p]
  <2>1. at6 \in [P -> 1 .. n] /\ \A p \in P : low[at6[p]] = p
    BY <1>10, <1>13 DEF Has
  <2> HIDE DEF at6
  <2>2. at6 \in Injection(P, 1 .. n)
    BY <2>1 DEF Injection, IsInjective
  <2>3. n \in Nat
    BY <1>13
  <2> HIDE DEF n
  <2>4. IsFiniteSet(1 .. n) /\ Cardinality(1 .. n) = n
    <3>1. IsFiniteSet(1 .. n) /\ Cardinality(1 .. n) = IF 1 > n THEN 0 ELSE n - 1 + 1
      BY <2>3, FS_Interval
    <3> QED
      BY <2>3, <3>1
  <2>5. Cardinality(P) = 6
    <3>1. PTSIZE - 6 \in Int /\ PTSIZE - 1 \in Int
      BY <1>1
    <3>2. Cardinality(P) = IF PTSIZE - 6 > PTSIZE - 1 THEN 0 ELSE PTSIZE - 1 - (PTSIZE - 6) + 1
      BY <3>1, FS_Interval
    <3> QED
      BY <1>1, <3>2
  <2> HIDE DEF P
  <2>6. Cardinality(P) <= Cardinality(1 .. n)
    BY <2>2, <2>4, FS_Injection
  <2>7. 6 <= n
    BY <2>4, <2>5, <2>6
  <2> QED
    BY <2>7 DEF n
<1>15. Len(high) >= 1
  BY <1>11, <1>13 DEF Has
<1>16. low \o high \in Seq(X) /\ Len(low \o high) = Len(low) + Len(high) /\ \A k \in 1 .. Len(low) : (low \o high)[k] = low[k]
  BY <1>8, <1>9
<1>17. \A j \in 1 .. 6 : j \in 1 .. Len(low)
  BY <1>13, <1>14
<1>18. 6 < Len(low \o high)
  BY <1>13, <1>14, <1>15, <1>16
<1>19. \A j \in 1 .. 6 : (low \o high)[j] \in lows
  BY <1>12, <1>16, <1>17
<1> QED
  BY <1>5, <1>16, <1>18, <1>19 DEF Stocked, X, lows

-----------------------------------------------------------------------------
(* What boot_map_region() makes of a memory.                               *)

Mem(D, T, F, B) == [dir |-> D, pte |-> T, free |-> F, base |-> B]
Absent(D, va, len) == {i \in {PDX(v) : v \in va .. va + len - 1} : D[i] = NoPde}
PutPages(T, va, len, pa, perm) ==
    [v \in Vas |-> IF v \in va .. va + len - 1 THEN [pa |-> pa + v - va, perm |-> perm] ELSE T[v]]

\* A directory whose absent entries A got the first tables of F.
WithTables(D, F, A) == [i \in Pdxs |-> IF i \in A THEN Table(F[Cardinality({j \in A : j <= i})]) ELSE D[i]]
Rest(F, A) == SubSeq(F, Cardinality(A) + 1, Len(F))

LEMMA MapsSmall ==
    ASSUME NEW D, NEW T, NEW F, NEW B, NEW va \in Nat, NEW len \in Nat, NEW pa \in Nat, NEW perm,
           ~pse \/ len < PTSIZE
    PROVE  Mapped(Mem(D, T, F, B), <<va, len, pa, perm>>) =
               Mem(WithTables(D, F, Absent(D, va, len)), PutPages(T, va, len, pa, perm),
                   Rest(F, Absent(D, va, len)), B)
<1> DEFINE r == <<va, len, pa, perm>>
           m == Mem(D, T, F, B)
           larges == IF pse /\ va % PTSIZE = 0 /\ pa % PTSIZE = 0 THEN len \div PTSIZE ELSE 0
           A == Absent(D, va, len)
<1>1. r[1] = va /\ r[2] = len /\ r[3] = pa /\ r[4] = perm
  OBVIOUS
<1>2. m.dir = D /\ m.pte = T /\ m.free = F /\ m.base = B
  BY DEF Mem
<1>3. PTSIZE \in Nat \ {0} /\ PDX(va) \in Nat
  BY Layout, DivBounds DEF PDX
<1>4. larges = 0
  <2>1. len < PTSIZE => len \div PTSIZE = 0
    <3> SUFFICES ASSUME len < PTSIZE PROVE len \div PTSIZE = 0
      OBVIOUS
    <3>1. PTSIZE * 0 = 0
      BY <1>3
    <3> QED
      BY <1>3, <3>1, DivIs
  <2> QED
    BY <2>1
<1>5. va + 0 * PTSIZE = va /\ PDX(va) .. PDX(va) + 0 - 1 = {}
  BY <1>3
<1> DEFINE small == va .. va + len - 1
<1>6. {i \in {PDX(v) : v \in small} : m.dir[i] = NoPde} = A
  BY <1>2 DEF Absent
<1> HIDE DEF r, A, larges, small
<1> DEFINE Result(r1, r3, r4, x, y, z) ==
               [dir |-> [i \in Pdxs |-> CASE i \in PDX(r1) .. PDX(r1) + x - 1 -> Large(r3 + (i - PDX(r1)) * PTSIZE, r4)
                                          [] i \in z -> Table(m.free[Cardinality({j \in z : j <= i})])
                                          [] OTHER -> m.dir[i]],
                pte |-> [v \in Vas |-> IF v \in y THEN [pa |-> r3 + v - r1, perm |-> r4] ELSE m.pte[v]],
                free |-> SubSeq(m.free, Cardinality(z) + 1, Len(m.free)),
                base |-> m.base]
<1>7. Mapped(m, r) = Result(va, pa, perm, 0, small, A)
  <2> HIDE DEF m
  <2> DEFINE l == IF pse /\ r[1] % PTSIZE = 0 /\ r[3] % PTSIZE = 0 THEN r[2] \div PTSIZE ELSE 0
             sm == r[1] + l * PTSIZE .. r[1] + r[2] - 1
             ab == {i \in {PDX(v) : v \in sm} : m.dir[i] = NoPde}
  <2>1. Mapped(m, r) = Result(r[1], r[3], r[4], l, sm, ab)
    BY DEF Mapped
  <2>2. l = 0
    BY <1>1, <1>4 DEF larges
  <2>3. sm = small
    BY <1>1, <1>5, <2>2 DEF small
  <2>4. ab = A
    BY <1>6, <2>3
  <2> HIDE DEF Result, l, sm, ab
  <2> QED
    BY <1>1, <2>1, <2>2, <2>3, <2>4
<1>8. [i \in Pdxs |-> CASE i \in PDX(va) .. PDX(va) + 0 - 1 -> Large(pa + (i - PDX(va)) * PTSIZE, perm)
                        [] i \in A -> Table(m.free[Cardinality({j \in A : j <= i})])
                        [] OTHER -> m.dir[i]]
      = WithTables(D, F, A)
  <2> HIDE DEF m
  <2>1. \A i : i \notin PDX(va) .. PDX(va) + 0 - 1
    BY <1>5
  <2> QED
    BY <1>2, <2>1 DEF WithTables
<1>9. [v \in Vas |-> IF v \in small THEN [pa |-> pa + v - va, perm |-> perm] ELSE m.pte[v]] = PutPages(T, va, len, pa, perm)
  BY <1>2 DEF PutPages, small
<1>10. SubSeq(m.free, Cardinality(A) + 1, Len(m.free)) = Rest(F, A)
  BY <1>2 DEF Rest
<1>11. Result(va, pa, perm, 0, small, A) = Mem(WithTables(D, F, A), PutPages(T, va, len, pa, perm), Rest(F, A), B)
  <2> HIDE DEF m
  <2> QED
    BY <1>2, <1>8, <1>9, <1>10 DEF Mem
<1> QED
  BY <1>7, <1>11 DEF r, A

LowTable(e) == \E p \in 0 .. PTSIZE - 1 : e = Table(p)
Pages == 0 .. npages - 1

\* Of a directory below KERNBASE: those in S have tables, and nothing else.
Shaped(D, S) == /\ D = [i \in 0 .. 7 |-> D[i]]
                /\ \A i \in S : LowTable(D[i])
                /\ \A i \in {0, 1, 2, 4, 5} \ S : D[i] = NoPde
                /\ D[3] = Self

\* A region that one page table maps.
InTable(n, va, len) == /\ n \in {1, 2, 4, 5} /\ va \in Nat /\ len \in Nat \ {0} /\ len < PTSIZE
                        /\ n * PTSIZE <= va /\ va + len <= n * PTSIZE + PTSIZE

LEMMA AbsentIn ==
    ASSUME NEW D, NEW S \in SUBSET (0 .. 7), Shaped(D, S), NEW n, NEW va, NEW len, InTable(n, va, len)
    PROVE  Absent(D, va, len) = IF n \in S THEN {} ELSE {n}
<1>1. {PDX(v) : v \in va .. va + len - 1} = {n}
  <2>1. \A v \in va .. va + len - 1 : PDX(v) = n
    <3> TAKE v \in va .. va + len - 1
    <3>1. v \in Nat /\ n * PTSIZE <= v /\ v < n * PTSIZE + PTSIZE /\ n \in 0 .. 7
      BY Layout DEF InTable
    <3> QED
      BY <3>1, PdxIs
  <2>2. va \in va .. va + len - 1
    BY DEF InTable
  <2> QED
    BY <2>1, <2>2
<1>2. Absent(D, va, len) = IF D[n] = NoPde THEN {n} ELSE {}
  BY <1>1 DEF Absent
<1>3. \A p : Table(p) # NoPde
  BY DEF Table, NoPde
<1>4. D[n] = NoPde <=> n \notin S
  <2>1. n \in {1, 2, 4, 5}
    BY DEF InTable
  <2>2. n \in S => D[n] # NoPde
    BY <1>3 DEF Shaped, LowTable
  <2>3. n \notin S => D[n] = NoPde
    BY <2>1 DEF Shaped
  <2> QED
    BY <2>2, <2>3
<1> QED
  BY <1>2, <1>4

\* Where there is a table, nothing but its entries changes.
LEMMA MapsAgain ==
    ASSUME NEW D, NEW T, NEW F, NEW B, NEW S \in SUBSET (0 .. 7), Shaped(D, S),
           NEW n \in S, NEW va, NEW len, InTable(n, va, len), NEW pa \in Nat, NEW perm
    PROVE  Mapped(Mem(D, T, F, B), <<va, len, pa, perm>>) = Mem(D, PutPages(T, va, len, pa, perm), Rest(F, {}), B)
<1>1. Absent(D, va, len) = {}
  BY AbsentIn
<1>2. WithTables(D, F, {}) = D
  <2>1. WithTables(D, F, {}) = [i \in 0 .. 7 |-> D[i]]
    BY PdxsAre DEF WithTables
  <2> QED
    BY <2>1 DEF Shaped
<1>3. va \in Nat /\ len \in Nat /\ len < PTSIZE
  BY DEF InTable
<1>4. Mapped(Mem(D, T, F, B), <<va, len, pa, perm>>)
        = Mem(WithTables(D, F, Absent(D, va, len)), PutPages(T, va, len, pa, perm), Rest(F, Absent(D, va, len)), B)
  BY <1>3, MapsSmall
<1> QED
  BY <1>1, <1>2, <1>4

LEMMA RestOfNone == ASSUME NEW F \in Seq(Pages) PROVE Rest(F, {}) = F
<1>1. Cardinality({}) + 1 = 1
  BY FS_EmptySet
<1> QED
  BY <1>1, SubSeqFull DEF Rest

\* k pages less are left of a list.
LEMMA RestOfStock ==
    ASSUME NEW F \in Seq(Pages), NEW k \in Nat, NEW l \in Nat, NEW j \in Nat, j = k + l, Stocked(F, j), NEW A, Cardinality(A) = k
    PROVE  Rest(F, A) \in Seq(Pages) /\ Stocked(Rest(F, A), l)
<1> DEFINE G == SubSeq(F, k + 1, Len(F))
<1>1. Len(F) \in Nat /\ k + l < Len(F) /\ \A i \in 1 .. k + l : F[i] \in 0 .. PTSIZE - 1
  BY DEF Stocked
<1>2. k + 1 \in 1 .. Len(F) + 1 /\ Len(F) \in (k + 1) - 1 .. Len(F)
  BY <1>1
<1>3. /\ G \in Seq(Pages)
      /\ Len(G) = IF k + 1 <= Len(F) THEN Len(F) - (k + 1) + 1 ELSE 0
      /\ \A i \in 1 .. Len(F) - (k + 1) + 1 : G[i] = F[k + 1 + i - 1]
  BY <1>2, SubSeqProperties, SMTT(30)
<1>4. k + 1 <= Len(F) /\ Len(F) - (k + 1) + 1 = Len(F) - k /\ \A i \in 1 .. Len(F) - k : k + 1 + i - 1 = k + i
  BY <1>1
<1>5. \A i \in 1 .. l : i \in 1 .. Len(F) - k /\ k + i \in 1 .. k + l
  BY <1>1
<1> HIDE DEF G
<1>6. l < Len(G)
  BY <1>1, <1>3, <1>4
<1>7. \A i \in 1 .. l : G[i] \in 0 .. PTSIZE - 1
  BY <1>1, <1>3, <1>4, <1>5
<1> QED
  BY <1>3, <1>6, <1>7 DEF Stocked, Rest, G

\* Where there is none, it takes the first page, and k others are left.
NewTable(D, T, F, B, S, k, n, va, len, pa, perm) ==
    \E E, G : /\ Mapped(Mem(D, T, F, B), <<va, len, pa, perm>>) = Mem(E, PutPages(T, va, len, pa, perm), G, B)
              /\ Shaped(E, S \cup {n}) /\ E[6] = D[6] /\ E[7] = D[7]
              /\ G \in Seq(Pages) /\ Stocked(G, k)

LEMMA MapsAnew ==
    ASSUME NEW D, NEW T, NEW F \in Seq(Pages), NEW B, NEW S \in SUBSET (0 .. 7), NEW k \in Nat, NEW l \in Nat, l = 1 + k,
           Shaped(D, S), Stocked(F, l),
           NEW n, n \notin S, NEW va, NEW len, InTable(n, va, len), NEW pa \in Nat, NEW perm
    PROVE  NewTable(D, T, F, B, S, k, n, va, len, pa, perm)
<1> DEFINE E == WithTables(D, F, {n})
           G == Rest(F, {n})
<1>0. n \in {1, 2, 4, 5} /\ va \in Nat /\ len \in Nat /\ len < PTSIZE
  BY DEF InTable
<1>1. Mapped(Mem(D, T, F, B), <<va, len, pa, perm>>) = Mem(E, PutPages(T, va, len, pa, perm), G, B)
  <2>1. Absent(D, va, len) = {n}
    BY AbsentIn
  <2>2. Mapped(Mem(D, T, F, B), <<va, len, pa, perm>>)
          = Mem(WithTables(D, F, Absent(D, va, len)), PutPages(T, va, len, pa, perm), Rest(F, Absent(D, va, len)), B)
    BY <1>0, MapsSmall
  <2> QED
    BY <2>1, <2>2
<1>2. G \in Seq(Pages) /\ Stocked(G, k)
  <2>1. Cardinality({n}) = 1
    BY FS_Singleton
  <2> QED
    BY <2>1, RestOfStock
<1>3. E = [i \in 0 .. 7 |-> IF i = n THEN Table(F[1]) ELSE D[i]]
  <2>1. {j \in {n} : j <= n} = {n}
    BY <1>0
  <2>2. Cardinality({j \in {n} : j <= n}) = 1
    BY <2>1, FS_Singleton
  <2> QED
    BY <2>2, PdxsAre DEF WithTables
<1> HIDE DEF E, G
<1>4. LowTable(Table(F[1]))
  <2>1. F[1] \in 0 .. PTSIZE - 1
    BY DEF Stocked
  <2> QED
    BY <2>1 DEF LowTable
<1>5. Shaped(E, S \cup {n})
  <2>1. \A i \in 0 .. 7 : E[i] = IF i = n THEN Table(F[1]) ELSE D[i]
    BY <1>3
  <2>2. E = [i \in 0 .. 7 |-> E[i]]
    BY <1>3
  <2>3. \A i \in S : LowTable(E[i])
    BY <2>1 DEF Shaped
  <2>4. LowTable(E[n])
    BY <1>0, <1>4, <2>1
  <2>5. \A i \in {0, 1, 2, 4, 5} \ (S \cup {n}) : E[i] = NoPde
    <3>1. \A i \in {0, 1, 2, 4, 5} \ S : D[i] = NoPde
      BY DEF Shaped
    <3>2. \A i \in {0, 1, 2, 4, 5} \ (S \cup {n}) : i \in {0, 1, 2, 4, 5} \ S /\ i # n /\ i \in 0 .. 7
      OBVIOUS
    <3> QED
      BY <2>1, <3>1, <3>2
  <2>6. E[3] = Self
    BY <1>0, <2>1, SMTT(30) DEF Shaped
  <2> QED
    BY <2>2, <2>3, <2>4, <2>5, <2>6 DEF Shaped
<1>6. E[6] = D[6] /\ E[7] = D[7]
  BY <1>0, <1>3
<1> QED
  BY <1>1, <1>2, <1>5, <1>6 DEF NewTable

\* The kernel's region: two large pages, or two tables.
High(E, U) == \/ E[6] = Large(0, {"W"}) /\ E[7] = Large(PTSIZE, {"W"})
              \/ /\ LowTable(E[6]) /\ LowTable(E[7])
                 /\ \A p \in Pages : U[KADDR(p)] = [pa |-> p, perm |-> {"W"}]

LargeMapped(D, T, F, B, S) ==
    \E E : /\ Mapped(Mem(D, T, F, B), <<KERNBASE, npages, 0, {"W"}>>) = Mem(E, [v \in Vas |-> T[v]], F, B)
           /\ Shaped(E, S) /\ E[6] = Large(0, {"W"}) /\ E[7] = Large(PTSIZE, {"W"})

LEMMA ShapeStays ==
    ASSUME NEW D, NEW E, NEW S \in SUBSET {0, 1, 2, 3, 4, 5}, Shaped(D, S), E = [i \in 0 .. 7 |-> E[i]],
           \A i \in {0, 1, 2, 3, 4, 5} : E[i] = D[i]
    PROVE  Shaped(E, S)
<1>1. ASSUME NEW i \in S PROVE LowTable(E[i])
  <2>1. LowTable(D[i])
    BY DEF Shaped
  <2>2. E[i] = D[i]
    OBVIOUS
  <2> QED
    BY <2>1, <2>2
<1>2. ASSUME NEW i \in {0, 1, 2, 4, 5} \ S PROVE E[i] = NoPde
  <2>1. D[i] = NoPde
    BY DEF Shaped
  <2>2. E[i] = D[i]
    OBVIOUS
  <2> QED
    BY <2>1, <2>2
<1>3. E[3] = Self
  BY DEF Shaped
<1> QED
  BY <1>1, <1>2, <1>3 DEF Shaped

LEMMA MapsLarge ==
    ASSUME pse, NEW D, NEW T, NEW F \in Seq(Pages), NEW B, NEW S \in SUBSET {0, 1, 2, 3, 4, 5}, Shaped(D, S)
    PROVE  LargeMapped(D, T, F, B, S)
<1> DEFINE r == <<KERNBASE, npages, 0, {"W"}>>
           m == Mem(D, T, F, B)
           Result(r1, r3, r4, x, y, z) ==
               [dir |-> [i \in Pdxs |-> CASE i \in PDX(r1) .. PDX(r1) + x - 1 -> Large(r3 + (i - PDX(r1)) * PTSIZE, r4)
                                          [] i \in z -> Table(m.free[Cardinality({j \in z : j <= i})])
                                          [] OTHER -> m.dir[i]],
                pte |-> [v \in Vas |-> IF v \in y THEN [pa |-> r3 + v - r1, perm |-> r4] ELSE m.pte[v]],
                free |-> SubSeq(m.free, Cardinality(z) + 1, Len(m.free)),
                base |-> m.base]
           l == IF pse /\ r[1] % PTSIZE = 0 /\ r[3] % PTSIZE = 0 THEN r[2] \div PTSIZE ELSE 0
           sm == r[1] + l * PTSIZE .. r[1] + r[2] - 1
           ab == {i \in {PDX(v) : v \in sm} : m.dir[i] = NoPde}
           E == [i \in 0 .. 7 |-> IF i = 6 THEN Large(0, {"W"}) ELSE IF i = 7 THEN Large(PTSIZE, {"W"}) ELSE D[i]]
<1>1. r[1] = KERNBASE /\ r[2] = npages /\ r[3] = 0 /\ r[4] = {"W"}
  OBVIOUS
<1>2. m.dir = D /\ m.pte = T /\ m.free = F /\ m.base = B
  BY DEF Mem
<1>3. PTSIZE \in Nat \ {0} /\ KERNBASE = 6 * PTSIZE /\ npages = 2 * PTSIZE /\ KERNBASE \in Nat
  BY Layout
<1>4. npages \div PTSIZE = 2 /\ PDX(KERNBASE) = 6
  <2>1. PTSIZE * 2 = npages /\ PTSIZE * 6 = KERNBASE /\ npages \in Nat /\ npages < PTSIZE * 2 + PTSIZE
    BY <1>3
  <2>2. npages \div PTSIZE = 2
    BY <1>3, <2>1, DivIs
  <2>3. KERNBASE < 6 * PTSIZE + PTSIZE
    BY <1>3
  <2> QED
    BY <1>3, <2>2, <2>3, PdxIs
<1>5. KERNBASE % PTSIZE = 0 /\ 0 % PTSIZE = 0
  <2>1. \A p \in Nat \ {0}, a \in Nat : a % p = a - p * (a \div p)
    OBVIOUS
  <2>2. KERNBASE % PTSIZE = KERNBASE - PTSIZE * 6
    BY <1>3, <1>4, <2>1 DEF PDX
  <2>3. KERNBASE % PTSIZE = 0
    BY <1>3, <2>2
  <2>4. 0 % PTSIZE = 0
    BY <1>3
  <2> QED
    BY <2>3, <2>4
<1>6. Mapped(m, r) = Result(r[1], r[3], r[4], l, sm, ab)
  <2> HIDE DEF m, r
  <2> QED
    BY DEF Mapped
<1>7. l = 2
  BY <1>1, <1>4, <1>5
<1>8. sm = {}
  <2> HIDE DEF r
  <2>1. sm = KERNBASE + 2 * PTSIZE .. KERNBASE + npages - 1
    <3> HIDE DEF l
    <3> QED
      BY <1>1, <1>7
  <2> HIDE DEF sm
  <2>2. KERNBASE + 2 * PTSIZE .. KERNBASE + npages - 1 = {}
    BY <1>3
  <2> QED
    BY <2>1, <2>2
<1>9. ab = {}
  <2> HIDE DEF sm
  <2> QED
    BY <1>8
<1>10. Mapped(m, r) = Result(KERNBASE, 0, {"W"}, 2, {}, {})
  <2> HIDE DEF Result, l, sm, ab
  <2> QED
    BY <1>1, <1>6, <1>7, <1>8, <1>9
<1>11. SubSeq(m.free, Cardinality({}) + 1, Len(m.free)) = F
  BY <1>2, RestOfNone DEF Rest
<1>12. [i \in Pdxs |-> CASE i \in PDX(KERNBASE) .. PDX(KERNBASE) + 2 - 1 -> Large(0 + (i - PDX(KERNBASE)) * PTSIZE, {"W"})
                         [] i \in {} -> Table(m.free[Cardinality({j \in {} : j <= i})])
                         [] OTHER -> m.dir[i]] = E
  <2> HIDE DEF m
  <2>1. 0 + (6 - 6) * PTSIZE = 0 /\ 0 + (7 - 6) * PTSIZE = PTSIZE /\ 6 .. 6 + 2 - 1 = {6, 7}
    BY <1>3
  <2>2. \A i \in {6, 7} : Large(0 + (i - 6) * PTSIZE, {"W"}) = E[i]
    BY <2>1
  <2>3. [i \in 0 .. 7 |-> CASE i \in {6, 7} -> Large(0 + (i - 6) * PTSIZE, {"W"})
                            [] i \in {} -> Table(m.free[Cardinality({j \in {} : j <= i})])
                            [] OTHER -> m.dir[i]] = E
    BY <1>2, <2>2
  <2> QED
    BY <1>4, <2>1, <2>3, PdxsAre
<1>13. Shaped(E, S)
  <2> DEFINE H == E
  <2>1. \A i \in {0, 1, 2, 3, 4, 5} : H[i] = D[i]
    OBVIOUS
  <2>2. H = [i \in 0 .. 7 |-> H[i]]
    OBVIOUS
  <2> HIDE DEF H
  <2>3. Shaped(H, S)
    BY <2>1, <2>2, ShapeStays
  <2> QED
    BY <2>3 DEF H
<1>14. E[6] = Large(0, {"W"}) /\ E[7] = Large(PTSIZE, {"W"})
  OBVIOUS
<1>15. Mapped(m, r) = Mem(E, [v \in Vas |-> T[v]], F, B)
  <2>1. [v \in Vas |-> IF v \in {} THEN [pa |-> 0 + v - KERNBASE, perm |-> {"W"}] ELSE m.pte[v]] = [v \in Vas |-> T[v]]
    BY <1>2
  <2> HIDE DEF m, r, E
  <2> QED
    BY <1>2, <1>10, <1>11, <1>12, <2>1 DEF Mem
<1> HIDE DEF E
<1> QED
  BY <1>13, <1>14, <1>15 DEF LargeMapped

TwoTablesMapped(D, T, F, B, S, k) ==
    \E E, G : /\ Mapped(Mem(D, T, F, B), <<KERNBASE, npages, 0, {"W"}>>)
                    = Mem(E, PutPages(T, KERNBASE, npages, 0, {"W"}), G, B)
              /\ Shaped(E, S) /\ LowTable(E[6]) /\ LowTable(E[7]) /\ G \in Seq(Pages) /\ Stocked(G, k)

LEMMA MapsTwoTables ==
    ASSUME ~pse, NEW D, NEW T, NEW F \in Seq(Pages), NEW B, NEW S \in SUBSET {0, 1, 2, 3, 4, 5}, Shaped(D, S),
           D[6] = NoPde, D[7] = NoPde, NEW k \in Nat, NEW l \in Nat, l = 2 + k, Stocked(F, l)
    PROVE  TwoTablesMapped(D, T, F, B, S, k)
<1> DEFINE A == {6, 7}
           E == WithTables(D, F, A)
           G == Rest(F, A)
<1>1. KERNBASE \in Nat /\ npages \in Nat /\ KERNBASE = 6 * PTSIZE /\ npages = 2 * PTSIZE /\ PTSIZE \in Nat \ {0}
  BY Layout
<1>2. Absent(D, KERNBASE, npages) = A
  <2>1. \A v \in KERNBASE .. KERNBASE + npages - 1 : PDX(v) \in {6, 7}
    <3> TAKE v \in KERNBASE .. KERNBASE + npages - 1
    <3>1. v \in Nat /\ 6 * PTSIZE <= v /\ v < 7 * PTSIZE + PTSIZE
      BY <1>1
    <3>2. CASE v < 6 * PTSIZE + PTSIZE
      BY <3>1, <3>2, PdxIs
    <3>3. CASE v >= 7 * PTSIZE
      BY <3>1, <3>3, PdxIs
    <3> QED
      BY <1>1, <3>1, <3>2, <3>3
  <2>2. /\ 6 * PTSIZE \in KERNBASE .. KERNBASE + npages - 1 /\ PDX(6 * PTSIZE) = 6
        /\ 7 * PTSIZE \in KERNBASE .. KERNBASE + npages - 1 /\ PDX(7 * PTSIZE) = 7
    BY <1>1, PdxIs
  <2>3. {PDX(v) : v \in KERNBASE .. KERNBASE + npages - 1} = {6, 7}
    BY <2>1, <2>2
  <2> QED
    BY <2>3 DEF Absent
<1>3. Mapped(Mem(D, T, F, B), <<KERNBASE, npages, 0, {"W"}>>) = Mem(E, PutPages(T, KERNBASE, npages, 0, {"W"}), G, B)
  <2>1. Mapped(Mem(D, T, F, B), <<KERNBASE, npages, 0, {"W"}>>)
          = Mem(WithTables(D, F, Absent(D, KERNBASE, npages)), PutPages(T, KERNBASE, npages, 0, {"W"}),
                Rest(F, Absent(D, KERNBASE, npages)), B)
    <3> DEFINE w == {"W"}
    <3>1. 0 \in Nat
      OBVIOUS
    <3> HIDE DEF w
    <3>2. Mapped(Mem(D, T, F, B), <<KERNBASE, npages, 0, w>>)
            = Mem(WithTables(D, F, Absent(D, KERNBASE, npages)), PutPages(T, KERNBASE, npages, 0, w),
                  Rest(F, Absent(D, KERNBASE, npages)), B)
      BY <1>1, <3>1, MapsSmall
    <3> QED
      BY <3>2 DEF w
  <2> QED
    BY <1>2, <2>1
<1>4. Cardinality({6, 7}) = 2 /\ Cardinality({6}) = 1
  <2>1. IsFiniteSet({6}) /\ Cardinality({6}) = 1
    BY FS_Singleton
  <2>2. Cardinality({6} \cup {7}) = IF 7 \in {6} THEN Cardinality({6}) ELSE Cardinality({6}) + 1
    BY <2>1, FS_AddElement
  <2>3. {6} \cup {7} = {6, 7} /\ 7 \notin {6} /\ 1 + 1 = 2
    OBVIOUS
  <2> QED
    BY <2>1, <2>2, <2>3
<1>5. G \in Seq(Pages) /\ Stocked(G, k)
  BY <1>4, RestOfStock
<1>6. E = [i \in 0 .. 7 |-> IF i = 6 THEN Table(F[1]) ELSE IF i = 7 THEN Table(F[2]) ELSE D[i]]
  <2>1. {j \in A : j <= 6} = {6} /\ {j \in A : j <= 7} = {6, 7}
    OBVIOUS
  <2>2. Cardinality({j \in A : j <= 6}) = 1 /\ Cardinality({j \in A : j <= 7}) = 2
    BY <1>4, <2>1
  <2> QED
    BY <2>2, PdxsAre DEF WithTables
<1> HIDE DEF E, G
<1>7. LowTable(Table(F[1])) /\ LowTable(Table(F[2]))
  <2>1. F[1] \in 0 .. PTSIZE - 1 /\ F[2] \in 0 .. PTSIZE - 1
    BY DEF Stocked
  <2> QED
    BY <2>1 DEF LowTable
<1>8. Shaped(E, S)
  <2>1. \A i \in {0, 1, 2, 3, 4, 5} : E[i] = D[i]
    BY <1>6
  <2>2. E = [i \in 0 .. 7 |-> E[i]]
    BY <1>6
  <2> QED
    BY <2>1, <2>2, ShapeStays
<1>9. LowTable(E[6]) /\ LowTable(E[7])
  BY <1>6, <1>7
<1> QED
  BY <1>3, <1>5, <1>8, <1>9 DEF TwoTablesMapped

LEMMA MmioIs ==
    ASSUME NEW D, NEW T, NEW F, NEW B, NEW E, NEW U, NEW G, NEW pa, NEW len,
           Mapped(Mem(D, T, F, B), <<B, len, pa, {"W"}>>) = Mem(E, U, G, B)
    PROVE  mmio_map_region(Mem(D, T, F, B), pa, len) = Mem(E, U, G, B + len)
<1>1. Mem(D, T, F, B).base = B
  BY DEF Mem
<1>2. mmio_map_region(Mem(D, T, F, B), pa, len) = [Mem(E, U, G, B) EXCEPT !.base = @ + len]
  BY <1>1 DEF mmio_map_region
<1>3. [Mem(E, U, G, B) EXCEPT !.base = @ + len] = Mem(E, U, G, B + len)
  BY DEF Mem
<1> QED
  BY <1>2, <1>3

Blank == [v \in Vas |-> NotPresent]

\* After check_page() there is one table, for devices.
LEMMA FirstMemory ==
    \E E, G : /\ check_page([EmptyMemory EXCEPT !.dir[PDX(UVPT)] = Self, !.free = LowFirst(page_init)])
                   = Mem(E, Blank, G, MMIOBASE + 3)
              /\ Shaped(E, {4}) /\ E[6] = NoPde /\ E[7] = NoPde /\ G \in Seq(Pages) /\ Stocked(G, 5)
<1> DEFINE F == LowFirst(page_init)
           D == [i \in 0 .. 7 |-> IF i = 3 THEN Self ELSE NoPde]
           m == Mem(D, Blank, F, MMIOBASE)
<1>0. /\ F \in Seq(Pages) /\ Stocked(F, 6) /\ MMIOBASE = 4 * PTSIZE /\ MMIOBASE \in Nat /\ PTSIZE \in Nat /\ PTSIZE > 16
      /\ PDX(UVPT) = 3
  <2>1. PDX(UVPT) = 3
    BY Layout, PdxIs
  <2> QED
    BY <2>1, ListStocked, Layout DEF Pages
<1> HIDE DEF F
<1>1. [EmptyMemory EXCEPT !.dir[PDX(UVPT)] = Self, !.free = LowFirst(page_init)] = m
  <2>1. EmptyMemory.dir = [i \in 0 .. 7 |-> NoPde]
    BY PdxsAre DEF EmptyMemory
  <2>2. [EmptyMemory.dir EXCEPT ![3] = Self] = D
    BY <2>1
  <2>3. [EmptyMemory EXCEPT !.dir[PDX(UVPT)] = Self, !.free = LowFirst(page_init)]
          = [[EmptyMemory EXCEPT !.dir = [EmptyMemory.dir EXCEPT ![3] = Self]] EXCEPT !.free = F]
    BY <1>0 DEF F
  <2>4. [EmptyMemory EXCEPT !.dir = D] = Mem(D, Blank, <<>>, MMIOBASE)
    <3> HIDE DEF D
    <3>1. EmptyMemory = Mem(EmptyMemory.dir, Blank, <<>>, MMIOBASE)
      BY DEF EmptyMemory, Mem, Blank
    <3>2. \A X, Y, Z, B : [Mem(X, Y, Z, B) EXCEPT !.dir = D] = Mem(D, Y, Z, B)
      BY DEF Mem
    <3> QED
      BY <3>1, <3>2
  <2>5. [Mem(D, Blank, <<>>, MMIOBASE) EXCEPT !.free = F] = m
    <3> HIDE DEF D
    <3> QED
      BY DEF Mem
  <2> QED
    BY <2>2, <2>3, <2>4, <2>5
<1>2. Shaped(D, {}) /\ D[6] = NoPde /\ D[7] = NoPde
  BY DEF Shaped
<1> HIDE DEF D
<1> DEFINE w == {"W"}
           T == PutPages(Blank, MMIOBASE, 2, 0, w)
<1>3. PICK E, G : /\ Mapped(Mem(D, Blank, F, MMIOBASE), <<MMIOBASE, 2, 0, w>>) = Mem(E, T, G, MMIOBASE)
                  /\ Shaped(E, {} \cup {4}) /\ E[6] = D[6] /\ E[7] = D[7] /\ G \in Seq(Pages) /\ Stocked(G, 5)
  <2>1. InTable(4, MMIOBASE, 2)
    BY <1>0 DEF InTable
  <2>2. {} \in SUBSET (0 .. 7) /\ 4 \notin {} /\ 5 \in Nat /\ 6 \in Nat /\ 6 = 1 + 5 /\ 0 \in Nat
    OBVIOUS
  <2> HIDE DEF w
  <2>3. NewTable(D, Blank, F, MMIOBASE, {}, 5, 4, MMIOBASE, 2, 0, w)
    BY <1>0, <1>2, <2>1, <2>2, MapsAnew
  <2> QED
    BY <2>3 DEF NewTable
<1>4. mmio_map_region(m, 0, 2) = Mem(E, T, G, MMIOBASE + 2)
  BY <1>3, MmioIs
<1> HIDE DEF T
<1> DEFINE U == PutPages(T, MMIOBASE + 2, 1, 0, w)
<1>5. Shaped(E, {4})
  BY <1>3
<1>6. Mapped(Mem(E, T, G, MMIOBASE + 2), <<MMIOBASE + 2, 1, 0, w>>) = Mem(E, U, G, MMIOBASE + 2)
  <2>1. InTable(4, MMIOBASE + 2, 1)
    BY <1>0 DEF InTable
  <2>2. {4} \in SUBSET (0 .. 7) /\ 4 \in {4} /\ 0 \in Nat
    OBVIOUS
  <2> HIDE DEF w
  <2>3. Mapped(Mem(E, T, G, MMIOBASE + 2), <<MMIOBASE + 2, 1, 0, w>>) = Mem(E, U, Rest(G, {}), MMIOBASE + 2)
    BY <1>5, <2>1, <2>2, MapsAgain
  <2>4. Rest(G, {}) = G
    BY <1>3, RestOfNone
  <2> QED
    BY <2>3, <2>4
<1>7. mmio_map_region(Mem(E, T, G, MMIOBASE + 2), 0, 1) = Mem(E, U, G, MMIOBASE + 2 + 1)
  BY <1>6, MmioIs
<1> HIDE DEF U
<1>8. check_page(m) = Mem(E, Blank, G, MMIOBASE + 3)
  <2>1. check_page(m) = [mmio_map_region(mmio_map_region(m, 0, 2), 0, 1) EXCEPT !.pte = m.pte]
    BY DEF check_page
  <2>2. m.pte = Blank
    BY DEF Mem
  <2> HIDE DEF m
  <2>3. check_page(m) = [Mem(E, U, G, MMIOBASE + 2 + 1) EXCEPT !.pte = Blank]
    BY <1>4, <1>7, <2>1, <2>2
  <2>4. MMIOBASE + 2 + 1 = MMIOBASE + 3
    BY <1>0
  <2>5. [Mem(E, U, G, MMIOBASE + 3) EXCEPT !.pte = Blank] = Mem(E, Blank, G, MMIOBASE + 3)
    BY DEF Mem
  <2> QED
    BY <2>3, <2>4, <2>5
<1> QED
  BY <1>1, <1>2, <1>3, <1>5, <1>8

-----------------------------------------------------------------------------
(* The stacks.                                                             *)

\* Page v is that of a stack; and of which.
OwnPage(c) == kstacktop(c) - 1
OfStack(v, n) == \E c \in 0 .. n - 1 : v = OwnPage(c)
WithStacks(T, n) == [v \in Vas |-> IF OfStack(v, n)
                                   THEN [pa |-> percpu_kstacks(CHOOSE c \in CpuIds : v = OwnPage(c)), perm |-> {"W"}]
                                   ELSE T[v]]

LEMMA StackPages ==
    /\ \A c \in CpuIds : /\ InTable(5, OwnPage(c), 1) /\ OwnPage(c) \in Vas /\ OwnPage(c) - 1 \in Vas
                         /\ OwnPage(c) >= MMIOLIM + 1 /\ OwnPage(c) < KERNBASE /\ percpu_kstacks(c) \in Nat
                         /\ kstacktop(c) - KSTKSIZE = OwnPage(c) /\ c \in Nat
    /\ \A c, d \in CpuIds : (OwnPage(c) = OwnPage(d) => c = d) /\ OwnPage(c) - 1 # OwnPage(d)
    /\ \A c \in CpuIds : (CHOOSE d \in CpuIds : OwnPage(c) = OwnPage(d)) = c
<1>1. /\ NCPU \in Nat /\ PTSIZE \in Nat /\ PTSIZE >= 2 * NCPU /\ PTSIZE > 16 /\ KSTACKTOP = 6 * PTSIZE
      /\ MMIOLIM = 5 * PTSIZE /\ KERNBASE = 6 * PTSIZE /\ Vas = 0 .. 8 * PTSIZE - 1
  BY Layout, SizeAssumption
<1>2. \A c \in CpuIds : c \in Nat /\ c <= NCPU - 1 /\ OwnPage(c) = 6 * PTSIZE - 2 * c - 1
  BY <1>1 DEF CpuIds, OwnPage, kstacktop, KSTKSIZE, KSTKGAP
<1>3. \A c \in CpuIds : /\ InTable(5, OwnPage(c), 1) /\ OwnPage(c) \in Vas /\ OwnPage(c) - 1 \in Vas
                        /\ OwnPage(c) >= MMIOLIM + 1 /\ OwnPage(c) < KERNBASE /\ percpu_kstacks(c) \in Nat
                        /\ kstacktop(c) - KSTKSIZE = OwnPage(c) /\ c \in Nat
  BY <1>1, <1>2, SMTT(30) DEF InTable, percpu_kstacks, OwnPage, KSTKSIZE
<1>4. \A c, d \in CpuIds : (OwnPage(c) = OwnPage(d) => c = d) /\ OwnPage(c) - 1 # OwnPage(d)
  BY <1>1, <1>2, SMTT(30)
<1>5. \A c \in CpuIds : (CHOOSE d \in CpuIds : OwnPage(c) = OwnPage(d)) = c
  BY <1>4
<1> QED
  BY <1>3, <1>4, <1>5

\* What each stack adds.
LEMMA OneMoreStack ==
    ASSUME NEW T, NEW n \in 1 .. NCPU
    PROVE  PutPages(WithStacks(T, n - 1), OwnPage(n - 1), 1, percpu_kstacks(n - 1), {"W"}) = WithStacks(T, n)
<1> DEFINE c == n - 1
           S == WithStacks(T, n - 1)
           P == PutPages(S, OwnPage(c), 1, percpu_kstacks(c), {"W"})
<1>1. c \in CpuIds /\ c \in Nat /\ 0 .. n - 1 = (0 .. c - 1) \cup {c} /\ n - 1 = c
  BY Layout DEF CpuIds
<1>2. OwnPage(c) \in Nat /\ percpu_kstacks(c) \in Nat /\ OwnPage(c) .. OwnPage(c) + 1 - 1 = {OwnPage(c)}
  BY <1>1, StackPages DEF InTable
<1>3. \A v : OfStack(v, n) <=> OfStack(v, n - 1) \/ v = OwnPage(c)
  BY <1>1 DEF OfStack
<1>4. \A v \in Vas : P[v] = WithStacks(T, n)[v]
  <2> TAKE v \in Vas
  <2>1. CASE v = OwnPage(c)
    <3>1. P[v] = [pa |-> percpu_kstacks(c), perm |-> {"W"}]
      <4>1. percpu_kstacks(c) + v - OwnPage(c) = percpu_kstacks(c)
        BY <1>2, <2>1
      <4> HIDE DEF S
      <4> QED
        BY <1>2, <2>1, <4>1 DEF PutPages
    <3>2. (CHOOSE d \in CpuIds : v = OwnPage(d)) = c
      BY <1>1, <2>1, StackPages
    <3>3. OfStack(v, n)
      BY <1>3, <2>1
    <3> HIDE DEF P, c
    <3> QED
      BY <3>1, <3>2, <3>3 DEF WithStacks
  <2>2. CASE v # OwnPage(c)
    <3>1. P[v] = S[v]
      <4> HIDE DEF S
      <4> QED
        BY <1>2, <2>2 DEF PutPages
    <3>2. OfStack(v, n) <=> OfStack(v, n - 1)
      BY <1>3, <2>2
    <3>3. S[v] = WithStacks(T, n)[v]
      BY <3>2 DEF WithStacks
    <3> QED
      BY <3>1, <3>3
  <2> QED
    BY <2>1, <2>2
<1>5. P = [v \in Vas |-> P[v]] /\ WithStacks(T, n) = [v \in Vas |-> WithStacks(T, n)[v]]
  BY DEF PutPages, WithStacks
<1> HIDE DEF P
<1>6. P = WithStacks(T, n)
  BY <1>4, <1>5
<1> QED
  BY <1>6 DEF P

\* mem_init_mp() gives the stacks a table, and each its page.
StacksThere(D, T, F, B, S) ==
    \E E, G : /\ mem_init_mp(Mem(D, T, F, B)) = Mem(E, WithStacks(T, NCPU), G, B)
              /\ Shaped(E, S \cup {5}) /\ E[6] = D[6] /\ E[7] = D[7] /\ G \in Seq(Pages)

LEMMA StacksMapped ==
    ASSUME NEW D, NEW T, NEW F \in Seq(Pages), NEW B, NEW S \in SUBSET (0 .. 7), 5 \notin S,
           Shaped(D, S), Stocked(F, 1), T = [v \in Vas |-> T[v]]
    PROVE  StacksThere(D, T, F, B, S)
<1> DEFINE m == Mem(D, T, F, B)
           w == {"W"}
           Region(n) == <<kstacktop(n - 1) - KSTKSIZE, KSTKSIZE, percpu_kstacks(n - 1), w>>
<1>1. NCPU \in Nat /\ NCPU >= 1 /\ \A n \in 1 .. NCPU : n - 1 \in CpuIds /\ n - 1 \in 0 .. NCPU /\ n \in Nat
  BY BootCpuAssumption DEF CpuIds
<1>2. \A n \in 1 .. NCPU : Region(n) = <<OwnPage(n - 1), 1, percpu_kstacks(n - 1), w>>
  <2> HIDE DEF w
  <2> TAKE n \in 1 .. NCPU
  <2>1. kstacktop(n - 1) - KSTKSIZE = OwnPage(n - 1) /\ KSTKSIZE = 1
    BY <1>1, StackPages DEF KSTKSIZE
  <2> QED
    BY <2>1
<1>3. PICK E, G : /\ Mapped(m, <<OwnPage(0), 1, percpu_kstacks(0), w>>) = Mem(E, PutPages(T, OwnPage(0), 1, percpu_kstacks(0), w), G, B)
                  /\ Shaped(E, S \cup {5}) /\ E[6] = D[6] /\ E[7] = D[7]
                  /\ G \in Seq(Pages) /\ Stocked(G, 0)
  <2>1. InTable(5, OwnPage(0), 1) /\ percpu_kstacks(0) \in Nat
    BY <1>1, StackPages, SMTT(30) DEF CpuIds
  <2>2. 0 \in Nat /\ 1 \in Nat /\ 1 = 1 + 0
    OBVIOUS
  <2> HIDE DEF w
  <2>3. NewTable(D, T, F, B, S, 0, 5, OwnPage(0), 1, percpu_kstacks(0), w)
    BY <2>1, <2>2, MapsAnew
  <2> QED
    BY <2>3 DEF NewTable
<1>4. WithStacks(T, 0) = T
  <2>1. \A v : ~OfStack(v, 0)
    BY DEF OfStack
  <2>2. WithStacks(T, 0) = [v \in Vas |-> T[v]]
    BY <2>1 DEF WithStacks
  <2> QED
    BY <2>2
<1> DEFINE f == [n \in 0 .. NCPU |-> IF n = 0 THEN m ELSE Mem(E, WithStacks(T, n), G, B)]
           Loops(g) == g = [n \in 0 .. NCPU |-> IF n = 0 THEN m ELSE Mapped(g[n - 1], Region(n))]
           after == CHOOSE g : Loops(g)
<1>5. ASSUME NEW n \in 1 .. NCPU PROVE f[n] = Mapped(f[n - 1], Region(n))
  <2>1. f[n] = Mem(E, WithStacks(T, n), G, B)
    BY <1>1
  <2>2. PutPages(WithStacks(T, n - 1), OwnPage(n - 1), 1, percpu_kstacks(n - 1), w) = WithStacks(T, n)
    BY OneMoreStack
  <2>3. CASE n = 1
    <3>1. n - 1 = 0 /\ f[n - 1] = m
      BY <1>1, <2>3
    <3>2. Region(n) = <<OwnPage(0), 1, percpu_kstacks(0), w>>
      BY <1>2, <3>1
    <3>3. PutPages(T, OwnPage(0), 1, percpu_kstacks(0), w) = WithStacks(T, n)
      BY <1>4, <2>2, <3>1
    <3> HIDE DEF f, m, w, Region
    <3> QED
      BY <1>3, <2>1, <3>1, <3>2, <3>3
  <2>4. CASE n # 1
    <3>1. f[n - 1] = Mem(E, WithStacks(T, n - 1), G, B)
      BY <1>1, <2>4
    <3>2. InTable(5, OwnPage(n - 1), 1) /\ percpu_kstacks(n - 1) \in Nat
      BY <1>1, StackPages
    <3> DEFINE R == S \cup {5}
    <3>3. 5 \in R /\ R \in SUBSET (0 .. 7) /\ Shaped(E, R)
      BY <1>3
    <3> HIDE DEF f, w, Region, R
    <3>4. Mapped(f[n - 1], <<OwnPage(n - 1), 1, percpu_kstacks(n - 1), w>>)
            = Mem(E, PutPages(WithStacks(T, n - 1), OwnPage(n - 1), 1, percpu_kstacks(n - 1), w), Rest(G, {}), B)
      BY <3>1, <3>2, <3>3, MapsAgain
    <3>5. Rest(G, {}) = G
      BY <1>3, RestOfNone
    <3> QED
      BY <1>2, <2>1, <2>2, <3>4, <3>5
  <2> QED
    BY <2>3, <2>4
<1>6. f[0] = m /\ f = [n \in 0 .. NCPU |-> f[n]]
  BY <1>1
<1>7. f[NCPU] = Mem(E, WithStacks(T, NCPU), G, B)
  BY <1>1
<1> HIDE DEF f, m, Region
<1>8. Loops(f)
  <2>1. \A n \in 0 .. NCPU : f[n] = IF n = 0 THEN m ELSE Mapped(f[n - 1], Region(n))
    <3>1. \A n \in 0 .. NCPU : n = 0 \/ n \in 1 .. NCPU
      BY <1>1
    <3> QED
      BY <1>5, <1>6, <3>1
  <2> QED
    BY <1>6, <2>1
<1>9. Loops(after)
  <2> HIDE DEF Loops
  <2> QED
    BY <1>8
<1>10. mem_init_mp(m) = after[NCPU]
  BY DEF mem_init_mp, Region
<1> HIDE DEF after
<1>11. after[NCPU] = f[NCPU]
  <2> DEFINE Same == {n \in Nat : n \in 0 .. NCPU => after[n] = f[n]}
  <2>1. \A n \in 0 .. NCPU : after[n] = IF n = 0 THEN m ELSE Mapped(after[n - 1], Region(n))
    BY <1>9
  <2>2. 0 \in Same
    BY <1>1, <1>6, <2>1
  <2>3. ASSUME NEW n \in Nat, n \in Same PROVE n + 1 \in Same
    <3> SUFFICES ASSUME n + 1 \in 0 .. NCPU PROVE after[n + 1] = f[n + 1]
      OBVIOUS
    <3>1. n \in 0 .. NCPU /\ n + 1 \in 1 .. NCPU /\ n + 1 # 0 /\ (n + 1) - 1 = n
      BY <1>1
    <3>2. after[n] = f[n]
      BY <2>3, <3>1
    <3>3. f[n + 1] = Mapped(f[n], Region(n + 1))
      BY <1>5, <3>1
    <3>4. after[n + 1] = Mapped(after[n], Region(n + 1))
      BY <2>1, <3>1
    <3> QED
      BY <3>2, <3>3, <3>4
  <2> HIDE DEF Same
  <2>4. NCPU \in Same /\ NCPU \in 0 .. NCPU
    BY <1>1, <2>2, <2>3, NatInduct
  <2> QED
    BY <2>4 DEF Same
<1> QED
  BY <1>3, <1>7, <1>10, <1>11 DEF m, StacksThere

-----------------------------------------------------------------------------
(* The memory that mem_init() builds, and what becomes of it.              *)

Pte(pa, right) == [pa |-> pa, perm |-> {right}]
Apart(v) == v < KERNBASE /\ v # UENVS /\ v # UPAGES /\ ~OfStack(v, NCPU)

Built(m) ==
    /\ m = Mem(m.dir, m.pte, m.free, m.base)
    /\ Shaped(m.dir, {1, 2, 4, 5}) /\ High(m.dir, m.pte)
    /\ m.pte[UPAGES] = Pte(pages, "U") /\ m.pte[UENVS] = Pte(envs, "U")
    /\ \A c \in CpuIds : m.pte[OwnPage(c)] = Pte(percpu_kstacks(c), "W")
    /\ \A v \in Vas : Apart(v) => \/ m.pte[v] = NotPresent
                                  \/ v \in MMIOBASE .. MMIOLIM - 1 /\ m.pte[v] = Pte(lapicaddr, "W")
    /\ m.base \in MMIOBASE + 3 .. MMIOLIM

LEMMA MemoryIsBuilt == Built(mem_init) /\ mem_init.free \in Seq(Pages)
<1> DEFINE B == MMIOBASE + 3
           u == {"U"}
           w == {"W"}
           kern == <<KERNBASE, npages, 0, w>>
<1>1. /\ PTSIZE \in Nat /\ PTSIZE > 16 /\ UENVS = PTSIZE /\ UPAGES = 2 * PTSIZE /\ MMIOBASE = 4 * PTSIZE
      /\ MMIOLIM = 5 * PTSIZE /\ KERNBASE = 6 * PTSIZE /\ npages = 2 * PTSIZE /\ Vas = 0 .. 8 * PTSIZE - 1
      /\ NCPU \in Nat
  BY Layout
<1>2. pages \in Nat /\ envs \in Nat
  BY <1>1 DEF pages, envs, kern_pgdir
<1> DEFINE first == check_page([EmptyMemory EXCEPT !.dir[PDX(UVPT)] = Self, !.free = LowFirst(page_init)])
           T1 == PutPages(Blank, UPAGES, 1, pages, u)
           T2 == PutPages(T1, UENVS, 1, envs, u)
<1>3. mem_init = mem_init_mp(Mapped(Mapped(Mapped(first, <<UPAGES, 1, pages, u>>), <<UENVS, 1, envs, u>>), kern))
  BY DEF mem_init
<1>4. PICK D1, F1 : /\ first = Mem(D1, Blank, F1, B)
                    /\ Shaped(D1, {4}) /\ D1[6] = NoPde /\ D1[7] = NoPde /\ F1 \in Seq(Pages) /\ Stocked(F1, 5)
  BY FirstMemory
<1> HIDE DEF first, B, u, w
<1>5. PICK D2, F2 : /\ Mapped(first, <<UPAGES, 1, pages, u>>) = Mem(D2, T1, F2, B)
                    /\ Shaped(D2, {4, 2}) /\ D2[6] = NoPde /\ D2[7] = NoPde /\ F2 \in Seq(Pages) /\ Stocked(F2, 4)
  <2>1. InTable(2, UPAGES, 1)
    BY <1>1 DEF InTable
  <2>2. {4} \in SUBSET (0 .. 7) /\ 2 \notin {4} /\ 4 \in Nat /\ 5 \in Nat /\ 5 = 1 + 4 /\ {4, 2} = {4} \cup {2}
    OBVIOUS
  <2>3. NewTable(D1, Blank, F1, B, {4}, 4, 2, UPAGES, 1, pages, u)
    BY <1>2, <1>4, <2>1, <2>2, MapsAnew
  <2> QED
    BY <1>4, <2>2, <2>3 DEF NewTable
<1> HIDE DEF T1
<1>6. PICK D3, F3 : /\ Mapped(Mem(D2, T1, F2, B), <<UENVS, 1, envs, u>>) = Mem(D3, T2, F3, B)
                    /\ Shaped(D3, {4, 2, 1}) /\ D3[6] = NoPde /\ D3[7] = NoPde /\ F3 \in Seq(Pages) /\ Stocked(F3, 3)
  <2>1. InTable(1, UENVS, 1)
    BY <1>1 DEF InTable
  <2>2. {4, 2} \in SUBSET (0 .. 7) /\ 1 \notin {4, 2} /\ 3 \in Nat /\ 4 \in Nat /\ 4 = 1 + 3 /\ {4, 2, 1} = {4, 2} \cup {1}
    OBVIOUS
  <2>3. NewTable(D2, T1, F2, B, {4, 2}, 3, 1, UENVS, 1, envs, u)
    BY <1>2, <1>5, <2>1, <2>2, MapsAnew
  <2> QED
    BY <1>5, <2>2, <2>3 DEF NewTable
<1>7. /\ T2 = [v \in Vas |-> T2[v]]
      /\ T2[UPAGES] = Pte(pages, "U") /\ T2[UENVS] = Pte(envs, "U")
      /\ \A v \in Vas : v # UENVS /\ v # UPAGES => T2[v] = NotPresent
  <2>1. /\ UPAGES \in Vas /\ UENVS \in Vas /\ UPAGES # UENVS
        /\ UPAGES .. UPAGES + 1 - 1 = {UPAGES} /\ UENVS .. UENVS + 1 - 1 = {UENVS}
        /\ pages + UPAGES - UPAGES = pages /\ envs + UENVS - UENVS = envs
    BY <1>1, <1>2
  <2>2. \A v \in Vas : T1[v] = IF v = UPAGES THEN [pa |-> pages + v - UPAGES, perm |-> u] ELSE NotPresent
    BY <2>1 DEF T1, PutPages, Blank
  <2>3. \A v \in Vas : T2[v] = IF v = UENVS THEN [pa |-> envs + v - UENVS, perm |-> u] ELSE T1[v]
    BY <2>1 DEF PutPages
  <2>4. T2 = [v \in Vas |-> T2[v]]
    BY DEF PutPages
  <2> HIDE DEF T2
  <2> QED
    BY <2>1, <2>2, <2>3, <2>4 DEF u, Pte
<1> HIDE DEF T2
<1>8. PICK D4, T4, F4 : /\ Mapped(Mem(D3, T2, F3, B), kern) = Mem(D4, T4, F4, B)
                        /\ Shaped(D4, {4, 2, 1}) /\ F4 \in Seq(Pages) /\ Stocked(F4, 1)
                        /\ High(D4, T4) /\ T4 = [v \in Vas |-> T4[v]]
                        /\ \A v \in Vas : v < KERNBASE => T4[v] = T2[v]
  <2>1. {4, 2, 1} \in SUBSET {0, 1, 2, 3, 4, 5} /\ 1 \in Nat /\ 3 \in Nat /\ 3 = 2 + 1
    OBVIOUS
  <2>2. CASE pse
    <3>1. PICK E : /\ Mapped(Mem(D3, T2, F3, B), kern) = Mem(E, [v \in Vas |-> T2[v]], F3, B)
                   /\ Shaped(E, {4, 2, 1}) /\ E[6] = Large(0, {"W"}) /\ E[7] = Large(PTSIZE, {"W"})
      <4>1. LargeMapped(D3, T2, F3, B, {4, 2, 1})
        BY <1>6, <2>1, <2>2, MapsLarge
      <4> QED
        BY <4>1 DEF LargeMapped, w
    <3>2. Stocked(F3, 1)
      <4>1. \A j \in 1 .. 1 : j \in 1 .. 3
        OBVIOUS
      <4>2. Len(F3) \in Nat /\ 3 < Len(F3)
        BY <1>6 DEF Stocked
      <4>3. 1 < Len(F3)
        BY <4>2
      <4> QED
        BY <1>6, <4>1, <4>3 DEF Stocked
    <3>3. High(E, T2)
      BY <3>1 DEF High
    <3> HIDE DEF kern
    <3> QED
      BY <1>6, <1>7, <3>1, <3>2, <3>3
  <2>3. CASE ~pse
    <3> DEFINE U == PutPages(T2, KERNBASE, npages, 0, {"W"})
    <3>1. PICK E, G : /\ Mapped(Mem(D3, T2, F3, B), kern) = Mem(E, U, G, B)
                      /\ Shaped(E, {4, 2, 1}) /\ LowTable(E[6]) /\ LowTable(E[7]) /\ G \in Seq(Pages) /\ Stocked(G, 1)
      <4>1. TwoTablesMapped(D3, T2, F3, B, {4, 2, 1}, 1)
        BY <1>6, <2>1, <2>3, MapsTwoTables
      <4> QED
        BY <4>1 DEF TwoTablesMapped, w
    <3>2. \A p \in Pages : U[KADDR(p)] = [pa |-> p, perm |-> {"W"}]
      <4> TAKE p \in Pages
      <4>1. KADDR(p) \in Vas /\ KADDR(p) \in KERNBASE .. KERNBASE + npages - 1 /\ 0 + KADDR(p) - KERNBASE = p
        BY <1>1 DEF Pages, KADDR
      <4> QED
        BY <4>1 DEF PutPages
    <3>3. High(E, U)
      BY <3>1, <3>2 DEF High
    <3>4. U = [v \in Vas |-> U[v]] /\ \A v \in Vas : v < KERNBASE => U[v] = T2[v]
      <4>1. \A v \in Vas : v < KERNBASE => v \notin KERNBASE .. KERNBASE + npages - 1
        BY <1>1
      <4> QED
        BY <4>1 DEF PutPages
    <3> HIDE DEF kern, U
    <3> QED
      BY <3>1, <3>3, <3>4
  <2> QED
    BY <2>2, <2>3
<1> DEFINE T5 == WithStacks(T4, NCPU)
<1>9. PICK D5, F5 : /\ mem_init_mp(Mem(D4, T4, F4, B)) = Mem(D5, T5, F5, B)
                    /\ Shaped(D5, {4, 2, 1} \cup {5}) /\ D5[6] = D4[6] /\ D5[7] = D4[7] /\ F5 \in Seq(Pages)
  <2>1. {4, 2, 1} \in SUBSET (0 .. 7) /\ 5 \notin {4, 2, 1}
    OBVIOUS
  <2> QED
    <3>1. StacksThere(D4, T4, F4, B, {4, 2, 1})
      BY <1>8, <2>1, StacksMapped
    <3> QED
      BY <3>1 DEF StacksThere
<1>10. mem_init = Mem(D5, T5, F5, B)
  <2> HIDE DEF T5, kern
  <2> QED
    BY <1>3, <1>5, <1>6, <1>8, <1>9
<1>11. \A c \in CpuIds : T5[OwnPage(c)] = Pte(percpu_kstacks(c), "W")
  <2> TAKE c \in CpuIds
  <2>1. OfStack(OwnPage(c), NCPU) /\ OwnPage(c) \in Vas /\ (CHOOSE d \in CpuIds : OwnPage(c) = OwnPage(d)) = c
    BY StackPages DEF OfStack, CpuIds
  <2> QED
    BY <2>1 DEF WithStacks, Pte
<1>12. \A v \in Vas : ~OfStack(v, NCPU) => T5[v] = T4[v]
  BY DEF WithStacks
<1>13. ~OfStack(UPAGES, NCPU) /\ ~OfStack(UENVS, NCPU) /\ \A p \in Pages : ~OfStack(KADDR(p), NCPU) /\ KADDR(p) \in Vas
  <2>1. \A c \in 0 .. NCPU - 1 : OwnPage(c) > MMIOLIM /\ OwnPage(c) < KERNBASE /\ OwnPage(c) \in Nat
    BY <1>1, StackPages DEF CpuIds, InTable
  <2> QED
    BY <1>1, <2>1 DEF OfStack, KADDR, Pages
<1>14. UPAGES \in Vas /\ UENVS \in Vas /\ UPAGES < KERNBASE /\ UENVS < KERNBASE /\ B \in MMIOBASE + 3 .. MMIOLIM
  BY <1>1 DEF B
<1> HIDE DEF T5
<1>15. High(D5, T5)
  <2>1. ASSUME NEW p \in Pages PROVE T5[KADDR(p)] = T4[KADDR(p)]
    BY <1>12, <1>13
  <2> QED
    BY <1>8, <1>9, <2>1 DEF High
<1>16. Shaped(D5, {1, 2, 4, 5})
  <2>1. {4, 2, 1} \cup {5} = {1, 2, 4, 5}
    OBVIOUS
  <2> QED
    BY <1>9, <2>1
<1> DEFINE m == Mem(D5, T5, F5, B)
<1>17. m.dir = D5 /\ m.pte = T5 /\ m.free = F5 /\ m.base = B
  BY DEF Mem
<1>18. T5[UPAGES] = Pte(pages, "U") /\ T5[UENVS] = Pte(envs, "U")
  BY <1>7, <1>8, <1>12, <1>13, <1>14
<1>19. \A v \in Vas : Apart(v) => T5[v] = NotPresent
  BY <1>7, <1>8, <1>12 DEF Apart
<1>20. m = Mem(m.dir, m.pte, m.free, m.base)
  BY <1>17
<1> HIDE DEF m
<1>21. Built(m)
  BY <1>11, <1>14, <1>15, <1>16, <1>17, <1>18, <1>19, <1>20 DEF Built
<1> QED
  BY <1>9, <1>10, <1>17, <1>21 DEF m

\* lapic_init() adds one page of devices.
LEMMA LapicMapped ==
    ASSUME NEW m, Built(m), m.base + 1 < MMIOLIM
    PROVE  LET h == mmio_map_region(m, lapicaddr, 1)
           IN  /\ Built(h) /\ h.dir = m.dir /\ h.base = m.base + 1
               /\ h.pte[m.base] = Pte(lapicaddr, "W") /\ \A v \in Vas : v # m.base => h.pte[v] = m.pte[v]
<1> DEFINE D == m.dir
           T == m.pte
           F == m.free
           B == m.base
           w == {"W"}
           U == PutPages(T, B, 1, lapicaddr, w)
           h == mmio_map_region(m, lapicaddr, 1)
<1>1. /\ PTSIZE \in Nat /\ PTSIZE > 16 /\ UENVS = PTSIZE /\ UPAGES = 2 * PTSIZE /\ MMIOBASE = 4 * PTSIZE
      /\ MMIOLIM = 5 * PTSIZE /\ KERNBASE = 6 * PTSIZE /\ npages = 2 * PTSIZE /\ Vas = 0 .. 8 * PTSIZE - 1
      /\ NCPU \in Nat /\ lapicaddr \in Nat
  BY Layout DEF lapicaddr
<1>2. m = Mem(D, T, F, B) /\ Shaped(D, {1, 2, 4, 5}) /\ B \in MMIOBASE + 3 .. MMIOLIM /\ B + 1 < MMIOLIM
  BY DEF Built
<1> HIDE DEF D, T, F, B
<1>3. mmio_map_region(Mem(D, T, F, B), lapicaddr, 1) = Mem(D, U, Rest(F, {}), B + 1)
  <2>1. InTable(4, B, 1)
    BY <1>1, <1>2 DEF InTable
  <2> DEFINE S == {1, 2, 4, 5}
  <2>2. S \in SUBSET (0 .. 7) /\ 4 \in S /\ Shaped(D, S)
    BY <1>2
  <2> HIDE DEF w, S
  <2>3. Mapped(Mem(D, T, F, B), <<B, 1, lapicaddr, w>>) = Mem(D, U, Rest(F, {}), B)
    BY <1>1, <2>1, <2>2, MapsAgain
  <2> HIDE DEF U
  <2> QED
    BY <2>3, MmioIs DEF w
<1>4. h = Mem(D, U, Rest(F, {}), B + 1)
  BY <1>2, <1>3
<1>5. h.dir = D /\ h.pte = U /\ h.free = Rest(F, {}) /\ h.base = B + 1
  <2> HIDE DEF h
  <2> QED
    BY <1>4 DEF Mem
<1> HIDE DEF h
<1>6. \A v \in Vas : U[v] = IF v = B THEN Pte(lapicaddr, "W") ELSE T[v]
  <2>1. B .. B + 1 - 1 = {B} /\ lapicaddr + B - B = lapicaddr
    BY <1>1, <1>2
  <2> QED
    BY <2>1 DEF PutPages, Pte
<1>7. /\ B \in Vas /\ B # UPAGES /\ B # UENVS /\ UPAGES \in Vas /\ UENVS \in Vas /\ B \in MMIOBASE .. MMIOLIM - 1
      /\ \A p \in Pages : KADDR(p) \in Vas /\ KADDR(p) # B
      /\ B + 1 \in MMIOBASE + 3 .. MMIOLIM
  BY <1>1, <1>2 DEF Pages, KADDR
<1>8. \A c \in CpuIds : OwnPage(c) \in Vas /\ OwnPage(c) # B
  <2>1. \A c \in CpuIds : OwnPage(c) \in Vas /\ OwnPage(c) > MMIOLIM
    BY <1>1, StackPages DEF InTable
  <2> QED
    BY <1>1, <1>2, <2>1
<1> HIDE DEF U
<1>9. High(D, U)
  <2>1. High(D, T)
    BY DEF Built, D, T
  <2> QED
    BY <1>6, <1>7, <2>1 DEF High
<1>10. U[UPAGES] = Pte(pages, "U") /\ U[UENVS] = Pte(envs, "U")
  BY <1>6, <1>7 DEF Built, T
<1>11. \A c \in CpuIds : U[OwnPage(c)] = Pte(percpu_kstacks(c), "W")
  BY <1>6, <1>8 DEF Built, T
<1>12. \A v \in Vas : Apart(v) => \/ U[v] = NotPresent
                                  \/ v \in MMIOBASE .. MMIOLIM - 1 /\ U[v] = Pte(lapicaddr, "W")
  <2>1. \A v \in Vas : Apart(v) => \/ T[v] = NotPresent
                                   \/ v \in MMIOBASE .. MMIOLIM - 1 /\ T[v] = Pte(lapicaddr, "W")
    BY DEF Built, T
  <2> QED
    BY <1>6, <1>7, <2>1
<1>13. Built(h)
  BY <1>2, <1>4, <1>5, <1>7, <1>9, <1>10, <1>11, <1>12 DEF Built
<1> QED
  BY <1>5, <1>6, <1>7, <1>13 DEF h, D, T, B

\* A page given away changes nothing that is mapped.
LEMMA PageGiven ==
    ASSUME NEW m, Built(m), NEW G
    PROVE  LET h == [m EXCEPT !.free = G]
           IN  Built(h) /\ h.dir = m.dir /\ h.pte = m.pte /\ h.base = m.base
<1> DEFINE h == [m EXCEPT !.free = G]
<1>1. m = Mem(m.dir, m.pte, m.free, m.base)
  BY DEF Built
<1>2. h = Mem(m.dir, m.pte, G, m.base)
  BY <1>1 DEF Mem
<1> HIDE DEF h
<1>3. h.dir = m.dir /\ h.pte = m.pte /\ h.free = G /\ h.base = m.base
  BY <1>2 DEF Mem
<1>4. h = Mem(h.dir, h.pte, h.free, h.base)
  BY <1>2, <1>3
<1>5. Built(h)
  BY <1>3, <1>4 DEF Built
<1> QED
  BY <1>3, <1>5 DEF h

-----------------------------------------------------------------------------
(* What a CPU sees.                                                        *)

LEMMA Remainder ==
    ASSUME NEW n \in 0 .. 7, NEW a \in Nat, n * PTSIZE <= a, a < n * PTSIZE + PTSIZE
    PROVE  PDX(a) = n /\ a % PTSIZE = a - n * PTSIZE
<1>1. PTSIZE \in Nat \ {0}
  BY Layout
<1>2. PDX(a) = n
  BY PdxIs
<1>3. \A p \in Nat \ {0}, b \in Nat : b % p = b - p * (b \div p)
  OBVIOUS
<1>4. a % PTSIZE = a - PTSIZE * n
  BY <1>1, <1>2, <1>3 DEF PDX
<1>5. PTSIZE * n = n * PTSIZE
  BY <1>1
<1> QED
  BY <1>2, <1>4, <1>5

\* entry_pgdir maps what is below PTSIZE twice.
LEMMA EntryMaps ==
    ASSUME NEW p \in 0 .. PTSIZE - 1
    PROVE  /\ TranslatedBy(entry_pgdir, p) = [pa |-> p, perm |-> {}]
           /\ TranslatedBy(entry_pgdir, KADDR(p)) = Pte(p, "W")
<1>1. PTSIZE \in Nat \ {0} /\ KERNBASE = 6 * PTSIZE
  BY Layout
<1>2. PDX(p) = 0 /\ p % PTSIZE = p
  <2>1. p \in Nat /\ 0 * PTSIZE <= p /\ p < 0 * PTSIZE + PTSIZE /\ p - 0 * PTSIZE = p /\ 0 \in 0 .. 7
    BY <1>1
  <2> QED
    BY <2>1, Remainder
<1>3. PDX(KADDR(p)) = 6 /\ KADDR(p) % PTSIZE = p /\ PDX(KERNBASE) = 6
  <2>1. /\ KADDR(p) \in Nat /\ 6 * PTSIZE <= KADDR(p) /\ KADDR(p) < 6 * PTSIZE + PTSIZE /\ KADDR(p) - 6 * PTSIZE = p
        /\ KERNBASE \in Nat /\ KERNBASE < 6 * PTSIZE + PTSIZE /\ 6 \in 0 .. 7
    BY <1>1 DEF KADDR
  <2> QED
    BY <1>1, <2>1, Remainder, SMTT(30)
<1>4. entry_pgdir[0] = Large(0, {}) /\ entry_pgdir[6] = Large(0, {"W"})
  BY <1>3, PdxsAre DEF entry_pgdir
<1>5. TranslatedBy(entry_pgdir, p) = [pa |-> p, perm |-> {}]
  <2>1. 0 + p = p
    OBVIOUS
  <2>2. entry_pgdir[PDX(p)] = Large(0, {})
    BY <1>2, <1>4
  <2>3. Large(0, {}).kind = "large" /\ Large(0, {}).pa = 0 /\ Large(0, {}).perm = {}
    BY DEF Large
  <2> QED
    BY <1>2, <2>1, <2>2, <2>3 DEF TranslatedBy
<1>6. TranslatedBy(entry_pgdir, KADDR(p)) = Pte(p, "W")
  <2>1. 0 + p = p
    OBVIOUS
  <2>2. entry_pgdir[PDX(KADDR(p))] = Large(0, {"W"})
    BY <1>3, <1>4
  <2>3. Large(0, {"W"}).kind = "large" /\ Large(0, {"W"}).pa = 0 /\ Large(0, {"W"}).perm = {"W"}
    BY DEF Large
  <2> QED
    BY <1>3, <2>1, <2>2, <2>3 DEF TranslatedBy, Pte
<1> QED
  BY <1>5, <1>6

\* Below KERNBASE a table's entries are what a CPU sees.
LEMMA TablesShow ==
    ASSUME Built(memory), NEW v \in Vas, v >= UENVS, v < KERNBASE, PDX(v) # 3
    PROVE  TranslatedBy(memory.dir, v) = memory.pte[v]
<1>1. PDX(v) \in {1, 2, 4, 5}
  <2>1. PTSIZE \in Nat /\ UENVS = PTSIZE /\ KERNBASE = 6 * PTSIZE /\ v \in Nat
    BY Layout
  <2>2. PDX(v) \in 0 .. 7 /\ PDX(v) * PTSIZE <= v /\ v < PDX(v) * PTSIZE + PTSIZE
    BY PdxOf
  <2> DEFINE d == PDX(v)
  <2>3. d \in 0 .. 7 /\ d # 3 /\ d * PTSIZE <= v /\ v < d * PTSIZE + PTSIZE
    BY <2>2
  <2> HIDE DEF d
  <2>4. d = 0 \/ d = 1 \/ d = 2 \/ d = 4 \/ d = 5 \/ d = 6 \/ d = 7
    BY <2>3
  <2>5. d # 0
    BY <2>1, <2>3
  <2>6. d # 6 /\ d # 7
    BY <2>1, <2>3
  <2> QED
    BY <2>4, <2>5, <2>6 DEF d
<1>2. memory.dir[PDX(v)].kind = "table"
  <2>1. \A i \in {1, 2, 4, 5} : LowTable(memory.dir[i])
    BY DEF Built, Shaped
  <2>2. PICK q : memory.dir[PDX(v)] = Table(q)
    BY <1>1, <2>1 DEF LowTable
  <2>3. Table(q).kind = "table"
    BY DEF Table
  <2> QED
    BY <2>2, <2>3
<1> QED
  BY <1>2 DEF TranslatedBy

\* The kernel sees memory at KERNBASE.
LEMMA HighShows ==
    ASSUME Built(memory), NEW p \in Pages
    PROVE  TranslatedBy(memory.dir, KADDR(p)) = Pte(p, "W") /\ KADDR(p) \in Vas
<1> DEFINE D == memory.dir
           v == KADDR(p)
<1>1. PTSIZE \in Nat \ {0} /\ KERNBASE = 6 * PTSIZE /\ p \in Nat /\ p < 2 * PTSIZE /\ v = 6 * PTSIZE + p /\ v \in Nat /\ v \in Vas
  BY Layout DEF Pages, KADDR
<1> HIDE DEF v
<1>2. \/ PDX(v) = 6 /\ v % PTSIZE = p
      \/ PDX(v) = 7 /\ v % PTSIZE = p - PTSIZE
  <2>1. CASE p < PTSIZE
    <3>1. 6 * PTSIZE <= v /\ v < 6 * PTSIZE + PTSIZE /\ v - 6 * PTSIZE = p /\ 6 \in 0 .. 7
      BY <1>1, <2>1
    <3> QED
      BY <1>1, <3>1, Remainder
  <2>2. CASE ~ (p < PTSIZE)
    <3>1. 7 * PTSIZE <= v /\ v < 7 * PTSIZE + PTSIZE /\ v - 7 * PTSIZE = p - PTSIZE /\ 7 \in 0 .. 7
      BY <1>1, <2>2
    <3> QED
      BY <1>1, <3>1, Remainder
  <2> QED
    BY <2>1, <2>2
<1>3. High(D, memory.pte)
  BY DEF Built
<1>4. CASE D[6] = Large(0, {"W"}) /\ D[7] = Large(PTSIZE, {"W"})
  <2>1. 0 + p = p /\ PTSIZE + (p - PTSIZE) = p
    BY <1>1
  <2>2. \A x : /\ Large(x, {"W"}).kind = "large" /\ Large(x, {"W"}).pa = x /\ Large(x, {"W"}).perm = {"W"}
    BY DEF Large
  <2> DEFINE x == D[PDX(v)].pa
             y == v % PTSIZE
  <2>3. D[PDX(v)].kind = "large" /\ D[PDX(v)].perm = {"W"} /\ (PDX(v) = 6 => x = 0) /\ (PDX(v) = 7 => x = PTSIZE)
    BY <1>2, <1>4, <2>2
  <2>4. TranslatedBy(D, v) = [pa |-> x + y, perm |-> {"W"}]
    BY <2>3 DEF TranslatedBy
  <2>5. \/ PDX(v) = 6 /\ y = p
        \/ PDX(v) = 7 /\ y = p - PTSIZE
    BY <1>2
  <2> HIDE DEF x, y
  <2>6. x + y = p
    BY <2>1, <2>3, <2>5
  <2>7. TranslatedBy(D, v) = Pte(p, "W")
    BY <2>4, <2>6 DEF Pte
  <2> QED
    BY <1>1, <2>7 DEF v
<1>5. CASE /\ LowTable(D[6]) /\ LowTable(D[7])
           /\ \A q \in Pages : memory.pte[KADDR(q)] = [pa |-> q, perm |-> {"W"}]
  <2>1. D[PDX(v)].kind = "table"
    BY <1>2, <1>5 DEF LowTable, Table
  <2>2. TranslatedBy(D, v) = memory.pte[v]
    BY <2>1 DEF TranslatedBy
  <2> QED
    BY <1>1, <1>5, <2>2 DEF v, Pte
<1> QED
  BY <1>3, <1>4, <1>5 DEF High

\* The pages of its other regions, and none below a stack.
LEMMA RegionsShow ==
    ASSUME Built(memory)
    PROVE  /\ \A c \in CpuIds : /\ TranslatedBy(memory.dir, OwnPage(c)) = Pte(percpu_kstacks(c), "W")
                                /\ TranslatedBy(memory.dir, OwnPage(c) - 1) = NotPresent
           /\ TranslatedBy(memory.dir, UPAGES) = Pte(pages, "U") /\ TranslatedBy(memory.dir, UENVS) = Pte(envs, "U")
           /\ \A v \in MMIOBASE .. MMIOLIM - 1 : TranslatedBy(memory.dir, v) = memory.pte[v] /\ v \in Vas
<1>1. /\ PTSIZE \in Nat /\ PTSIZE > 16 /\ UENVS = PTSIZE /\ UPAGES = 2 * PTSIZE /\ MMIOBASE = 4 * PTSIZE
      /\ MMIOLIM = 5 * PTSIZE /\ KERNBASE = 6 * PTSIZE /\ Vas = 0 .. 8 * PTSIZE - 1
      /\ NCPU \in Nat
  BY Layout
<1>2. \A v \in Vas : v >= MMIOBASE => PDX(v) # 3
  <2> TAKE v \in Vas
  <2>1. PDX(v) = 3 => v < 3 * PTSIZE + PTSIZE
    BY PdxOf
  <2> QED
    BY <1>1, <2>1
<1>3. \A v \in MMIOBASE .. MMIOLIM - 1 : TranslatedBy(memory.dir, v) = memory.pte[v] /\ v \in Vas
  <2> TAKE v \in MMIOBASE .. MMIOLIM - 1
  <2>1. v \in Vas /\ v >= UENVS /\ v < KERNBASE /\ v >= MMIOBASE
    BY <1>1
  <2> QED
    BY <1>2, <2>1, TablesShow
<1>4. ASSUME NEW c \in CpuIds
      PROVE  /\ TranslatedBy(memory.dir, OwnPage(c)) = Pte(percpu_kstacks(c), "W")
             /\ TranslatedBy(memory.dir, OwnPage(c) - 1) = NotPresent
  <2>1. /\ OwnPage(c) \in Vas /\ OwnPage(c) - 1 \in Vas /\ OwnPage(c) \in Nat /\ OwnPage(c) >= MMIOLIM + 1
        /\ OwnPage(c) < KERNBASE
    BY <1>1, StackPages DEF InTable
  <2>2. /\ OwnPage(c) >= UENVS /\ OwnPage(c) >= MMIOBASE
        /\ OwnPage(c) - 1 >= UENVS /\ OwnPage(c) - 1 < KERNBASE /\ OwnPage(c) - 1 >= MMIOBASE
        /\ OwnPage(c) - 1 # UENVS /\ OwnPage(c) - 1 # UPAGES /\ OwnPage(c) - 1 \notin MMIOBASE .. MMIOLIM - 1
    BY <1>1, <2>1
  <2>3. TranslatedBy(memory.dir, OwnPage(c)) = Pte(percpu_kstacks(c), "W")
    BY <1>2, <2>1, <2>2, TablesShow DEF Built
  <2>4. ~OfStack(OwnPage(c) - 1, NCPU)
    BY StackPages DEF OfStack, CpuIds
  <2>5. memory.pte[OwnPage(c) - 1] = NotPresent
    BY <2>1, <2>2, <2>4 DEF Built, Apart
  <2> QED
    BY <1>2, <2>1, <2>2, <2>3, <2>5, TablesShow
<1>5. TranslatedBy(memory.dir, UPAGES) = Pte(pages, "U") /\ TranslatedBy(memory.dir, UENVS) = Pte(envs, "U")
  <2>1. /\ UPAGES \in Vas /\ UENVS \in Vas /\ UPAGES >= UENVS /\ UENVS >= UENVS /\ UPAGES < KERNBASE /\ UENVS < KERNBASE
        /\ UPAGES \in Nat /\ UENVS \in Nat
    BY <1>1
  <2>2. PDX(UPAGES) = 2 /\ PDX(UENVS) = 1
    <3>1. 2 * PTSIZE <= UPAGES /\ UPAGES < 2 * PTSIZE + PTSIZE /\ 1 * PTSIZE <= UENVS /\ UENVS < 1 * PTSIZE + PTSIZE
      BY <1>1
    <3>2. 2 \in 0 .. 7 /\ 1 \in 0 .. 7
      OBVIOUS
    <3> QED
      BY <2>1, <3>1, <3>2, PdxIs
  <2>3. PDX(UPAGES) # 3 /\ PDX(UENVS) # 3
    BY <2>2
  <2> QED
    BY <2>1, <2>3, TablesShow DEF Built
<1> QED
  BY <1>3, <1>4, <1>5

-----------------------------------------------------------------------------
(* Where the CPUs are while the kernel starts.                             *)

\* The boot CPU before it starts the others, and once environments may run.
Early == {"entry", "low", "init", "mapped", "mem", "traps", "mp", "locking"}
Late == {"sched", "user", "halted", "spin"}
BootPlaces == Early \cup {"aps"} \cup Late
Coming == {"mpentry", "mplow", "mp_main", "high", "lapic", "told"}
ApPlaces == {"off"} \cup Coming \cup Late

StartTypes ==
    /\ found \in Nat /\ lapic \in Nat
    /\ at \in [CpuIds -> BootPlaces \cup ApPlaces]
    /\ at[bootcpu] \in BootPlaces /\ \A c \in Aps : at[c] \in ApPlaces
    /\ cr3 \in [CpuIds -> {"off", "entry", "kern", "env"}]
    /\ stack \in [CpuIds -> Int] /\ ts_esp0 \in [CpuIds -> Int] /\ tr \in [CpuIds -> Int]
    /\ cpu_status \in [CpuIds -> {"UNUSED", "STARTED", "HALTED"}]

\* The others are started one after another, and wait for the boot CPU to
\* leave the kernel.
ApsRight ==
    /\ at[bootcpu] \in Early => \A c \in Aps : at[c] = "off"
    /\ at[bootcpu] = "aps" => kernel_lock = bootcpu
    /\ at[bootcpu] \notin Late => \A c \in Aps : /\ at[c] \notin {"sched", "user", "halted"}
                                                 /\ at[c] # "off" => Before(c)
    /\ \A c \in Aps : /\ cpu_status[c] = "STARTED" => at[c] \in Late
                      /\ at[c] \in {"mpentry", "mplow"} => mpentry_kstack = KADDR(percpu_kstacks(c))
                      /\ at[c] # "off" => found # 0

\* The stack on which a CPU starts, its page directory, stack and task state.
Home(c) == IF c = bootcpu THEN KADDR(bootstack) ELSE KADDR(percpu_kstacks(c))
Unmapped == {"entry", "off", "mpentry"}
Relocating == {"low", "mplow"}
OnEntryPgdir == Relocating \cup {"init", "mapped", "mp_main"}
OnKernPgdir == {"mem", "traps", "mp", "locking", "aps", "high", "lapic", "told", "halted"}
NoTask == Unmapped \cup OnEntryPgdir \cup {"mem", "high", "lapic"}

CpuRight(c) ==
    /\ at[c] \in Unmapped => cr3[c] = "off"
    /\ at[c] \in OnEntryPgdir => cr3[c] = "entry"
    /\ at[c] \in OnKernPgdir => cr3[c] = "kern"
    /\ at[c] \in {"spin", "sched"} => cr3[c] \in {"kern", "env"}
    /\ at[c] = "user" => cr3[c] = "env"
    /\ cr3[c] = "env" => at[bootcpu] \in Late
    /\ at[c] \notin Unmapped \cup Relocating => stack[c] \in {Home(c), OwnPage(c)}
    /\ at[c] \in OnEntryPgdir \ Relocating => stack[c] = Home(c)
    /\ IF at[c] \in NoTask THEN tr[c] = -1 ELSE tr[c] = c /\ ts_esp0[c] = OwnPage(c)

\* A CPU that asks who it is after mp_init() can be told.
LapicRight ==
    /\ lapic # 0 => /\ at[bootcpu] \in {"locking", "aps"} \cup Late
                    /\ lapic \in MMIOBASE .. MMIOLIM - 1 /\ lapic < memory.base
                    /\ memory.pte[lapic] = Pte(lapicaddr, "W")
    /\ found # 0 /\ at[bootcpu] \in {"locking", "aps"} \cup Late => lapic # 0

MemoryRight ==
    /\ at[bootcpu] \notin {"entry", "low", "init"} => Built(memory)
    /\ at[bootcpu] \in {"mapped", "mem"} => memory.free \in Seq(Pages)
    /\ env_pgdir = IF at[bootcpu] \in Late THEN memory.dir ELSE EmptyMemory.dir

StartInv == /\ StartTypes /\ ApsRight /\ LapicRight /\ MemoryRight
            /\ \A c \in CpuIds : CpuRight(c)

LEMMA StartsRight == bootcpu = 0 /\ StartInit => StartInv
<1> SUFFICES ASSUME bootcpu = 0, StartInit PROVE StartInv
  OBVIOUS
<1>1. NCPU \in Nat /\ bootcpu \in CpuIds /\ Aps \subseteq CpuIds /\ bootcpu \notin Aps
  BY BootCpuAssumption DEF CpuIds, Aps
<1>2. /\ found \in Nat /\ lapic = 0 /\ at[bootcpu] = "entry" /\ \A c \in Aps : at[c] = "off"
      /\ \A c \in CpuIds : at[c] \in {"entry", "off"} /\ cr3[c] = "off" /\ tr[c] = -1 /\ cpu_status[c] = "UNUSED"
  BY <1>1 DEF StartInit, CpuIds
<1>3. StartTypes
  BY <1>1, <1>2 DEF StartTypes, StartInit, BootPlaces, ApPlaces, Early, Late
<1>4. ApsRight
  BY <1>1, <1>2 DEF ApsRight, Early
<1>5. LapicRight
  BY <1>2 DEF LapicRight, Late
<1>6. MemoryRight
  BY <1>2 DEF MemoryRight, StartInit, Late
<1>7. \A c \in CpuIds : CpuRight(c)
  BY <1>2 DEF CpuRight, Unmapped, OnEntryPgdir, OnKernPgdir, Relocating, NoTask
<1> QED
  BY <1>3, <1>4, <1>5, <1>6, <1>7 DEF StartInv

-----------------------------------------------------------------------------
(* The steps.                                                              *)

\* What a CPU has is right as long as nothing of it changes.
LEMMA OthersStay ==
    ASSUME NEW d \in CpuIds, CpuRight(d), at'[d] = at[d], cr3'[d] = cr3[d], stack'[d] = stack[d], tr'[d] = tr[d],
           ts_esp0'[d] = ts_esp0[d], at[bootcpu] \in Late => at'[bootcpu] \in Late
    PROVE  CpuRight(d)'
BY DEF CpuRight

LEMMA Homes ==
    /\ \A c \in CpuIds : Home(c) \in Int /\ OwnPage(c) \in Int /\ kstacktop(c) - 1 = OwnPage(c)
    /\ KADDR(bootstack) = Home(bootcpu) /\ \A c \in Aps : KADDR(percpu_kstacks(c)) = Home(c)
<1>1. KERNBASE \in Int /\ \A c \in CpuIds : OwnPage(c) \in Int /\ percpu_kstacks(c) \in Int
  BY Layout, StackPages DEF InTable
<1>2. KADDR(bootstack) \in Int /\ \A c \in CpuIds : KADDR(percpu_kstacks(c)) \in Int
  BY <1>1 DEF KADDR, bootstack
<1> QED
  BY <1>1, <1>2 DEF Home, OwnPage, Aps

\* The others come one after another: as long as one has not been started,
\* those behind it are off.
LEMMA OneComes ==
    ASSUME bootcpu = 0, StartTypes, ApsRight, at[bootcpu] = "aps", NEW c \in Aps, at[c] = "off", Before(c),
           NEW d \in Aps, d # c
    PROVE  at[d] \notin {"mpentry", "mplow"}
<1>1. c \in Nat /\ d \in Nat /\ c \in CpuIds /\ d \in CpuIds /\ c # 0 /\ d # 0
  BY BootCpuAssumption DEF Aps, CpuIds
<1>2. \A e \in Aps : cpu_status[e] = "STARTED" => at[e] \in Late
  BY DEF ApsRight
<1>3. CASE d < c
  <2>1. cpu_status[d] = "STARTED"
    BY <1>1, <1>3 DEF Before
  <2> QED
    BY <1>2, <2>1 DEF Late
<1>4. CASE c < d
  <2>1. SUFFICES ASSUME at[d] # "off" PROVE FALSE
    OBVIOUS
  <2>2. Before(d)
    BY <2>1 DEF ApsRight, Late
  <2>3. cpu_status[c] = "STARTED"
    BY <1>1, <1>4, <2>2 DEF Before
  <2> QED
    BY <1>2, <2>3 DEF Late
<1> QED
  BY <1>1, <1>3, <1>4

LEMMA LapicStep ==
    ASSUME StartTypes, LapicRight, MemoryRight, NEW c, NEW from, NEW to, LapicInit(c, from, to), from \in {"mp", "high"},
           at[bootcpu] \notin {"entry", "low", "init", "mapped", "mem"}, at'[bootcpu] \in {"locking", "aps"} \cup Late,
           at'[bootcpu] \in Late <=> at[bootcpu] \in Late
    PROVE  LapicRight' /\ MemoryRight' /\ lapic' \in Nat
<1>1. Built(memory)
  BY DEF MemoryRight
<1>2. CASE found = 0
  <2>1. UNCHANGED <<memory, lapic, found, env_pgdir>>
    BY <1>2 DEF LapicInit
  <2>2. lapic = 0 \/ lapic # 0
    OBVIOUS
  <2>3. LapicRight'
    BY <1>2, <2>1 DEF LapicRight
  <2>4. MemoryRight'
    BY <1>1, <2>1 DEF MemoryRight, Late
  <2> QED
    BY <2>1, <2>3, <2>4 DEF StartTypes
<1>3. CASE found # 0
  <2> DEFINE h == mmio_map_region(memory, lapicaddr, 1)
  <2>1. memory.base + 1 < MMIOLIM /\ memory' = h /\ lapic' = memory.base /\ UNCHANGED <<found, env_pgdir>>
    BY <1>3 DEF LapicInit
  <2>2. Built(h) /\ h.dir = memory.dir /\ h.base = memory.base + 1 /\ h.pte[memory.base] = Pte(lapicaddr, "W")
    BY <1>1, <2>1, LapicMapped
  <2> HIDE DEF h
  <2>3. memory.base \in Nat /\ memory.base # 0 /\ memory.base \in MMIOBASE .. MMIOLIM - 1 /\ memory.base < memory.base + 1
    BY <1>1, <2>1, Layout DEF Built
  <2>4. LapicRight'
    BY <2>1, <2>2, <2>3 DEF LapicRight
  <2>5. MemoryRight'
    BY <2>1, <2>2 DEF MemoryRight, Late
  <2> QED
    BY <2>1, <2>3, <2>4, <2>5
<1> QED
  BY <1>2, <1>3, SMTT(30)

\* The page directory maps itself already.
LEMMA SelfThere ==
    ASSUME NEW m, Built(m)
    PROVE  m.dir = [m.dir EXCEPT ![PDX(UVPT)] = Self]
<1>1. PDX(UVPT) = 3
  BY Layout, PdxIs
<1>2. m.dir[3] = Self /\ m.dir = [i \in 0 .. 7 |-> m.dir[i]]
  BY DEF Built, Shaped
<1> QED
  BY <1>1, <1>2

LEMMA StartSteps == bootcpu = 0 /\ StartInv /\ [StartNext]_startVars => StartInv'
<1> SUFFICES ASSUME bootcpu = 0, StartInv, [StartNext]_startVars PROVE StartInv'
  OBVIOUS
<1>1. /\ bootcpu = 0 /\ NCPU \in Nat /\ bootcpu \in CpuIds /\ Aps \subseteq CpuIds /\ bootcpu \notin Aps
      /\ \A d \in CpuIds : d = bootcpu \/ d \in Aps
  BY BootCpuAssumption DEF CpuIds, Aps
<1>2. StartTypes /\ ApsRight /\ LapicRight /\ MemoryRight /\ \A d \in CpuIds : CpuRight(d)
  BY DEF StartInv
<1>3. /\ \A c \in CpuIds : Home(c) \in Int /\ OwnPage(c) \in Int /\ kstacktop(c) - 1 = OwnPage(c)
      /\ KADDR(bootstack) = Home(bootcpu) /\ \A c \in Aps : KADDR(percpu_kstacks(c)) = Home(c)
  BY Homes
<1>4. CASE Paging(bootcpu, "entry", "low")
  <2>1. StartTypes'
    BY <1>1, <1>2, <1>4 DEF StartTypes, BootPlaces, ApPlaces, Early, Late, Coming, Moves, Paging, cpuState
  <2>2. ApsRight'
    BY <1>1, <1>2, <1>4 DEF ApsRight, StartTypes, Before, Early, Late, Moves, Paging, cpuState
  <2>3. LapicRight'
    BY <1>1, <1>2, <1>4 DEF LapicRight, StartTypes, Late, Moves, Paging, cpuState
  <2>4. MemoryRight'
    BY <1>1, <1>2, <1>4 DEF MemoryRight, StartTypes, Late, Moves, Paging, cpuState
  <2>5. \A d \in CpuIds : CpuRight(d)'
    <3> TAKE d \in CpuIds
    <3>1. CASE d # bootcpu
      BY <1>1, <1>2, <1>4, <3>1, OthersStay DEF StartTypes, Late, Moves, Paging, cpuState
    <3>2. CASE d = bootcpu
      BY <1>1, <1>2, <1>4, <3>2 DEF CpuRight, StartTypes, Unmapped, OnEntryPgdir, OnKernPgdir, Relocating, NoTask, Late, Moves, Paging, cpuState
    <3> QED
      BY <3>1, <3>2
  <2> QED
    BY <2>1, <2>2, <2>3, <2>4, <2>5 DEF StartInv
<1>5. CASE Relocated(bootcpu, "low", "init", KADDR(bootstack))
  <2>1. StartTypes'
    BY <1>1, <1>2, <1>3, <1>5 DEF StartTypes, BootPlaces, ApPlaces, Early, Late, Coming, Moves, Relocated
  <2>2. ApsRight'
    BY <1>1, <1>2, <1>5 DEF ApsRight, StartTypes, Before, Early, Late, Moves, Relocated
  <2>3. LapicRight'
    BY <1>1, <1>2, <1>5 DEF LapicRight, StartTypes, Late, Moves, Relocated
  <2>4. MemoryRight'
    BY <1>1, <1>2, <1>5 DEF MemoryRight, StartTypes, Late, Moves, Relocated
  <2>5. \A d \in CpuIds : CpuRight(d)'
    <3> TAKE d \in CpuIds
    <3>1. CASE d # bootcpu
      BY <1>1, <1>2, <1>5, <3>1, OthersStay DEF StartTypes, Late, Moves, Relocated
    <3>2. CASE d = bootcpu
      BY <1>1, <1>2, <1>3, <1>5, <3>2 DEF CpuRight, StartTypes, Unmapped, OnEntryPgdir, OnKernPgdir, Relocating, NoTask, Late, Moves, Relocated
    <3> QED
      BY <3>1, <3>2
  <2> QED
    BY <2>1, <2>2, <2>3, <2>4, <2>5 DEF StartInv
<1>6. CASE MemInit(bootcpu)
  <2>1. StartTypes'
    BY <1>1, <1>2, <1>6 DEF StartTypes, BootPlaces, ApPlaces, Early, Late, Coming, Moves, MemInit, cpuState
  <2>2. ApsRight'
    BY <1>1, <1>2, <1>6 DEF ApsRight, StartTypes, Before, Early, Late, Moves, MemInit, cpuState
  <2>3. LapicRight'
    BY <1>1, <1>2, <1>6 DEF LapicRight, StartTypes, Late, Moves, MemInit, cpuState
  <2>4. MemoryRight'
    BY <1>1, <1>2, <1>6, MemoryIsBuilt DEF MemoryRight, StartTypes, Late, Moves, MemInit, cpuState
  <2>5. \A d \in CpuIds : CpuRight(d)'
    <3> TAKE d \in CpuIds
    <3>1. CASE d # bootcpu
      BY <1>1, <1>2, <1>6, <3>1, OthersStay DEF StartTypes, Late, Moves, MemInit, cpuState
    <3>2. CASE d = bootcpu
      BY <1>1, <1>2, <1>6, <3>2 DEF CpuRight, StartTypes, Unmapped, OnEntryPgdir, OnKernPgdir, Relocating, NoTask, Late, Moves, MemInit, cpuState
    <3> QED
      BY <3>1, <3>2
  <2> QED
    BY <2>1, <2>2, <2>3, <2>4, <2>5 DEF StartInv
<1>7. CASE LoadKernPgdir(bootcpu, "mapped", "mem")
  <2>1. StartTypes'
    BY <1>1, <1>2, <1>7 DEF StartTypes, BootPlaces, ApPlaces, Early, Late, Coming, Moves, LoadKernPgdir, cpuState
  <2>2. ApsRight'
    BY <1>1, <1>2, <1>7 DEF ApsRight, StartTypes, Before, Early, Late, Moves, LoadKernPgdir, cpuState
  <2>3. LapicRight'
    BY <1>1, <1>2, <1>7 DEF LapicRight, StartTypes, Late, Moves, LoadKernPgdir, cpuState
  <2>4. MemoryRight'
    BY <1>1, <1>2, <1>7 DEF MemoryRight, StartTypes, Late, Moves, LoadKernPgdir, cpuState
  <2>5. \A d \in CpuIds : CpuRight(d)'
    <3> TAKE d \in CpuIds
    <3>1. CASE d # bootcpu
      BY <1>1, <1>2, <1>7, <3>1, OthersStay DEF StartTypes, Late, Moves, LoadKernPgdir, cpuState
    <3>2. CASE d = bootcpu
      BY <1>1, <1>2, <1>7, <3>2 DEF CpuRight, StartTypes, Unmapped, OnEntryPgdir, OnKernPgdir, Relocating, NoTask, Late, Moves, LoadKernPgdir, cpuState
    <3> QED
      BY <3>1, <3>2
  <2> QED
    BY <2>1, <2>2, <2>3, <2>4, <2>5 DEF StartInv
<1>8. CASE TrapInitPercpu(bootcpu, "mem", "traps")
  <2>1. cpunum(bootcpu) = bootcpu
    BY <1>1, <1>2, <1>8 DEF cpunum
  <2>2. StartTypes'
    BY <1>1, <1>2, <1>8, <1>3, <2>1 DEF StartTypes, BootPlaces, ApPlaces, Early, Late, Coming, Moves, TrapInitPercpu
  <2>3. ApsRight'
    BY <1>1, <1>2, <1>8 DEF ApsRight, StartTypes, Before, Early, Late, Moves, TrapInitPercpu
  <2>4. LapicRight'
    BY <1>1, <1>2, <1>8 DEF LapicRight, StartTypes, Late, Moves, TrapInitPercpu
  <2>5. MemoryRight'
    BY <1>1, <1>2, <1>8 DEF MemoryRight, StartTypes, Late, Moves, TrapInitPercpu
  <2>6. \A d \in CpuIds : CpuRight(d)'
    <3> TAKE d \in CpuIds
    <3>1. CASE d # bootcpu
      BY <1>1, <1>2, <1>8, <3>1, OthersStay, <1>3, <2>1 DEF StartTypes, Late, Moves, TrapInitPercpu
    <3>2. CASE d = bootcpu
      BY <1>1, <1>2, <1>8, <3>2, <1>3, <2>1 DEF CpuRight, StartTypes, Unmapped, OnEntryPgdir, OnKernPgdir, Relocating, NoTask, Late, Moves, TrapInitPercpu
    <3> QED
      BY <3>1, <3>2
  <2> QED
    BY <2>2, <2>3, <2>4, <2>5, <2>6 DEF StartInv
<1>9. CASE MpInit(bootcpu)
  <2>1. StartTypes'
    BY <1>1, <1>2, <1>9 DEF StartTypes, BootPlaces, ApPlaces, Early, Late, Coming, Moves, MpInit, cpuState
  <2>2. ApsRight'
    BY <1>1, <1>2, <1>9 DEF ApsRight, StartTypes, Before, Early, Late, Moves, MpInit, cpuState
  <2>3. LapicRight'
    BY <1>1, <1>2, <1>9 DEF LapicRight, StartTypes, Late, Moves, MpInit, cpuState
  <2>4. MemoryRight'
    BY <1>1, <1>2, <1>9 DEF MemoryRight, StartTypes, Late, Moves, MpInit, cpuState
  <2>5. \A d \in CpuIds : CpuRight(d)'
    <3> TAKE d \in CpuIds
    <3>1. CASE d # bootcpu
      BY <1>1, <1>2, <1>9, <3>1, OthersStay DEF StartTypes, Late, Moves, MpInit, cpuState
    <3>2. CASE d = bootcpu
      BY <1>1, <1>2, <1>9, <3>2 DEF CpuRight, StartTypes, Unmapped, OnEntryPgdir, OnKernPgdir, Relocating, NoTask, Late, Moves, MpInit, cpuState
    <3> QED
      BY <3>1, <3>2
  <2> QED
    BY <2>1, <2>2, <2>3, <2>4, <2>5 DEF StartInv
<1>10. CASE LapicInit(bootcpu, "mp", "locking")
  <2>1. LapicRight' /\ MemoryRight' /\ lapic' \in Nat
    <3>1. /\ at[bootcpu] \notin {"entry", "low", "init", "mapped", "mem"} /\ at'[bootcpu] \in {"locking", "aps"} \cup Late
          /\ at'[bootcpu] \in Late <=> at[bootcpu] \in Late
      BY <1>1, <1>2, <1>10 DEF ApsRight, LapicRight, StartTypes, BootPlaces, ApPlaces, Early, Late, Coming, Moves, LapicInit
    <3> QED
      BY <1>2, <1>10, <3>1, LapicStep
  <2>2. StartTypes'
    BY <1>1, <1>2, <1>10, <1>3, <2>1 DEF StartTypes, BootPlaces, ApPlaces, Early, Late, Coming, Moves, LapicInit, cpuState
  <2>3. ApsRight'
    BY <1>1, <1>2, <1>10 DEF ApsRight, StartTypes, Before, Early, Late, Moves, LapicInit, cpuState
  <2>4. \A d \in CpuIds : CpuRight(d)'
    <3> TAKE d \in CpuIds
    <3>1. CASE d # bootcpu
      BY <1>1, <1>2, <1>10, <3>1, OthersStay DEF StartTypes, Late, Moves, LapicInit, cpuState
    <3>2. CASE d = bootcpu
      BY <1>1, <1>2, <1>10, <3>2 DEF CpuRight, StartTypes, Unmapped, OnEntryPgdir, OnKernPgdir, Relocating, NoTask, Late, Moves, LapicInit, cpuState
    <3> QED
      BY <3>1, <3>2
  <2> QED
    BY <2>2, <2>3, <2>1, <2>4 DEF StartInv
<1>11. CASE Lock(bootcpu, "locking", "aps")
  <2>1. StartTypes'
    BY <1>1, <1>2, <1>11 DEF StartTypes, BootPlaces, ApPlaces, Early, Late, Coming, Moves, Lock, cpuState
  <2>2. ApsRight'
    BY <1>1, <1>2, <1>11 DEF ApsRight, StartTypes, Before, Early, Late, Moves, Lock, cpuState
  <2>3. LapicRight'
    BY <1>1, <1>2, <1>11 DEF LapicRight, StartTypes, Late, Moves, Lock, cpuState
  <2>4. MemoryRight'
    BY <1>1, <1>2, <1>11 DEF MemoryRight, StartTypes, Late, Moves, Lock, cpuState
  <2>5. \A d \in CpuIds : CpuRight(d)'
    <3> TAKE d \in CpuIds
    <3>1. CASE d # bootcpu
      BY <1>1, <1>2, <1>11, <3>1, OthersStay DEF StartTypes, Late, Moves, Lock, cpuState
    <3>2. CASE d = bootcpu
      BY <1>1, <1>2, <1>11, <3>2 DEF CpuRight, StartTypes, Unmapped, OnEntryPgdir, OnKernPgdir, Relocating, NoTask, Late, Moves, Lock, cpuState
    <3> QED
      BY <3>1, <3>2
  <2> QED
    BY <2>1, <2>2, <2>3, <2>4, <2>5 DEF StartInv
<1>12. ASSUME NEW c \in Aps, BootAp(c) PROVE StartInv'
  <2>1. \A d \in Aps : d # c => at[d] \notin {"mpentry", "mplow"}
    BY <1>1, <1>2, <1>12, OneComes DEF BootAp, Moves
  <2>2. found # 0
    BY <1>1, <1>12 DEF BootAp, ncpu, Aps, CpuIds
  <2>3. StartTypes'
    BY <1>1, <1>2, <1>12 DEF StartTypes, BootPlaces, ApPlaces, Early, Late, Coming, Moves, BootAp, cpuState
  <2>4. ApsRight'
    BY <1>1, <1>2, <1>12, <1>3, <2>1, <2>2 DEF ApsRight, StartTypes, Before, Early, Late, Moves, BootAp, cpuState
  <2>5. LapicRight'
    BY <1>1, <1>2, <1>12 DEF LapicRight, StartTypes, Late, Moves, BootAp, cpuState
  <2>6. MemoryRight'
    BY <1>1, <1>2, <1>12 DEF MemoryRight, StartTypes, Late, Moves, BootAp, cpuState
  <2>7. \A d \in CpuIds : CpuRight(d)'
    <3> TAKE d \in CpuIds
    <3>1. CASE d # c
      BY <1>1, <1>2, <1>12, <3>1, OthersStay DEF StartTypes, Late, Moves, BootAp, cpuState
    <3>2. CASE d = c
      BY <1>1, <1>2, <1>12, <3>2 DEF CpuRight, StartTypes, Unmapped, OnEntryPgdir, OnKernPgdir, Relocating, NoTask, Late, Moves, BootAp, cpuState
    <3> QED
      BY <3>1, <3>2
  <2> QED
    BY <2>3, <2>4, <2>5, <2>6, <2>7 DEF StartInv
<1>13. CASE EnvCreate
  <2>1. Built(memory) /\ memory.dir = [memory.dir EXCEPT ![PDX(UVPT)] = Self]
    BY <1>1, <1>2, <1>13, SelfThere DEF MemoryRight, EnvCreate, Moves
  <2>2. LET h == memory'
        IN  Built(h) /\ h.dir = memory.dir /\ h.pte = memory.pte /\ h.base = memory.base
    BY <1>13, <2>1, PageGiven DEF EnvCreate
  <2>3. StartTypes'
    BY <1>1, <1>2, <1>13 DEF StartTypes, BootPlaces, ApPlaces, Early, Late, Coming, Moves, EnvCreate, cpuState
  <2>4. ApsRight'
    BY <1>1, <1>2, <1>13 DEF ApsRight, StartTypes, Before, Early, Late, Moves, EnvCreate, cpuState
  <2>5. LapicRight'
    BY <1>1, <1>2, <1>13, <1>3, <2>1, <2>2 DEF LapicRight, StartTypes, Late, Moves, EnvCreate, cpuState
  <2>6. MemoryRight'
    BY <1>1, <1>2, <1>13, <1>3, <2>1, <2>2 DEF MemoryRight, StartTypes, Late, Moves, EnvCreate, cpuState
  <2>7. \A d \in CpuIds : CpuRight(d)'
    <3> TAKE d \in CpuIds
    <3>1. CASE d # bootcpu
      BY <1>1, <1>2, <1>13, <3>1, OthersStay DEF StartTypes, Late, Moves, EnvCreate, cpuState
    <3>2. CASE d = bootcpu
      <4>1. at[bootcpu] = "aps" /\ at' = [at EXCEPT ![bootcpu] = "sched"] /\ UNCHANGED <<cr3, stack, ts_esp0, tr>>
        BY <1>13 DEF EnvCreate, Moves, cpuState
      <4> QED
        BY <1>1, <1>2, <3>2, <4>1 DEF CpuRight, StartTypes, Unmapped, OnEntryPgdir, OnKernPgdir, Relocating, NoTask, Late
    <3> QED
      BY <3>1, <3>2
  <2> QED
    BY <2>3, <2>4, <2>5, <2>6, <2>7 DEF StartInv
<1>14. ASSUME NEW c \in Aps, LoadKernPgdir(c, "mp_main", "high") PROVE StartInv'
  <2>1. StartTypes'
    BY <1>1, <1>2, <1>14 DEF StartTypes, BootPlaces, ApPlaces, Early, Late, Coming, Moves, LoadKernPgdir, cpuState
  <2>2. ApsRight'
    BY <1>1, <1>2, <1>14 DEF ApsRight, StartTypes, Before, Early, Late, Moves, LoadKernPgdir, cpuState
  <2>3. LapicRight'
    BY <1>1, <1>2, <1>14 DEF LapicRight, StartTypes, Late, Moves, LoadKernPgdir, cpuState
  <2>4. MemoryRight'
    BY <1>1, <1>2, <1>14 DEF MemoryRight, StartTypes, Late, Moves, LoadKernPgdir, cpuState
  <2>5. \A d \in CpuIds : CpuRight(d)'
    <3> TAKE d \in CpuIds
    <3>1. CASE d # c
      BY <1>1, <1>2, <1>14, <3>1, OthersStay DEF StartTypes, Late, Moves, LoadKernPgdir, cpuState
    <3>2. CASE d = c
      BY <1>1, <1>2, <1>14, <3>2 DEF CpuRight, StartTypes, Unmapped, OnEntryPgdir, OnKernPgdir, Relocating, NoTask, Late, Moves, LoadKernPgdir, cpuState
    <3> QED
      BY <3>1, <3>2
  <2> QED
    BY <2>1, <2>2, <2>3, <2>4, <2>5 DEF StartInv
<1>15. ASSUME NEW c \in Aps, LapicInit(c, "high", "lapic") PROVE StartInv'
  <2>1. LapicRight' /\ MemoryRight' /\ lapic' \in Nat
    <3>1. /\ at[bootcpu] \notin {"entry", "low", "init", "mapped", "mem"} /\ at'[bootcpu] \in {"locking", "aps"} \cup Late
          /\ at'[bootcpu] \in Late <=> at[bootcpu] \in Late
      BY <1>1, <1>2, <1>15 DEF ApsRight, LapicRight, StartTypes, BootPlaces, ApPlaces, Early, Late, Coming, Moves, LapicInit
    <3> QED
      BY <1>2, <1>15, <3>1, LapicStep
  <2>2. StartTypes'
    BY <1>1, <1>2, <1>15, <1>3, <2>1 DEF StartTypes, BootPlaces, ApPlaces, Early, Late, Coming, Moves, LapicInit, cpuState
  <2>3. ApsRight'
    BY <1>1, <1>2, <1>15 DEF ApsRight, StartTypes, Before, Early, Late, Moves, LapicInit, cpuState
  <2>4. \A d \in CpuIds : CpuRight(d)'
    <3> TAKE d \in CpuIds
    <3>1. CASE d # c
      BY <1>1, <1>2, <1>15, <3>1, OthersStay DEF StartTypes, Late, Moves, LapicInit, cpuState
    <3>2. CASE d = c
      BY <1>1, <1>2, <1>15, <3>2 DEF CpuRight, StartTypes, Unmapped, OnEntryPgdir, OnKernPgdir, Relocating, NoTask, Late, Moves, LapicInit, cpuState
    <3> QED
      BY <3>1, <3>2
  <2> QED
    BY <2>2, <2>3, <2>1, <2>4 DEF StartInv
<1>16. ASSUME NEW c \in Aps, TrapInitPercpu(c, "lapic", "told") PROVE StartInv'
  <2>1. cpunum(c) = c
    BY <1>1, <1>2, <1>16 DEF cpunum, ApsRight, LapicRight, StartTypes, BootPlaces, Early, Late, Moves, TrapInitPercpu
  <2>2. StartTypes'
    BY <1>1, <1>2, <1>16, <1>3, <2>1 DEF StartTypes, BootPlaces, ApPlaces, Early, Late, Coming, Moves, TrapInitPercpu
  <2>3. ApsRight'
    BY <1>1, <1>2, <1>16 DEF ApsRight, StartTypes, Before, Early, Late, Moves, TrapInitPercpu
  <2>4. LapicRight'
    BY <1>1, <1>2, <1>16 DEF LapicRight, StartTypes, Late, Moves, TrapInitPercpu
  <2>5. MemoryRight'
    BY <1>1, <1>2, <1>16 DEF MemoryRight, StartTypes, Late, Moves, TrapInitPercpu
  <2>6. \A d \in CpuIds : CpuRight(d)'
    <3> TAKE d \in CpuIds
    <3>1. CASE d # c
      BY <1>1, <1>2, <1>16, <3>1, OthersStay, <1>3, <2>1 DEF StartTypes, Late, Moves, TrapInitPercpu
    <3>2. CASE d = c
      BY <1>1, <1>2, <1>16, <3>2, <1>3, <2>1 DEF CpuRight, StartTypes, Unmapped, OnEntryPgdir, OnKernPgdir, Relocating, NoTask, Late, Moves, TrapInitPercpu
    <3> QED
      BY <3>1, <3>2
  <2> QED
    BY <2>2, <2>3, <2>4, <2>5, <2>6 DEF StartInv
<1>17. ASSUME NEW c \in Aps, Told(c) PROVE StartInv'
  <2>1. StartTypes'
    BY <1>1, <1>2, <1>17 DEF StartTypes, BootPlaces, ApPlaces, Early, Late, Coming, Moves, Told, cpuState
  <2>2. ApsRight'
    BY <1>1, <1>2, <1>17 DEF ApsRight, StartTypes, Before, Early, Late, Moves, Told, cpuState
  <2>3. LapicRight'
    BY <1>1, <1>2, <1>17 DEF LapicRight, StartTypes, Late, Moves, Told, cpuState
  <2>4. MemoryRight'
    BY <1>1, <1>2, <1>17 DEF MemoryRight, StartTypes, Late, Moves, Told, cpuState
  <2>5. \A d \in CpuIds : CpuRight(d)'
    <3> TAKE d \in CpuIds
    <3>1. CASE d # c
      BY <1>1, <1>2, <1>17, <3>1, OthersStay DEF StartTypes, Late, Moves, Told, cpuState
    <3>2. CASE d = c
      BY <1>1, <1>2, <1>17, <3>2 DEF CpuRight, StartTypes, Unmapped, OnEntryPgdir, OnKernPgdir, Relocating, NoTask, Late, Moves, Told, cpuState
    <3> QED
      BY <3>1, <3>2
  <2> QED
    BY <2>1, <2>2, <2>3, <2>4, <2>5 DEF StartInv
<1>18. ASSUME NEW c \in Aps, Paging(c, "mpentry", "mplow") PROVE StartInv'
  <2>1. StartTypes'
    BY <1>1, <1>2, <1>18 DEF StartTypes, BootPlaces, ApPlaces, Early, Late, Coming, Moves, Paging, cpuState
  <2>2. ApsRight'
    BY <1>1, <1>2, <1>18 DEF ApsRight, StartTypes, Before, Early, Late, Moves, Paging, cpuState
  <2>3. LapicRight'
    BY <1>1, <1>2, <1>18 DEF LapicRight, StartTypes, Late, Moves, Paging, cpuState
  <2>4. MemoryRight'
    BY <1>1, <1>2, <1>18 DEF MemoryRight, StartTypes, Late, Moves, Paging, cpuState
  <2>5. \A d \in CpuIds : CpuRight(d)'
    <3> TAKE d \in CpuIds
    <3>1. CASE d # c
      BY <1>1, <1>2, <1>18, <3>1, OthersStay DEF StartTypes, Late, Moves, Paging, cpuState
    <3>2. CASE d = c
      BY <1>1, <1>2, <1>18, <3>2 DEF CpuRight, StartTypes, Unmapped, OnEntryPgdir, OnKernPgdir, Relocating, NoTask, Late, Moves, Paging, cpuState
    <3> QED
      BY <3>1, <3>2
  <2> QED
    BY <2>1, <2>2, <2>3, <2>4, <2>5 DEF StartInv
<1>19. ASSUME NEW c \in Aps, Relocated(c, "mplow", "mp_main", mpentry_kstack) PROVE StartInv'
  <2>1. mpentry_kstack = Home(c)
    BY <1>1, <1>2, <1>3, <1>19 DEF ApsRight, Moves, Relocated
  <2>2. StartTypes'
    BY <1>1, <1>2, <1>19, <1>3, <2>1 DEF StartTypes, BootPlaces, ApPlaces, Early, Late, Coming, Moves, Relocated
  <2>3. ApsRight'
    BY <1>1, <1>2, <1>19 DEF ApsRight, StartTypes, Before, Early, Late, Moves, Relocated
  <2>4. LapicRight'
    BY <1>1, <1>2, <1>19 DEF LapicRight, StartTypes, Late, Moves, Relocated
  <2>5. MemoryRight'
    BY <1>1, <1>2, <1>19 DEF MemoryRight, StartTypes, Late, Moves, Relocated
  <2>6. \A d \in CpuIds : CpuRight(d)'
    <3> TAKE d \in CpuIds
    <3>1. CASE d # c
      BY <1>1, <1>2, <1>19, <3>1, OthersStay DEF StartTypes, Late, Moves, Relocated
    <3>2. CASE d = c
      BY <1>1, <1>2, <1>19, <3>2, <1>3, <2>1 DEF CpuRight, StartTypes, Unmapped, OnEntryPgdir, OnKernPgdir, Relocating, NoTask, Late, Moves, Relocated
    <3> QED
      BY <3>1, <3>2
  <2> QED
    BY <2>2, <2>3, <2>4, <2>5, <2>6 DEF StartInv
<1>20. ASSUME NEW c \in CpuIds, Lock(c, "spin", "sched") PROVE StartInv'
  <2>1. at[bootcpu] \in Late
    BY <1>1, <1>2, <1>20 DEF ApsRight, StartTypes, BootPlaces, Late, Moves, Lock
  <2>2. StartTypes'
    BY <1>1, <1>2, <1>20 DEF StartTypes, BootPlaces, ApPlaces, Early, Late, Coming, Moves, Lock, cpuState
  <2>3. ApsRight'
    BY <1>1, <1>2, <1>20, <1>3, <2>1 DEF ApsRight, StartTypes, Before, Early, Late, Moves, Lock, cpuState
  <2>4. LapicRight'
    BY <1>1, <1>2, <1>20 DEF LapicRight, StartTypes, Late, Moves, Lock, cpuState
  <2>5. MemoryRight'
    BY <1>1, <1>2, <1>20 DEF MemoryRight, StartTypes, Late, Moves, Lock, cpuState
  <2>6. \A d \in CpuIds : CpuRight(d)'
    <3> TAKE d \in CpuIds
    <3>1. CASE d # c
      BY <1>1, <1>2, <1>20, <3>1, OthersStay DEF StartTypes, Late, Moves, Lock, cpuState
    <3>2. CASE d = c
      BY <1>1, <1>2, <1>20, <3>2 DEF CpuRight, StartTypes, Unmapped, OnEntryPgdir, OnKernPgdir, Relocating, NoTask, Late, Moves, Lock, cpuState
    <3> QED
      BY <3>1, <3>2
  <2> QED
    BY <2>2, <2>3, <2>4, <2>5, <2>6 DEF StartInv
<1>21. ASSUME NEW c \in CpuIds, EnvRun(c) PROVE StartInv'
  <2>1. at[bootcpu] \in Late /\ at'[bootcpu] \in Late
    BY <1>1, <1>2, <1>21 DEF ApsRight, StartTypes, Late, Moves, EnvRun
  <2>2. StartTypes'
    BY <1>1, <1>2, <1>21 DEF StartTypes, BootPlaces, ApPlaces, Early, Late, Coming, Moves, EnvRun, cpuState
  <2>3. ApsRight'
    BY <1>1, <1>2, <1>21 DEF ApsRight, StartTypes, Before, Early, Late, Moves, EnvRun, cpuState
  <2>4. LapicRight'
    BY <1>1, <1>2, <1>21 DEF LapicRight, StartTypes, Late, Moves, EnvRun, cpuState
  <2>5. MemoryRight'
    BY <1>1, <1>2, <1>21 DEF MemoryRight, StartTypes, Late, Moves, EnvRun, cpuState
  <2>6. \A d \in CpuIds : CpuRight(d)'
    <3> TAKE d \in CpuIds
    <3>1. CASE d # c
      BY <1>1, <1>2, <1>21, <3>1, OthersStay DEF StartTypes, Late, Moves, EnvRun, cpuState
    <3>2. CASE d = c
      BY <1>1, <1>2, <1>21, <3>2, <1>3, <2>1 DEF CpuRight, StartTypes, Unmapped, OnEntryPgdir, OnKernPgdir, Relocating, NoTask, Late, Moves, EnvRun, cpuState
    <3> QED
      BY <3>1, <3>2
  <2> QED
    BY <2>2, <2>3, <2>4, <2>5, <2>6 DEF StartInv
<1>22. ASSUME NEW c \in CpuIds, SchedHalt(c) PROVE StartInv'
  <2>1. cpunum(c) = c
    BY <1>1, <1>2, <1>22 DEF ncpu, cpunum, ApsRight, LapicRight, StartTypes, BootPlaces, Early, Late, Moves, SchedHalt
  <2>2. StartTypes'
    BY <1>1, <1>2, <1>22, <1>3, <2>1 DEF StartTypes, BootPlaces, ApPlaces, Early, Late, Coming, Moves, SchedHalt
  <2>3. ApsRight'
    BY <1>1, <1>2, <1>22 DEF ApsRight, StartTypes, Before, Early, Late, Moves, SchedHalt
  <2>4. LapicRight'
    BY <1>1, <1>2, <1>22 DEF LapicRight, StartTypes, Late, Moves, SchedHalt
  <2>5. MemoryRight'
    BY <1>1, <1>2, <1>22 DEF MemoryRight, StartTypes, Late, Moves, SchedHalt
  <2>6. \A d \in CpuIds : CpuRight(d)'
    <3> TAKE d \in CpuIds
    <3>1. CASE d # c
      BY <1>1, <1>2, <1>22, <3>1, OthersStay DEF StartTypes, Late, Moves, SchedHalt
    <3>2. CASE d = c
      BY <1>1, <1>2, <1>22, <3>2, <1>3, <2>1 DEF CpuRight, StartTypes, Unmapped, OnEntryPgdir, OnKernPgdir, Relocating, NoTask, Late, Moves, SchedHalt
    <3> QED
      BY <3>1, <3>2
  <2> QED
    BY <2>2, <2>3, <2>4, <2>5, <2>6 DEF StartInv
<1>23. ASSUME NEW c \in CpuIds, Trap(c) PROVE StartInv'
  <2>1. tr[c] = c /\ ts_esp0[c] = OwnPage(c)
    BY <1>1, <1>2, <1>23 DEF CpuRight, Unmapped, OnEntryPgdir, Relocating, NoTask, Trap
  <2>2. StartTypes'
    BY <1>1, <1>2, <1>23, <1>3, <2>1 DEF StartTypes, BootPlaces, ApPlaces, Early, Late, Coming, Moves, Trap
  <2>3. ApsRight'
    BY <1>1, <1>2, <1>23 DEF ApsRight, StartTypes, Before, Early, Late, Moves, Trap
  <2>4. LapicRight'
    BY <1>1, <1>2, <1>23 DEF LapicRight, StartTypes, Late, Moves, Trap
  <2>5. MemoryRight'
    BY <1>1, <1>2, <1>23 DEF MemoryRight, StartTypes, Late, Moves, Trap
  <2>6. \A d \in CpuIds : CpuRight(d)'
    <3> TAKE d \in CpuIds
    <3>1. CASE d # c
      BY <1>1, <1>2, <1>23, <3>1, OthersStay DEF StartTypes, Late, Moves, Trap
    <3>2. CASE d = c
      BY <1>1, <1>2, <1>23, <3>2 DEF CpuRight, StartTypes, Unmapped, OnEntryPgdir, OnKernPgdir, Relocating, NoTask, Late, Moves, Trap
    <3> QED
      BY <3>1, <3>2
  <2> QED
    BY <2>2, <2>3, <2>4, <2>5, <2>6 DEF StartInv
<1>24. CASE UNCHANGED startVars
  <2>1. StartTypes'
    BY <1>2, <1>24 DEF StartTypes, startVars
  <2>2. ApsRight'
    BY <1>2, <1>24 DEF ApsRight, Before, startVars
  <2>3. LapicRight'
    BY <1>2, <1>24 DEF LapicRight, startVars
  <2>4. MemoryRight'
    BY <1>2, <1>24 DEF MemoryRight, startVars
  <2>5. \A d \in CpuIds : CpuRight(d)'
    BY <1>2, <1>24 DEF CpuRight, startVars
  <2> QED
    BY <2>1, <2>2, <2>3, <2>4, <2>5 DEF StartInv
<1> QED
  BY <1>4, <1>5, <1>6, <1>7, <1>8, <1>9, <1>10, <1>11, <1>12, <1>13, <1>14, <1>15, <1>16, <1>17, <1>18, <1>19, <1>20, <1>21, <1>22, <1>23, <1>24 DEF StartNext, Boot, MpMain, Mpentry, Aps

-----------------------------------------------------------------------------
(* What the CPUs see on their way.                                         *)

\* Of t = <<address, page, right>>.
Sees(dir, t) == LET e == TranslatedBy(dir, t[1]) IN e.pa = t[2] /\ t[3] \subseteq e.perm

LEMMA SeesHigh ==
    ASSUME NEW p, NEW dir, TranslatedBy(dir, KADDR(p)) = Pte(p, "W")
    PROVE  Sees(dir, <<KADDR(p), p, {"W"}>>) /\ Sees(dir, <<KADDR(p), p, {}>>)
BY DEF Sees, Pte

\* Tables are where entry_pgdir maps, what pages are given away where kern_pgdir does.
LEMMA TablesAreLow ==
    ASSUME Built(memory), NEW j \in Pdxs, memory.dir[j].kind = "table"
    PROVE  memory.dir[j].pa \in 0 .. PTSIZE - 1
<1> DEFINE D == memory.dir
<1>1. /\ \A i \in {1, 2, 4, 5} : LowTable(D[i])
      /\ D[0] = NoPde /\ D[3] = Self
      /\ \/ D[6] = Large(0, {"W"}) /\ D[7] = Large(PTSIZE, {"W"})
         \/ LowTable(D[6]) /\ LowTable(D[7])
  BY DEF Built, Shaped, High
<1>2. NoPde.kind # "table" /\ Self.kind # "table" /\ \A x, y : Large(x, y).kind # "table"
  BY DEF NoPde, Self, Large
<1>3. j \in 0 .. 7
  BY PdxsAre
<1>4. LowTable(D[j])
  BY <1>1, <1>2, <1>3
<1>5. PICK p \in 0 .. PTSIZE - 1 : D[j] = Table(p)
  BY <1>4 DEF LowTable
<1>6. Table(p).pa = p
  BY DEF Table
<1> QED
  BY <1>5, <1>6

LEMMA OwnPages ==
    /\ Text \in 0 .. PTSIZE - 1 /\ MPENTRY_PADDR \in 0 .. PTSIZE - 1 /\ bootstack \in 0 .. PTSIZE - 1
    /\ \A c \in CpuIds : percpu_kstacks(c) \in 0 .. PTSIZE - 1
    /\ 0 .. PTSIZE - 1 \subseteq Pages
<1>1. NCPU \in Nat /\ PTSIZE \in Nat /\ PTSIZE >= NCPU + 16 /\ npages = 2 * PTSIZE
  BY Layout, SizeAssumption
<1> QED
  BY <1>1 DEF Text, MPENTRY_PADDR, bootstack, percpu_kstacks, CpuIds, Pages

LEMMA OnEntry ==
    ASSUME bootcpu = 0, StartInv, NEW c \in CpuIds, cr3[c] = "entry", NEW t \in Touches(c)
    PROVE  Sees(entry_pgdir, t)
<1>1. bootcpu \in CpuIds /\ Aps = CpuIds \ {bootcpu}
  BY BootCpuAssumption DEF CpuIds, Aps
<1>2. StartTypes /\ ApsRight /\ LapicRight /\ MemoryRight /\ CpuRight(c)
  BY DEF StartInv
<1>3. at[c] \in OnEntryPgdir /\ (at[c] \in {"low", "init", "mapped"} <=> c = bootcpu)
  BY <1>1, <1>2 DEF StartTypes, CpuRight, BootPlaces, ApPlaces, Early, Late, Coming, Unmapped, OnEntryPgdir, OnKernPgdir, Relocating
<1>4. at[c] \in {"low", "init", "mapped"} => lapic = 0
  BY <1>2, <1>3 DEF LapicRight, Late
<1>5. \A p \in 0 .. PTSIZE - 1 : /\ Sees(entry_pgdir, <<p, p, {}>>) /\ Sees(entry_pgdir, <<KADDR(p), p, {"W"}>>)
                                 /\ Sees(entry_pgdir, <<KADDR(p), p, {}>>)
  <2> TAKE p \in 0 .. PTSIZE - 1
  <2>1. TranslatedBy(entry_pgdir, p) = [pa |-> p, perm |-> {}] /\ TranslatedBy(entry_pgdir, KADDR(p)) = Pte(p, "W")
    BY EntryMaps
  <2>2. Sees(entry_pgdir, <<p, p, {}>>)
    BY <2>1 DEF Sees
  <2> QED
    BY <2>1, <2>2, SeesHigh
<1>6. \A j \in Pdxs : at[c] = "mapped" /\ memory.dir[j].kind = "table" => memory.dir[j].pa \in 0 .. PTSIZE - 1
  BY <1>2, <1>3, TablesAreLow DEF MemoryRight
<1>7. at[c] \notin {"low", "mplow"} => \E p \in 0 .. PTSIZE - 1 : stack[c] = KADDR(p) /\ OwnStack(c) = p
  BY <1>1, <1>2, <1>3, OwnPages DEF CpuRight, OnEntryPgdir, Relocating, Home, OwnStack
<1>8. \/ t = <<Text, Text, {}>> \/ t = <<MPENTRY_PADDR, MPENTRY_PADDR, {}>> \/ t = <<KADDR(Text), Text, {}>>
      \/ at[c] \notin {"low", "mplow"} /\ t = <<stack[c], OwnStack(c), {"W"}>>
      \/ \E j \in Pdxs : /\ at[c] = "mapped" /\ memory.dir[j].kind = "table"
                         /\ t = <<KADDR(memory.dir[j].pa), memory.dir[j].pa, {"W"}>>
  BY <1>3, <1>4 DEF Touches, OnEntryPgdir, Relocating
<1> QED
  BY <1>5, <1>6, <1>7, <1>8, OwnPages

LEMMA AfterEntry ==
    ASSUME bootcpu = 0, StartInv, NEW c \in CpuIds, cr3[c] \notin {"off", "entry"}
    PROVE  /\ at[c] \notin Unmapped \cup OnEntryPgdir /\ Built(memory)
           /\ \/ cr3[c] = "kern"
              \/ cr3[c] = "env" /\ env_pgdir = memory.dir
<1>1. bootcpu \in CpuIds /\ Aps = CpuIds \ {bootcpu}
  BY BootCpuAssumption DEF CpuIds, Aps
<1>2. StartTypes /\ ApsRight /\ MemoryRight /\ CpuRight(c)
  BY DEF StartInv
<1>3. at[c] \notin Unmapped \cup OnEntryPgdir
  BY <1>2 DEF CpuRight
<1>4. at[bootcpu] \notin {"entry", "low", "init"}
  BY <1>1, <1>2, <1>3 DEF ApsRight, Unmapped, OnEntryPgdir, Relocating, Early
<1>5. \/ cr3[c] = "kern"
      \/ cr3[c] = "env" /\ env_pgdir = memory.dir
  <2>1. cr3[c] = "kern" \/ cr3[c] = "env"
    BY <1>2 DEF StartTypes
  <2>2. cr3[c] = "env" => at[bootcpu] \in Late
    BY <1>2 DEF CpuRight
  <2>3. at[bootcpu] \in Late => env_pgdir = memory.dir
    BY <1>2 DEF MemoryRight
  <2> QED
    BY <2>1, <2>2, <2>3
<1> QED
  BY <1>2, <1>3, <1>4, <1>5 DEF MemoryRight

LEMMA OnKern ==
    ASSUME bootcpu = 0, StartInv, NEW c \in CpuIds, cr3[c] \notin {"off", "entry"}, NEW t \in Touches(c)
    PROVE  Sees(memory.dir, t)
<1>1. bootcpu \in CpuIds /\ Aps = CpuIds \ {bootcpu}
  BY BootCpuAssumption DEF CpuIds, Aps
<1>2. StartTypes /\ LapicRight /\ MemoryRight /\ CpuRight(c) /\ at[c] \notin Unmapped \cup OnEntryPgdir /\ Built(memory)
  BY AfterEntry DEF StartInv
<1>3. at[c] \notin {"low", "mplow", "mapped", "mp_main", "entry", "off", "mpentry"}
  BY <1>2 DEF Unmapped, OnEntryPgdir, Relocating
<1>4. \A p \in Pages : Sees(memory.dir, <<KADDR(p), p, {"W"}>>) /\ Sees(memory.dir, <<KADDR(p), p, {}>>)
  BY <1>2, HighShows, SeesHigh
<1>5. Sees(memory.dir, <<OwnPage(c), percpu_kstacks(c), {"W"}>>)
  <2>1. TranslatedBy(memory.dir, OwnPage(c)) = Pte(percpu_kstacks(c), "W")
    BY <1>2, RegionsShow
  <2> QED
    BY <2>1 DEF Sees, Pte
<1>6. Sees(memory.dir, <<stack[c], OwnStack(c), {"W"}>>)
  <2>1. bootstack \in Pages /\ percpu_kstacks(c) \in Pages
    BY OwnPages
  <2>2. OwnPage(c) # KADDR(bootstack)
    <3>1. OwnPage(c) \in Nat /\ OwnPage(c) < KERNBASE /\ KERNBASE \in Nat
      BY StackPages, Layout DEF InTable
    <3> QED
      BY <3>1 DEF KADDR, bootstack
  <2>3. stack[c] \in {Home(c), OwnPage(c)}
    BY <1>2, <1>3 DEF CpuRight, Unmapped, Relocating
  <2>4. CASE stack[c] = OwnPage(c)
    BY <1>5, <2>2, <2>4 DEF OwnStack
  <2>5. CASE c = bootcpu /\ stack[c] = KADDR(bootstack)
    BY <1>4, <2>1, <2>5 DEF OwnStack
  <2>6. CASE c # bootcpu /\ stack[c] = KADDR(percpu_kstacks(c))
    BY <1>4, <2>1, <2>6 DEF OwnStack
  <2> QED
    BY <2>3, <2>4, <2>5, <2>6 DEF Home
<1>7. lapic # 0 => Sees(memory.dir, <<lapic, lapicaddr, {"W"}>>)
  <2>1. lapic # 0 => TranslatedBy(memory.dir, lapic) = Pte(lapicaddr, "W")
    BY <1>2, RegionsShow DEF LapicRight
  <2> QED
    BY <2>1 DEF Sees, Pte
<1>8. at[c] \in {"user", "halted"} => ts_esp0[tr[c]] = OwnPage(c)
  BY <1>2 DEF CpuRight, NoTask, Unmapped, OnEntryPgdir, Relocating
<1>9. at[c] = "mem" => \A p \in ToSet(memory.free) : p \in Pages
  <2>1. at[c] = "mem" => c = bootcpu
    BY <1>1, <1>2 DEF StartTypes, ApPlaces, Late, Coming
  <2>2. at[c] = "mem" => memory.free \in Seq(Pages)
    BY <1>2, <2>1 DEF MemoryRight
  <2> QED
    BY <2>2 DEF ToSet
<1>10. \/ t = <<KADDR(Text), Text, {}>> \/ t = <<stack[c], OwnStack(c), {"W"}>>
       \/ lapic # 0 /\ t = <<lapic, lapicaddr, {"W"}>>
       \/ at[c] \in {"user", "halted"} /\ t = <<ts_esp0[tr[c]], percpu_kstacks(c), {"W"}>>
       \/ at[c] = "mem" /\ \E p \in ToSet(memory.free) : t = <<KADDR(p), p, {"W"}>>
  BY <1>3 DEF Touches
<1> QED
  BY <1>4, <1>5, <1>6, <1>7, <1>8, <1>9, <1>10, OwnPages

LEMMA NobodyFaultsHere == bootcpu = 0 /\ StartInv => NobodyFaults
<1> SUFFICES ASSUME bootcpu = 0, StartInv, NEW c \in CpuIds, cr3[c] # "off", NEW t \in Touches(c)
             PROVE  Sees(Directory(cr3[c]), t)
  BY DEF NobodyFaults, Sees
<1>1. CASE cr3[c] = "entry"
  BY <1>1, OnEntry DEF Directory
<1>2. CASE cr3[c] # "entry"
  <2>1. Directory(cr3[c]) = memory.dir
    BY <1>2, AfterEntry DEF Directory
  <2> QED
    BY <1>2, <2>1, OnKern
<1> QED
  BY <1>1, <1>2

LEMMA StacksAreApart == bootcpu = 0 /\ StartInv => StacksApart
<1> SUFFICES ASSUME bootcpu = 0, StartInv, NEW c \in CpuIds, tr[c] # -1
             PROVE  /\ TranslatedBy(memory.dir, ts_esp0[tr[c]] - 1) = NotPresent
                    /\ \A d \in CpuIds : tr[c] = tr[d] => c = d
  BY DEF StacksApart
<1>1. bootcpu \in CpuIds /\ Aps = CpuIds \ {bootcpu} /\ \A d \in CpuIds : d # -1
  BY BootCpuAssumption DEF CpuIds, Aps
<1>2. ApsRight /\ MemoryRight /\ \A d \in CpuIds : CpuRight(d)
  BY DEF StartInv
<1>3. at[c] \notin NoTask /\ tr[c] = c /\ ts_esp0[tr[c]] = OwnPage(c)
  BY <1>2 DEF CpuRight
<1>4. Built(memory)
  BY <1>1, <1>2, <1>3 DEF ApsRight, MemoryRight, NoTask, Unmapped, OnEntryPgdir, Relocating, Early
<1>5. TranslatedBy(memory.dir, OwnPage(c) - 1) = NotPresent
  BY <1>4, RegionsShow
<1>6. \A d \in CpuIds : tr[d] = -1 \/ tr[d] = d
  BY <1>2 DEF CpuRight
<1> QED
  BY <1>1, <1>3, <1>5, <1>6

LEMMA KernelIsShared == StartInv => KernelShared
<1> SUFFICES ASSUME StartInv, env_pgdir # EmptyMemory.dir, NEW va \in Vas, va >= UENVS, PDX(va) # PDX(UVPT)
             PROVE  LET e == TranslatedBy(env_pgdir, va)
                    IN  /\ e = TranslatedBy(memory.dir, va)
                        /\ "U" \in e.perm => "W" \notin e.perm /\ e.pa \in {pages, envs}
  BY DEF KernelShared
<1>1. env_pgdir = memory.dir /\ Built(memory)
  BY DEF StartInv, MemoryRight, Late
<1>2. PDX(UVPT) = 3
  BY Layout, PdxIs
<1> DEFINE e == TranslatedBy(memory.dir, va)
<1>3. "U" \in e.perm => "W" \notin e.perm /\ e.pa \in {pages, envs}
  <2>1. \A p : Pte(p, "U").perm = {"U"} /\ Pte(p, "U").pa = p /\ Pte(p, "W").perm = {"W"} /\ NotPresent.perm = {}
    BY DEF Pte, NotPresent
  <2>2. CASE va < KERNBASE
    <3>1. e = memory.pte[va]
      BY <1>1, <1>2, <2>2, TablesShow
    <3>2. \/ e = Pte(pages, "U") \/ e = Pte(envs, "U") \/ e = NotPresent \/ \E p : e = Pte(p, "W")
      <4>1. CASE va = UENVS \/ va = UPAGES
        BY <1>1, <3>1, <4>1 DEF Built
      <4>2. CASE OfStack(va, NCPU)
        BY <1>1, <3>1, <4>2 DEF Built, OfStack, CpuIds
      <4>3. CASE Apart(va)
        BY <1>1, <3>1, <4>3 DEF Built
      <4> QED
        BY <2>2, <4>1, <4>2, <4>3 DEF Apart
    <3> HIDE DEF e
    <3>3. "U" # "W"
      OBVIOUS
    <3> QED
      BY <2>1, <3>2, <3>3
  <2>3. CASE ~ (va < KERNBASE)
    <3>1. va - KERNBASE \in Pages /\ va = KADDR(va - KERNBASE)
      BY <2>3, Layout DEF Pages, KADDR
    <3>2. e = Pte(va - KERNBASE, "W")
      BY <1>1, <3>1, HighShows
    <3> HIDE DEF e
    <3>3. "U" # "W"
      OBVIOUS
    <3> QED
      BY <2>1, <3>2, <3>3
  <2> QED
    BY <2>2, <2>3
<1> QED
  BY <1>1, <1>3

LEMMA BuiltIsChecked == Built(memory) => check_kern_pgdir
<1> SUFFICES ASSUME Built(memory) PROVE check_kern_pgdir
  OBVIOUS
<1> DEFINE D == memory.dir
           pa(va) == TranslatedBy(D, va).pa
<1>1. \A p, x : Pte(p, x).pa = p
  BY DEF Pte
<1>2. pa(UPAGES) = pages /\ pa(UENVS) = envs
  BY <1>1, RegionsShow
<1>3. \A p \in 0 .. npages - 1 : pa(KADDR(p)) = p
  BY <1>1, HighShows DEF Pages
<1>4. ASSUME NEW c \in CpuIds
      PROVE  pa(kstacktop(c) - 1) = percpu_kstacks(c) /\ pa(kstacktop(c) - 2) = NotPresent.pa
  <2>1. kstacktop(c) - 1 = OwnPage(c)
    BY DEF OwnPage
  <2>2. kstacktop(c) \in Int
    BY StackPages, Layout DEF kstacktop, KSTKSIZE, KSTKGAP
  <2>3. kstacktop(c) - 2 = OwnPage(c) - 1
    BY <2>2 DEF OwnPage
  <2>4. TranslatedBy(D, OwnPage(c)) = Pte(percpu_kstacks(c), "W") /\ TranslatedBy(D, OwnPage(c) - 1) = NotPresent
    BY RegionsShow
  <2> QED
    BY <1>1, <2>1, <2>3, <2>4
<1> DEFINE sparse == {PDX(UVPT), PDX(KSTACKTOP - 1), PDX(UPAGES), PDX(UENVS), PDX(MMIOBASE)}
<1>5. \A i \in Pdxs : D[i] # NoPde <=> i \in sparse \/ i >= PDX(KERNBASE)
  <2>1. /\ PDX(UENVS) = 1 /\ PDX(UPAGES) = 2 /\ PDX(UVPT) = 3 /\ PDX(MMIOBASE) = 4 /\ PDX(KSTACKTOP - 1) = 5
        /\ PDX(KERNBASE) = 6
    BY Layout, PdxIs
  <2>2. /\ \A i \in {1, 2, 4, 5} : LowTable(D[i])
        /\ D[0] = NoPde /\ D[3] = Self
        /\ \/ D[6] = Large(0, {"W"}) /\ D[7] = Large(PTSIZE, {"W"})
           \/ LowTable(D[6]) /\ LowTable(D[7])
    BY DEF Built, Shaped, High
  <2>3. /\ \A d : LowTable(d) => d # NoPde
        /\ Self # NoPde /\ \A x, y : Large(x, y) # NoPde
    <3>1. /\ NoPde.kind = "none" /\ Self.kind = "self"
          /\ \A x, y : Large(x, y).kind = "large" /\ Table(x).kind = "table"
      BY DEF NoPde, Self, Large, Table
    <3> QED
      BY <3>1 DEF LowTable
  <2>4. \A i \in 0 .. 7 : D[i] # NoPde <=> i # 0
    BY <2>2, <2>3
  <2>5. \A i \in 0 .. 7 : i \in {3, 5, 2, 1, 4} \/ i >= 6 <=> i # 0
    OBVIOUS
  <2> QED
    BY <2>1, <2>4, <2>5, PdxsAre
<1> QED
  BY <1>2, <1>3, <1>4, <1>5 DEF check_kern_pgdir

\* However the CPUs overtake one another while the kernel starts, whichever
\* there are and with either kind of pages, each runs on memory its page
\* directory maps and on a stack of its own, below which nothing is mapped;
\* environments share what the kernel has mapped, and the memory stays as
\* mem_init() has asserted it (mem_init, boot_aps, mp_main, lapic_init,
\* trap_init_percpu, mpentry.S).  The boot CPU is the first of cpus[]: before
\* mp_init() cpunum() says so, and trap_init_percpu() believes it.
THEOREM StartStaysRight == ASSUME bootcpu = 0 PROVE StartSpec => []StartRight
<1>1. StartInit => StartInv
  BY StartsRight
<1>2. StartInv /\ [StartNext]_startVars => StartInv'
  BY StartSteps
<1>3. StartInv => StartRight
  <2> SUFFICES ASSUME StartInv PROVE StartRight
    OBVIOUS
  <2>1. at[bootcpu] \notin {"entry", "low", "init"} => check_kern_pgdir
    BY BuiltIsChecked DEF StartInv, MemoryRight
  <2> QED
    BY <2>1, NobodyFaultsHere, StacksAreApart, KernelIsShared DEF StartRight
<1> QED
  BY <1>1, <1>2, <1>3, PTL DEF StartSpec
=============================================================================
