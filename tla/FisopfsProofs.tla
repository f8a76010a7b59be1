----------------------------- MODULE FisopfsProofs -----------------------------
(***************************************************************************)
(* Proofs about the inode table of fisopfs and the file it is kept in: the *)
(* table is right whenever the handlers are at rest, and what nobody       *)
(* changed since a store began is on the disk when it has ended, however   *)
(* many stores and handlers overlap, for any number of threads, names,     *)
(* slots and contents.                                                     *)
(*                                                                         *)
(* A table is right on its own (Placed, Unique, Marked); while handlers    *)
(* are at work, one slot may be half made, and each handler relies on what *)
(* it has found (Relies).  The kernel's locks let one handler at a time    *)
(* change the table of a directory, which is what keeps the others' finds. *)
(* A store takes no lock: what it may have missed is in `changed`, and     *)
(* what is half made while it runs is there too.                           *)
(***************************************************************************)
EXTENDS Fisopfs, TLAPS, FiniteSetTheorems

-----------------------------------------------------------------------------
(* The invariant.                                                          *)

Makes == {"create", "mkdir"}
Removes == {"unlink", "rmdir"}
Changes == {"write", "truncate"}
Busy(t) == op[t] # Idle

\* How far a handler may be, and with what slot.
Requests == [call : Makes \cup Removes \cup Changes \cup Stores \cup {"none"},
             path : Paths \cup {ROOT_PATH}, content : Contents, index : (Slots \ {0}) \cup {NoSlot},
             at : {"idle", "find", "fill", "occupy", "check", "again", "wipe", "free", "store",
                   "open", "inodes", "states"}]

HasSlot(o) == o.index \in Slots \ {0}
MakesFine(o) == o.at = "find" \/ (o.at \in {"fill", "occupy"} /\ HasSlot(o))
RemovesFine(o) == o.at = "check" \/ (o.at \in {"wipe", "free"} /\ HasSlot(o))
WriteFine(o) == o.at \in {"check", "again"} \/ (o.at = "store" /\ HasSlot(o)) \/ MakesFine(o)
TruncateFine(o) == o.at = "check" \/ (o.at = "store" /\ HasSlot(o))
Fine(o) == \/ o = Idle
           \/ o.call \in Makes /\ o.path \in Paths /\ MakesFine(o)
           \/ o.call \in Removes /\ o.path \in Paths /\ RemovesFine(o)
           \/ o.call = "write" /\ o.path \in Paths /\ WriteFine(o)
           \/ o.call = "truncate" /\ o.path \in Paths /\ TruncateFine(o)
           \/ o.call \in Stores /\ o.path = ROOT_PATH /\ o.at \in {"open", "inodes", "states"}

LocksOf(t) == Locks(op[t].call, op[t].path)

Working(t) == op[t].call \in Makes \cup Removes \cup Changes

\* Who works on what.
OpsRight ==
    /\ op \in [Threads -> Requests] /\ \A t \in Threads : Fine(op[t])
    /\ raced \in BOOLEAN /\ torn \in BOOLEAN /\ mounted \in BOOLEAN
    /\ \A t \in Threads : Busy(t) => mounted /\ ~torn
    /\ \A t \in Threads : op[t].call = "destroy" => \A u \in Threads \ {t} : op[u] = Idle
    /\ \A t, u \in Threads : t # u => LocksOf(t) \cap LocksOf(u) = {}
    /\ ~raced => \A t, u \in Threads :
                     Working(t) /\ Working(u) => Front(op[t].path) = Front(op[u].path)

RootThere == ~torn => 0 \in occupied /\ inodes[0] = Fresh[0]
DataRight == /\ inodes \in [Slots -> Inodes] /\ occupied \in SUBSET Slots
             /\ disk \in Disks \cup {NoFile}
             /\ changed \in [Threads -> SUBSET (Slots \ {0})] /\ unsaved \in SUBSET (Slots \ {0})
             /\ mixed \in BOOLEAN
             /\ RootThere

\* A table n whose slots o are marked.
IsDir(n, o, d) == \E i \in o : n[i].path = d /\ n[i].type = "DIRECTORY"
IsFile(n, o, f) == \E i \in o : n[i].path = f /\ n[i].type = "REGULAR"
Unique(n) == \A i, j \in Slots : n[i].path = n[j].path /\ n[i].path # NoName => i = j
Placed(n, o) == \A i \in Slots \ {0} : n[i].path # NoName =>
    /\ n[i].directory_path \in Paths \cup {ROOT_PATH}
    /\ \A d \in Names : n[i].directory_path = <<d>> => IsDir(n, o, d)
Marked(n, o, i) == i \in o <=> n[i].path # NoName
WholeTable(n, o) == /\ 0 \in o /\ n[0] = Fresh[0] /\ Unique(n) /\ Placed(n, o)
                    /\ \A i \in Slots : Marked(n, o, i)
Childless(n, d) == \A i \in Slots : n[i].directory_path # <<d>>

\* The slot a handler has half made or half removed.
Halfway(o) == \/ o.call \in Makes /\ o.at = "occupy"
              \/ o.call = "unlink" /\ o.at = "free"
              \/ o.call = "rmdir" /\ o.at = "wipe"
InTransit(i) == \E t \in Threads : op[t].index = i /\ Halfway(op[t])

\* What the handler's request o relies on.
MakeRelies(n, k, o) ==
    /\ \A d \in Names : o.call = "create" /\ Front(o.path) = <<d>> => IsDir(n, k, d)
    /\ o.at \in {"find", "fill"} => \A i \in Slots : n[i].path # Last(o.path)
    /\ o.at = "fill" => o.index \notin k /\ n[o.index].path = NoName
    /\ o.at = "occupy" => o.index \notin k /\ n[o.index].path = Last(o.path)
UnlinkRelies(n, k, o) ==
    /\ o.at = "wipe" => /\ o.index \in k /\ n[o.index].path = Last(o.path)
                        /\ n[o.index].type = "REGULAR"
    /\ o.at = "free" => o.index \in k /\ n[o.index].path = NoName
RmdirRelies(n, k, o) ==
    /\ o.at = "free" => o.index \in k
    /\ o.at = "wipe" => o.index \notin k
    /\ o.at \in {"free", "wipe"} => /\ n[o.index].path = Last(o.path)
                                    /\ n[o.index].type = "DIRECTORY"
                                    /\ Childless(n, Last(o.path))
ChangeRelies(n, k, o) == o.at \in {"check", "store"} /\ IsFile(n, k, Last(o.path))
Relies(n, k, o) == /\ o.call \in Makes => MakeRelies(n, k, o)
                   /\ o.call = "unlink" => UnlinkRelies(n, k, o)
                   /\ o.call = "rmdir" => RmdirRelies(n, k, o)
                   /\ o.call \in Changes => ChangeRelies(n, k, o)

TableSound == /\ Unique(inodes) /\ Placed(inodes, occupied)
              /\ \A i \in Slots : InTransit(i) \/ Marked(inodes, occupied, i)
              /\ \A t \in Threads : Relies(inodes, occupied, op[t])
TableInv == mounted /\ ~raced /\ ~torn => TableSound

\* The file, in the middle of stores and when none is under way.
Opened == disk # NoFile
OnDisk(i) == disk.inodes[i] = inodes[i]
AsInTable(i) == OnDisk(i) /\ (i \in disk.occupied <=> i \in occupied)
InodesWritten == (\A u \in Threads : ~At(u, Stores, "inodes")) =>
    \A t \in Threads : At(t, Stores, "states") => \A i \in Slots \ changed[t] : OnDisk(i)
HalfwaySeen == \A t \in StoringThreads, u \in Threads :
    Halfway(op[u]) => op[u].index \in changed[t]
Stored == Opened => /\ disk.length = 2
                    /\ \A i \in Slots \ unsaved : AsInTable(i)
                    /\ ~raced /\ ~mixed => WholeTable(disk.inodes, disk.occupied)
DiskInv == ~torn => /\ InodesWritten /\ HalfwaySeen
                    /\ IF Storing THEN Opened ELSE Stored

FileInv == OpsRight /\ DataRight /\ TableInv /\ DiskInv

-----------------------------------------------------------------------------
(* Numbers and paths.                                                      *)

\* A set of natural numbers that is not empty has a least one.
LEMMA LeastExists ==
    ASSUME NEW S, S \subseteq Nat, S # {}
    PROVE  \E i \in S : \A j \in S : i <= j
<1>1. PICK s \in S : TRUE
  OBVIOUS
<1> DEFINE R == StrictSubsetOrdering(0 .. s)
           T == {0 .. k : k \in S \cap (0 .. s)}
<1>2. IsWellFoundedOn(R, FiniteSubsetsOf(0 .. s))
  BY FS_StrictSubsetOrderingWellFounded
<1>3. T \subseteq FiniteSubsetsOf(0 .. s) /\ T # {}
  <2>1. \A k \in S \cap (0 .. s) : IsFiniteSet(0 .. k) /\ 0 .. k \subseteq 0 .. s
    BY FS_Interval
  <2> QED
    BY <1>1, <2>1 DEF FiniteSubsetsOf
<1>4. PICK x \in T : \A y \in T : <<y, x>> \notin R
  <2> HIDE DEF R, T
  <2> QED BY <1>2, <1>3, WFMin
<1>5. PICK k \in S \cap (0 .. s) : x = 0 .. k
  OBVIOUS
<1>6. ASSUME NEW j \in S, j < k PROVE FALSE
  <2>1. 0 .. j \in T /\ 0 .. j \subseteq 0 .. k /\ 0 .. k \subseteq 0 .. s
    BY <1>5, <1>6
  <2>2. 0 .. j # 0 .. k
    <3>1. k \in 0 .. k /\ k \notin 0 .. j
      BY <1>5, <1>6
    <3> QED BY <3>1
  <2>3. <<0 .. j, 0 .. k>> \in R
    BY <2>1, <2>2 DEF StrictSubsetOrdering
  <2> QED
    BY <1>4, <1>5, <2>1, <2>3
<1> QED
  BY <1>5, <1>6

LEMMA MinIn ==
    ASSUME NEW S, S \subseteq Slots, S # {}
    PROVE  Min(S) \in S
<1>1. S \subseteq Nat
  BY FisopfsAssumption DEF Slots
<1>2. PICK i \in S : \A j \in S : i <= j
  BY <1>1, LeastExists
<1> QED
  BY <1>2 DEF Min

\* What a path is made of: its last component, and the rest.
LEMMA PathFacts ==
    ASSUME NEW p \in Paths
    PROVE  /\ Last(p) \in Names /\ Last(p) # NoName /\ Last(p) # RootName
           /\ Front(p) \in Paths \cup {ROOT_PATH} /\ p # ROOT_PATH
           /\ Len(p) \in Nat \ {0} /\ p \in Seq(Names)
<1>1. PICK n \in 1 .. Depth : p \in [1 .. n -> Names]
  BY DEF Paths
<1>2. n \in Nat \ {0} /\ n - 1 \in 0 .. Depth
  BY FisopfsAssumption
<1>3. p \in Seq(Names) /\ Len(p) = n /\ p # ROOT_PATH
  <2>1. p \in Seq(Names) /\ Len(p) = n
    BY <1>1, <1>2
  <2> QED BY <2>1, <1>2 DEF ROOT_PATH
<1>4. Last(p) = p[n] /\ Front(p) = [i \in 1 .. n - 1 |-> p[i]]
  BY <1>1, <1>2, <1>3 DEF Last, Front
<1>5. Last(p) \in Names
  BY <1>1, <1>2, <1>4
<1>6. Last(p) # NoName /\ Last(p) # RootName
  BY <1>5, FisopfsAssumption
<1>7. CASE n = 1
  BY <1>2, <1>3, <1>4, <1>5, <1>6, <1>7 DEF ROOT_PATH
<1>8. CASE n # 1
  <2>1. n - 1 \in 1 .. Depth
    BY <1>2, <1>8
  <2> QED
    BY <1>1, <1>2, <1>3, <1>4, <1>5, <1>6, <2>1 DEF Paths
<1> QED
  BY <1>7, <1>8

LEMMA SamePath ==
    ASSUME NEW p \in Paths, NEW q \in Paths, Front(p) = Front(q), Last(p) = Last(q)
    PROVE  p = q
<1>1. PICK n \in 1 .. Depth : p \in [1 .. n -> Names]
  BY DEF Paths
<1>2. PICK m \in 1 .. Depth : q \in [1 .. m -> Names]
  BY DEF Paths
<1>3. /\ p \in Seq(Names) /\ Len(p) = n /\ q \in Seq(Names) /\ Len(q) = m
      /\ n \in Nat \ {0} /\ m \in Nat \ {0}
  BY <1>1, <1>2, FisopfsAssumption
<1>4. Front(p) \in Seq(Names) /\ Len(Front(p)) = n - 1 /\ \A i \in 1 .. n - 1 : Front(p)[i] = p[i]
  BY <1>1, <1>3 DEF Front
<1>5. Front(q) \in Seq(Names) /\ Len(Front(q)) = m - 1 /\ \A i \in 1 .. m - 1 : Front(q)[i] = q[i]
  BY <1>2, <1>3 DEF Front
<1>6. n = m
  BY <1>3, <1>4, <1>5
<1>7. p[n] = q[n]
  BY <1>3, <1>6 DEF Last
<1>8. \A i \in 1 .. n : p[i] = q[i]
  BY <1>3, <1>4, <1>5, <1>6, <1>7
<1> QED
  BY <1>1, <1>2, <1>6, <1>8

LEMMA OneComponent ==
    ASSUME NEW q \in Seq(Names), Len(q) = 1
    PROVE  \E n \in Names : q = <<n>>
<1>1. q[1] \in Names
  OBVIOUS
<1>2. q = <<q[1]>>
  OBVIOUS
<1> QED
  BY <1>1, <1>2

LEMMA OneName == \A n, m : <<n>> = <<m>> => n = m
OBVIOUS

-----------------------------------------------------------------------------
(* build_superblock(), and what get_inode_index() and                      *)
(* next_free_inode_index() find.                                           *)

LEMMA FreshFacts ==
    /\ 0 \in Slots /\ NoSlot \notin Slots /\ Blank \in Inodes
    /\ BlankInodes \in [Slots -> Inodes] /\ \A i \in Slots : BlankInodes[i] = Blank
    /\ Fresh \in [Slots -> Inodes] /\ \A i \in Slots \ {0} : Fresh[i] = Blank
    /\ Fresh[0].path = RootName /\ Fresh[0].type = "DIRECTORY" /\ RootName # NoName
    /\ Idle \in Requests
<1>1. 0 \in Slots /\ NoSlot \notin Slots /\ RootName # NoName
  BY FisopfsAssumption DEF Slots, NoSlot
<1>2. Blank \in Inodes /\ Blank.path = NoName
  BY FisopfsAssumption DEF Blank, Inodes
<1>3. BlankInodes \in [Slots -> Inodes] /\ \A i \in Slots : BlankInodes[i] = Blank
  BY <1>2 DEF BlankInodes
<1> DEFINE root == [Blank EXCEPT !.path = RootName, !.type = "DIRECTORY"]
<1>4. root \in Inodes /\ root.path = RootName /\ root.type = "DIRECTORY"
  BY FisopfsAssumption DEF Blank, Inodes
<1>5. Fresh = [BlankInodes EXCEPT ![0] = root]
  BY DEF Fresh
<1>6. Idle \in Requests
  BY FisopfsAssumption DEF Idle, Requests
<1> HIDE DEF root
<1> QED
  BY <1>1, <1>2, <1>3, <1>4, <1>5, <1>6

LEMMA IndexFacts ==
    ASSUME DataRight, NEW p \in Paths
    PROVE  /\ Index(p) = NoSlot \/ Index(p) \in occupied
           /\ Index(p) = NoSlot => \A i \in occupied : inodes[i].path # Last(p)
           /\ Index(p) # NoSlot => /\ Index(p) \in occupied /\ Index(p) \in Slots
                                   /\ inodes[Index(p)].path = Last(p)
                                   /\ ~torn => Index(p) # 0
<1> DEFINE hits == {i \in occupied : inodes[i].path = Last(p)}
<1>1. Index(p) = IF hits = {} THEN NoSlot ELSE Min(hits)
  BY PathFacts DEF Index
<1>2. hits \subseteq occupied /\ occupied \subseteq Slots
  BY DEF DataRight
<1>3. ~torn => inodes[0].path = RootName
  BY FreshFacts DEF DataRight, RootThere
<1>4. Last(p) # RootName /\ NoSlot \notin Slots
  BY PathFacts, FreshFacts
<1>5. CASE hits = {}
  BY <1>1, <1>4, <1>5
<1>6. CASE hits # {}
  <2>1. Min(hits) \in hits
    BY <1>2, <1>6, MinIn
  <2> QED BY <1>1, <1>2, <1>3, <1>4, <1>6, <2>1
<1> QED
  BY <1>5, <1>6

LEMMA NextFreeFacts ==
    ASSUME DataRight, NEW p \in Paths, NextFree(p) # NoSlot
    PROVE  /\ NextFree(p) \in Slots /\ NextFree(p) \notin occupied
           /\ ~torn => NextFree(p) # 0
<1> DEFINE hits == {i \in Slots : inodes[i].path = Last(p) \/ i \notin occupied}
<1>1. NextFree(p) = IF hits = {} \/ inodes[Min(hits)].path = Last(p) THEN NoSlot ELSE Min(hits)
  BY DEF NextFree
<1>2. Min(hits) \in hits /\ hits \subseteq Slots
  BY <1>1, MinIn
<1>3. ~torn => 0 \in occupied
  BY DEF DataRight, RootThere
<1> QED
  BY <1>1, <1>2, <1>3

-----------------------------------------------------------------------------
(* Who works on what.                                                      *)

\* An idle thread locks nothing, and a request only moves along.
LEMMA IdleFacts ==
    /\ Fine(Idle) /\ Idle.call = "none" /\ Idle.path = ROOT_PATH /\ Idle.index = NoSlot
    /\ Idle.at = "idle" /\ Locks(Idle.call, Idle.path) = {} /\ Idle \in Requests
BY FreshFacts DEF Idle, Fine, Locks

LEMMA HandlerOps ==
    ASSUME OpsRight, NEW t \in Threads, Busy(t), NEW o \in Requests, Fine(o),
           o = Idle \/ (o.call = op[t].call /\ o.path = op[t].path),
           op' = [op EXCEPT ![t] = o], UNCHANGED <<raced, torn>>,
           mounted' \in BOOLEAN, \A u \in Threads : Busy(u)' => mounted'
    PROVE  OpsRight'
<1>1. /\ op' \in [Threads -> Requests] /\ op'[t] = o
      /\ \A u \in Threads \ {t} : op'[u] = op[u]
  BY DEF OpsRight
<1>2. \A u \in Threads : (Busy(u)' => Busy(u)) /\ (Working(u)' => Working(u))
  BY <1>1, IdleFacts DEF Busy, Working, Makes, Removes, Changes
<1>3. \A u \in Threads : LocksOf(u)' \subseteq LocksOf(u)
  <2>1. LocksOf(t)' \subseteq LocksOf(t)
    BY <1>1, IdleFacts DEF LocksOf
  <2>2. \A u \in Threads \ {t} : LocksOf(u)' = LocksOf(u)
    BY <1>1 DEF LocksOf
  <2> QED BY <2>1, <2>2
<1>4. \A u \in Threads : Working(u)' => op'[u].path = op[u].path
  BY <1>1, IdleFacts DEF Working, Makes, Removes, Changes
<1>5. \A u \in Threads : Fine(op'[u])
  BY <1>1 DEF OpsRight
<1>6. \A u, v \in Threads : u # v => LocksOf(u)' \cap LocksOf(v)' = {}
  <2>1. \A u, v \in Threads : u # v => LocksOf(u) \cap LocksOf(v) = {}
    BY DEF OpsRight
  <2> QED BY <1>3, <2>1
<1>7. ASSUME NEW u \in Threads, op'[u].call = "destroy"
      PROVE  \A v \in Threads \ {u} : op'[v] = Idle
  <2>1. op[u].call = "destroy"
    BY <1>1, <1>7, IdleFacts
  <2>2. u = t /\ \A v \in Threads \ {u} : op[v] = Idle
    BY <2>1 DEF OpsRight, Busy
  <2> QED BY <1>1, <2>2
<1>8. ~raced' => \A u, v \in Threads :
                    Working(u)' /\ Working(v)' => Front(op'[u].path) = Front(op'[v].path)
  BY <1>2, <1>4 DEF OpsRight
<1>9. \A u \in Threads : Busy(u)' => mounted' /\ ~torn'
  BY <1>2 DEF OpsRight
<1> QED
  BY <1>1, <1>5, <1>6, <1>7, <1>8, <1>9 DEF OpsRight

LEMMA RequestOps ==
    ASSUME OpsRight, NEW t \in Threads, NEW call \in DOMAIN FirstStep,
           NEW p \in Paths \cup {ROOT_PATH}, NEW v \in Contents, Request(t, call, p, v),
           IF call = "flush" THEN p = ROOT_PATH ELSE p \in Paths
    PROVE  /\ OpsRight' /\ op'[t].path = p /\ op'[t].call = call /\ op'[t].at = FirstStep[call]
           /\ \A u \in Threads \ {t} : op'[u] = op[u]
<1> DEFINE o == [call |-> call, path |-> p, content |-> v, at |-> FirstStep[call], index |-> NoSlot]
<1>1. o \in Requests /\ Fine(o)
  BY DEF Requests, FirstStep, Fine, Makes, Removes, Changes, Stores, MakesFine, RemovesFine,
         WriteFine, TruncateFine
<1>2. o # Idle /\ o.path = p /\ o.call = call /\ o.at = FirstStep[call] /\ call # "destroy"
  BY IdleFacts DEF FirstStep
<1>3. op' = [op EXCEPT ![t] = o]
  BY DEF Request
<1> HIDE DEF o
<1>4. /\ op' \in [Threads -> Requests] /\ op'[t] = o
      /\ \A u \in Threads \ {t} : op'[u] = op[u]
  BY <1>1, <1>3 DEF OpsRight
<1>5. /\ UNCHANGED <<torn, mounted>> /\ mounted /\ ~torn /\ op[t] = Idle
      /\ \A u \in Threads : op[u].call # "destroy"
      /\ raced' = (raced \/ \E u \in Threads : /\ op[u] # Idle /\ Front(op[u].path) # Front(p)
                                              /\ {op[u].call, call} \cap Stores = {})
  BY DEF Request
<1>6. \A u \in Threads : Fine(op'[u])
  BY <1>1, <1>4 DEF OpsRight
<1>7. \A u \in Threads : Busy(u)' => mounted' /\ ~torn'
  BY <1>5
<1>8. \A u \in Threads : op'[u].call # "destroy"
  BY <1>2, <1>4, <1>5
<1>9. \A u, w \in Threads : u # w => LocksOf(u)' \cap LocksOf(w)' = {}
  <2>1. \A u, w \in Threads : u # w => LocksOf(u) \cap LocksOf(w) = {}
    BY DEF OpsRight
  <2>2. \A u \in Threads \ {t} : LocksOf(u)' = LocksOf(u) /\ LocksOf(u) \cap LocksOf(t)' = {}
    BY <1>2, <1>4 DEF LocksOf, Request
  <2> QED BY <2>1, <2>2
<1>10. ~raced' /\ call \notin Stores =>
          \A u \in Threads : Working(u) => Front(op[u].path) = Front(p)
  BY <1>5, IdleFacts, ZenonT(40) DEF Working, Makes, Removes, Changes, Stores
<1>11. ~raced' => \A u, w \in Threads :
                     Working(u)' /\ Working(w)' => Front(op'[u].path) = Front(op'[w].path)
  <2>1. Working(t)' => call \notin Stores
    BY <1>2, <1>4 DEF Working, Makes, Removes, Changes, Stores
  <2>2. \A u \in Threads \ {t} : (Working(u)' <=> Working(u)) /\ op'[u].path = op[u].path
    BY <1>4 DEF Working
  <2>3. ~raced' => ~raced
    BY <1>5
  <2>4. op'[t].path = p
    BY <1>2, <1>4
  <2> QED BY <1>10, <2>1, <2>2, <2>3, <2>4 DEF OpsRight
<1>12. raced' \in BOOLEAN /\ torn' \in BOOLEAN /\ mounted' \in BOOLEAN
  BY <1>5 DEF OpsRight
<1> QED
  BY <1>2, <1>4, <1>6, <1>7, <1>8, <1>9, <1>11, <1>12 DEF OpsRight

\* What a handler at work has in hand.
LEMMA AtWork ==
    ASSUME OpsRight, NEW t \in Threads
    PROVE  /\ op[t] \in Requests /\ Fine(op[t])
           /\ op[t].call \in Makes \cup Removes \cup Changes => Busy(t) /\ op[t].path \in Paths
           /\ op[t].call \in Stores => Busy(t) /\ op[t].path = ROOT_PATH
           /\ op[t].at \in {"fill", "occupy", "wipe", "free", "store"} => HasSlot(op[t])
           /\ Busy(t) => /\ mounted /\ ~torn
                         /\ op[t].call \in Makes \cup Removes \cup Changes \cup Stores
<1>1. op[t] \in Requests /\ Fine(op[t])
  BY DEF OpsRight
<1>2. op[t] = Idle => ~ (op[t].call \in Makes \cup Removes \cup Changes \cup Stores)
  BY IdleFacts DEF Makes, Removes, Changes, Stores
<1>3. op[t].call \in Makes \cup Removes \cup Changes => Busy(t) /\ op[t].path \in Paths
  BY <1>1, <1>2 DEF Busy, Fine, Makes, Removes, Changes, Stores
<1>4. op[t].call \in Stores => Busy(t) /\ op[t].path = ROOT_PATH
  BY <1>1, <1>2 DEF Busy, Fine, Makes, Removes, Changes, Stores
<1>5. op[t].at \in {"fill", "occupy", "wipe", "free", "store"} => HasSlot(op[t])
  BY <1>1, IdleFacts DEF Fine, MakesFine, RemovesFine, WriteFine, TruncateFine
<1>6. Busy(t) => mounted /\ ~torn
  BY DEF OpsRight
<1>7. Busy(t) => op[t].call \in Makes \cup Removes \cup Changes \cup Stores
  BY <1>1 DEF Busy, Fine, Changes
<1> QED
  BY <1>1, <1>3, <1>4, <1>5, <1>6, <1>7

\* A handler's thread goes on to o; the others' stay where they are.
Goes(t, o) == op' = [op EXCEPT ![t] = o] /\ op'[t] = o /\ \A u \in Threads \ {t} : op'[u] = op[u]

LEMMA GoesFacts ==
    ASSUME OpsRight, NEW t \in Threads
    PROVE  /\ \A a : Goto(t, a) => Goes(t, [op[t] EXCEPT !.at = a])
           /\ \A i, a : Found(t, i, a) => Goes(t, [op[t] EXCEPT !.index = i, !.at = a])
           /\ Done(t) => Goes(t, Idle)
<1>1. op \in [Threads -> Requests]
  BY DEF OpsRight
<1>2. \A a : Goto(t, a) => Goes(t, [op[t] EXCEPT !.at = a])
  BY <1>1 DEF Goto, Goes
<1>3. \A i, a : Found(t, i, a) => Goes(t, [op[t] EXCEPT !.index = i, !.at = a])
  BY <1>1 DEF Found, Goes
<1>4. Done(t) => Goes(t, Idle)
  BY <1>1 DEF Done, Goes
<1> QED
  BY <1>2, <1>3, <1>4

\* Where the handler of thread t is after a step that stays within it.
LEMMA Onward ==
    ASSUME OpsRight, NEW t \in Threads, Busy(t), NEW o \in Requests, Goes(t, o), Fine(o),
           o = Idle \/ (o.call = op[t].call /\ o.path = op[t].path),
           UNCHANGED <<mounted, raced, torn>>
    PROVE  OpsRight'
<1>1. mounted /\ mounted \in BOOLEAN /\ mounted' = mounted /\ UNCHANGED <<raced, torn>>
  BY DEF OpsRight
<1>2. mounted' \in BOOLEAN /\ mounted'
  BY <1>1
<1>3. op' = [op EXCEPT ![t] = o]
  BY DEF Goes
<1> QED
  BY <1>1, <1>2, <1>3, HandlerOps

Steps(t) == \/ Find(t) \/ Fill(t) \/ Occupy(t) \/ Check(t) \/ Wipe(t) \/ Free(t) \/ Store(t)
            \/ OpenDisk(t) \/ WriteInodes(t)

LEMMA StepGoes ==
    ASSUME OpsRight, DataRight, NEW t \in Threads, Steps(t)
    PROVE  /\ Busy(t) /\ UNCHANGED <<mounted, raced, torn>>
           /\ \E o \in Requests : Goes(t, o) /\ Fine(o) /\ (o = Idle \/ (o.call = op[t].call /\ o.path = op[t].path))
<1> DEFINE G(o) == Goes(t, o) /\ Fine(o) /\ (o = Idle \/ (o.call = op[t].call /\ o.path = op[t].path))
<1>1. /\ op[t] \in Requests /\ Fine(op[t])
      /\ op[t].call \in Makes \cup Removes \cup Changes => Busy(t) /\ op[t].path \in Paths
      /\ op[t].call \in Stores => Busy(t) /\ op[t].path = ROOT_PATH
      /\ op[t].at \in {"fill", "occupy", "wipe", "free", "store"} => HasSlot(op[t])
      /\ Busy(t) => mounted /\ ~torn
  BY AtWork
<1>2. G(Idle) <=> Goes(t, Idle)
  BY IdleFacts
<1> USE DEF At, Touch, history
<1>3. CASE Find(t)
  <2>1. /\ op[t].call \in Creates /\ op[t].at = "find"
        /\ IF NextFree(op[t].path) = NoSlot THEN Done(t) ELSE Found(t, NextFree(op[t].path), "fill")
        /\ UNCHANGED <<mounted, raced, torn>>
    BY <1>3 DEF Find
  <2>2. Busy(t) /\ op[t].path \in Paths /\ mounted /\ ~torn
    BY <1>1, <2>1 DEF Creates, Makes, Changes
  <2>3. CASE NextFree(op[t].path) = NoSlot
    BY <1>2, <2>1, <2>2, <2>3, GoesFacts, IdleFacts
  <2>4. CASE NextFree(op[t].path) # NoSlot
    <3> DEFINE o == [op[t] EXCEPT !.index = NextFree(op[t].path), !.at = "fill"]
    <3>1. NextFree(op[t].path) \in Slots \ {0}
      BY <2>2, <2>4, NextFreeFacts
    <3>2. o \in Requests /\ o.call = op[t].call /\ o.path = op[t].path /\ o.at = "fill" /\ HasSlot(o)
      BY <1>1, <3>1 DEF Requests, HasSlot
    <3>3. Goes(t, o)
      BY <2>1, <2>4, GoesFacts
    <3> HIDE DEF o
    <3>4. Fine(o)
      BY <2>1, <2>2, <3>2 DEF Fine, Creates, Makes, MakesFine, WriteFine
    <3> QED BY <2>1, <2>2, <3>2, <3>3, <3>4
  <2> QED BY <2>3, <2>4
<1>4. CASE Fill(t)
  <2> DEFINE o == [op[t] EXCEPT !.at = "occupy"]
  <2>1. /\ op[t].call \in Creates /\ op[t].at = "fill" /\ Goto(t, "occupy")
        /\ UNCHANGED <<mounted, raced, torn>>
    BY <1>4 DEF Fill
  <2>2. Busy(t) /\ op[t].path \in Paths /\ HasSlot(op[t])
    BY <1>1, <2>1 DEF Creates, Makes, Changes
  <2>3. o \in Requests /\ o.call = op[t].call /\ o.path = op[t].path /\ o.at = "occupy" /\ HasSlot(o)
    BY <1>1, <2>2 DEF Requests, HasSlot
  <2>4. Goes(t, o)
    BY <2>1, GoesFacts
  <2> HIDE DEF o
  <2>5. Fine(o)
    BY <2>1, <2>2, <2>3 DEF Fine, Creates, Makes, MakesFine, WriteFine
  <2> QED BY <2>1, <2>2, <2>3, <2>4, <2>5
<1>5. CASE Occupy(t)
  <2> DEFINE o == [op[t] EXCEPT !.at = "again"]
  <2>1. /\ op[t].call \in Creates /\ op[t].at = "occupy"
        /\ IF op[t].call = "write" THEN Goto(t, "again") ELSE Done(t)
        /\ UNCHANGED <<mounted, raced, torn>>
    BY <1>5 DEF Occupy
  <2>2. Busy(t) /\ op[t].path \in Paths
    BY <1>1, <2>1 DEF Creates, Makes, Changes
  <2>3. CASE op[t].call = "write"
    <3>1. o \in Requests /\ o.call = op[t].call /\ o.path = op[t].path /\ o.at = "again"
      BY <1>1 DEF Requests
    <3>2. Goes(t, o)
      BY <2>1, <2>3, GoesFacts
    <3> HIDE DEF o
    <3>3. Fine(o)
      BY <2>2, <2>3, <3>1 DEF Fine, WriteFine
    <3> QED BY <2>1, <2>2, <3>1, <3>2, <3>3
  <2>4. CASE op[t].call # "write"
    BY <1>2, <2>1, <2>2, <2>4, GoesFacts, IdleFacts
  <2> QED BY <2>3, <2>4
<1>6. CASE Check(t)
  <2>1. /\ op[t].call \in Removes \cup Changes /\ op[t].at \in {"check", "again"}
        /\ \/ /\ Accepts(op[t].call, op[t].path)
              /\ Found(t, Index(op[t].path), Writes[op[t].call])
           \/ op[t].call = "write" /\ Goto(t, "find")
           \/ Done(t)
        /\ UNCHANGED <<mounted, raced, torn>>
    BY <1>6 DEF Check, Removes, Changes, Writes
  <2>2. Busy(t) /\ op[t].path \in Paths /\ mounted /\ ~torn
    BY <1>1, <2>1
  <2>3. CASE Accepts(op[t].call, op[t].path) /\ Found(t, Index(op[t].path), Writes[op[t].call])
    <3> DEFINE o == [op[t] EXCEPT !.index = Index(op[t].path), !.at = Writes[op[t].call]]
    <3>1. Index(op[t].path) \in Slots \ {0}
      BY <2>2, <2>3, IndexFacts DEF Accepts
    <3>2. Writes[op[t].call] \in {"wipe", "free", "store"}
      BY <2>1 DEF Writes, Removes, Changes
    <3>3. o \in Requests
      BY <1>1, <3>1, <3>2 DEF Requests
    <3>4. /\ o \in Requests /\ o.call = op[t].call /\ o.path = op[t].path /\ HasSlot(o)
          /\ o.at = Writes[o.call]
      BY <1>1, <3>1, <3>3 DEF Requests, HasSlot
    <3>5. Goes(t, o)
      BY <2>3, GoesFacts
    <3> HIDE DEF o
    <3>6. Fine(o)
      BY <2>1, <2>2, <3>4 DEF Fine, Removes, Changes, Writes, RemovesFine, WriteFine, TruncateFine
    <3> QED BY <2>1, <2>2, <3>4, <3>5, <3>6
  <2>4. CASE op[t].call = "write" /\ Goto(t, "find")
    <3> DEFINE o == [op[t] EXCEPT !.at = "find"]
    <3>1. o \in Requests /\ o.call = "write" /\ o.path = op[t].path /\ o.at = "find"
      BY <1>1, <2>4 DEF Requests
    <3>2. Goes(t, o)
      BY <2>4, GoesFacts
    <3> HIDE DEF o
    <3>3. Fine(o)
      BY <2>2, <3>1 DEF Fine, WriteFine, MakesFine
    <3> QED BY <2>1, <2>2, <2>4, <3>1, <3>2, <3>3
  <2>5. CASE Done(t)
    BY <1>2, <2>1, <2>2, <2>5, GoesFacts, IdleFacts
  <2> QED BY <2>1, <2>3, <2>4, <2>5
<1>7. CASE Wipe(t)
  <2> DEFINE o == [op[t] EXCEPT !.at = "free"]
  <2>1. /\ op[t].call \in Removes /\ op[t].at = "wipe"
        /\ IF op[t].call = "unlink" THEN Goto(t, "free") ELSE Done(t)
        /\ UNCHANGED <<mounted, raced, torn>>
    BY <1>7 DEF Wipe, Removes
  <2>2. Busy(t) /\ op[t].path \in Paths /\ HasSlot(op[t])
    BY <1>1, <2>1
  <2>3. CASE op[t].call = "unlink"
    <3>1. o \in Requests /\ o.call = op[t].call /\ o.path = op[t].path /\ o.at = "free" /\ HasSlot(o)
      BY <1>1, <2>2 DEF Requests, HasSlot
    <3>2. Goes(t, o)
      BY <2>1, <2>3, GoesFacts
    <3> HIDE DEF o
    <3>3. Fine(o)
      BY <2>1, <2>2, <3>1 DEF Fine, RemovesFine
    <3> QED BY <2>1, <2>2, <3>1, <3>2, <3>3
  <2>4. CASE op[t].call # "unlink"
    BY <1>2, <2>1, <2>2, <2>4, GoesFacts, IdleFacts
  <2> QED BY <2>3, <2>4
<1>8. CASE Free(t)
  <2> DEFINE o == [op[t] EXCEPT !.at = "wipe"]
  <2>1. /\ op[t].call \in Removes /\ op[t].at = "free"
        /\ IF op[t].call = "rmdir" THEN Goto(t, "wipe") ELSE Done(t)
        /\ UNCHANGED <<mounted, raced, torn>>
    BY <1>8 DEF Free, Removes
  <2>2. Busy(t) /\ op[t].path \in Paths /\ HasSlot(op[t])
    BY <1>1, <2>1
  <2>3. CASE op[t].call = "rmdir"
    <3>1. o \in Requests /\ o.call = op[t].call /\ o.path = op[t].path /\ o.at = "wipe" /\ HasSlot(o)
      BY <1>1, <2>2 DEF Requests, HasSlot
    <3>2. Goes(t, o)
      BY <2>1, <2>3, GoesFacts
    <3> HIDE DEF o
    <3>3. Fine(o)
      BY <2>1, <2>2, <3>1 DEF Fine, RemovesFine
    <3> QED BY <2>1, <2>2, <3>1, <3>2, <3>3
  <2>4. CASE op[t].call # "rmdir"
    BY <1>2, <2>1, <2>2, <2>4, GoesFacts, IdleFacts
  <2> QED BY <2>3, <2>4
<1>9. CASE Store(t)
  <2>1. op[t].call \in Changes /\ Done(t) /\ UNCHANGED <<mounted, raced, torn>>
    BY <1>9 DEF Store, Changes
  <2>2. Busy(t)
    BY <1>1, <2>1
  <2> QED BY <1>2, <2>1, <2>2, GoesFacts, IdleFacts
<1>10. ASSUME NEW a \in {"inodes", "states"}, op[t].call \in Stores, Goto(t, a),
              UNCHANGED <<mounted, raced, torn>>
       PROVE  Busy(t) /\ \E o \in Requests : G(o)
  <2> DEFINE o == [op[t] EXCEPT !.at = a]
  <2>1. o \in Requests /\ o.call = op[t].call /\ o.path = op[t].path /\ o.at = a
    BY <1>1 DEF Requests
  <2>2. Goes(t, o)
    BY <1>10, GoesFacts
  <2> HIDE DEF o
  <2>3. Fine(o)
    BY <1>1, <1>10, <2>1 DEF Fine
  <2> QED BY <1>1, <1>10, <2>1, <2>2, <2>3
<1>11. CASE OpenDisk(t)
  BY <1>10, <1>11 DEF OpenDisk
<1>12. CASE WriteInodes(t)
  BY <1>10, <1>12 DEF WriteInodes
<1> QED
  BY <1>3, <1>4, <1>5, <1>6, <1>7, <1>8, <1>9, <1>11, <1>12 DEF Steps

-----------------------------------------------------------------------------
(* What each step does to the table and to the file.                       *)

LEMMA NewInodeFacts ==
    ASSUME NEW p \in Paths, NEW type \in {"REGULAR", "DIRECTORY"}
    PROVE  /\ NewInode(p, type) \in Inodes
           /\ NewInode(p, type).path = Last(p) /\ NewInode(p, type).type = type
           /\ NewInode(p, type).directory_path = IF type = "REGULAR" THEN Front(p) ELSE ROOT_PATH
<1>1. Last(p) \in Names /\ Front(p) \in Paths \cup {ROOT_PATH}
  BY PathFacts
<1>2. /\ Zero \in Contents
      /\ (IF type = "REGULAR" THEN Front(p) ELSE ROOT_PATH) \in Paths \cup {ROOT_PATH, NoPath}
  BY <1>1, FisopfsAssumption
<1> QED
  BY <1>1, <1>2 DEF NewInode, Inodes

\* One inode is changed.
Sets(i, inode) == inodes'[i] = inode /\ \A j \in Slots \ {i} : inodes'[j] = inodes[j]

LEMMA TouchFacts ==
    ASSUME DataRight, NEW i \in Slots \ {0}, Touch(i)
    PROVE  /\ changed' \in [Threads -> SUBSET (Slots \ {0})]
           /\ unsaved' \in SUBSET (Slots \ {0}) /\ unsaved' = unsaved \cup {i}
           /\ \A t \in Threads : /\ changed[t] \subseteq changed'[t]
                                 /\ t \in StoringThreads => i \in changed'[t]
           /\ mixed' \in BOOLEAN /\ UNCHANGED <<mixed, raced, torn>>
<1>1. /\ changed' = [t \in Threads |-> changed[t] \cup IF t \in StoringThreads THEN {i} ELSE {}]
      /\ unsaved' = unsaved \cup {i} /\ UNCHANGED <<mixed, raced, torn>>
  BY DEF Touch
<1>2. /\ changed \in [Threads -> SUBSET (Slots \ {0})] /\ unsaved \in SUBSET (Slots \ {0})
      /\ mixed \in BOOLEAN
  BY DEF DataRight
<1>3. \A t \in Threads : /\ changed'[t] \in SUBSET (Slots \ {0}) /\ changed[t] \subseteq changed'[t]
                         /\ t \in StoringThreads => i \in changed'[t]
  BY <1>1, <1>2
<1>4. changed' \in [Threads -> SUBSET (Slots \ {0})]
  BY <1>1, <1>3
<1> QED
  BY <1>1, <1>2, <1>3, <1>4

LEMMA SetsFacts ==
    ASSUME DataRight, NEW i \in Slots \ {0}, NEW inode \in Inodes,
           inodes' = [inodes EXCEPT ![i] = inode],
           UNCHANGED <<occupied, disk>>, Touch(i)
    PROVE  DataRight' /\ Sets(i, inode)
<1>1. inodes \in [Slots -> Inodes]
  BY DEF DataRight
<1>2. inodes' \in [Slots -> Inodes] /\ Sets(i, inode)
  BY <1>1 DEF Sets
<1>3. inodes'[0] = inodes[0]
  BY <1>2, FreshFacts DEF Sets
<1> QED
  BY <1>2, <1>3, TouchFacts DEF DataRight, RootThere

LEMMA SameData ==
    ASSUME DataRight, UNCHANGED <<inodes, occupied, disk, saving, torn>>
    PROVE  DataRight'
BY DEF DataRight, RootThere, saving

LEMMA TableSteps ==
    ASSUME OpsRight, DataRight, NEW t \in Threads
    PROVE  /\ Find(t) \/ Check(t) => DataRight' /\ UNCHANGED <<inodes, occupied, disk>>
           /\ Fill(t) => DataRight' /\ Sets(op[t].index, NewInode(op[t].path, Type(op[t].call)))
           /\ Wipe(t) => DataRight' /\ Sets(op[t].index, Blank)
           /\ Store(t) => /\ DataRight'
                          /\ Sets(op[t].index,
                                  [inodes[op[t].index] EXCEPT !.content = op[t].content])
           /\ Occupy(t) => DataRight' /\ occupied' = occupied \cup {op[t].index}
           /\ Free(t) => DataRight' /\ occupied' = occupied \ {op[t].index}
           /\ Fill(t) \/ Wipe(t) \/ Store(t) => UNCHANGED <<occupied, disk>>
           /\ Occupy(t) \/ Free(t) => UNCHANGED <<inodes, disk>>
<1>1. /\ op[t] \in Requests
      /\ op[t].call \in Makes \cup Removes \cup Changes => op[t].path \in Paths
      /\ op[t].at \in {"fill", "occupy", "wipe", "free", "store"} => op[t].index \in Slots \ {0}
  BY AtWork DEF HasSlot
<1>2. inodes \in [Slots -> Inodes] /\ occupied \in SUBSET Slots
  BY DEF DataRight
<1>3. Find(t) \/ Check(t) => DataRight' /\ UNCHANGED <<inodes, occupied, disk>>
  BY SameData DEF Find, Check, history
<1>4. ASSUME Fill(t)
      PROVE  DataRight' /\ Sets(op[t].index, NewInode(op[t].path, Type(op[t].call)))
  <2>1. op[t].call \in Creates /\ op[t].at = "fill"
    BY <1>4 DEF Fill, At
  <2>2. op[t].path \in Paths /\ op[t].index \in Slots \ {0}
    BY <1>1, <2>1 DEF Creates, Makes, Changes
  <2>3. NewInode(op[t].path, Type(op[t].call)) \in Inodes
    BY <2>2, NewInodeFacts DEF Type
  <2> QED BY <1>4, <2>2, <2>3, SetsFacts DEF Fill
<1>5. ASSUME Wipe(t)
      PROVE  DataRight' /\ Sets(op[t].index, Blank)
  <2>1. op[t].index \in Slots \ {0} /\ Blank \in Inodes
    BY <1>1, <1>5, FreshFacts DEF Wipe, At
  <2> QED BY <1>5, <2>1, SetsFacts DEF Wipe
<1>6. ASSUME Store(t)
      PROVE  DataRight' /\ Sets(op[t].index, [inodes[op[t].index] EXCEPT !.content = op[t].content])
  <2>1. op[t].index \in Slots \ {0} /\ op[t].content \in Contents
    BY <1>1, <1>6 DEF Store, At, Requests
  <2> DEFINE new == [inodes[op[t].index] EXCEPT !.content = op[t].content]
  <2>2. new \in Inodes
    BY <1>2, <2>1 DEF Inodes
  <2>3. inodes' = [inodes EXCEPT ![op[t].index] = new]
    BY <1>6 DEF Store
  <2>4. UNCHANGED <<occupied, disk>> /\ Touch(op[t].index)
    BY <1>6 DEF Store
  <2> HIDE DEF new
  <2>5. DataRight' /\ Sets(op[t].index, new)
    BY <2>1, <2>2, <2>3, <2>4, SetsFacts
  <2> QED BY <2>5 DEF new
<1>7. ASSUME Occupy(t)
      PROVE  DataRight' /\ occupied' = occupied \cup {op[t].index}
  <2>1. /\ op[t].index \in Slots \ {0} /\ occupied' = occupied \cup {op[t].index}
        /\ UNCHANGED <<inodes, disk>> /\ Touch(op[t].index)
    BY <1>1, <1>7 DEF Occupy, At
  <2> QED BY <1>2, <2>1, TouchFacts DEF DataRight, RootThere
<1>8. ASSUME Free(t)
      PROVE  DataRight' /\ occupied' = occupied \ {op[t].index}
  <2>1. /\ op[t].index \in Slots \ {0} /\ occupied' = occupied \ {op[t].index}
        /\ UNCHANGED <<inodes, disk>> /\ Touch(op[t].index)
    BY <1>1, <1>8 DEF Free, At
  <2> QED BY <1>2, <2>1, TouchFacts DEF DataRight, RootThere
<1>9. /\ Fill(t) \/ Wipe(t) \/ Store(t) => UNCHANGED <<occupied, disk>>
      /\ Occupy(t) \/ Free(t) => UNCHANGED <<inodes, disk>>
  BY DEF Fill, Wipe, Store, Occupy, Free
<1> QED
  BY <1>3, <1>4, <1>5, <1>6, <1>7, <1>8, <1>9

-----------------------------------------------------------------------------
(* The table: what the handlers that change it do to it, and to what the   *)
(* others rely on.                                                         *)

\* One handler at a time makes or removes an inode.
LEMMA OneMaker ==
    ASSUME OpsRight, ~raced, NEW t \in Threads, NEW u \in Threads, t # u,
           op[t].call \in Makes \cup Removes
    PROVE  op[u].call \notin Makes \cup Removes
<1> SUFFICES ASSUME op[u].call \in Makes \cup Removes PROVE FALSE
  OBVIOUS
<1>1. Front(op[t].path) = Front(op[u].path) /\ LocksOf(t) \cap LocksOf(u) = {}
  BY DEF OpsRight, Working
<1>2. Front(op[t].path) \in LocksOf(t) /\ Front(op[u].path) \in LocksOf(u)
  BY DEF LocksOf, Locks, Makes, Removes
<1> QED
  BY <1>1, <1>2

\* And what it removes is not what another one changes.
LEMMA OtherFile ==
    ASSUME OpsRight, ~raced, NEW t \in Threads, NEW u \in Threads,
           op[t].call \in Removes, op[u].call \in Changes
    PROVE  Last(op[t].path) # Last(op[u].path)
<1>1. op[t].path \in Paths /\ op[u].path \in Paths
  BY AtWork
<1>2. t # u
  BY DEF Removes, Changes
<1>3. Front(op[t].path) = Front(op[u].path) /\ LocksOf(t) \cap LocksOf(u) = {}
  BY <1>2 DEF OpsRight, Working
<1>4. op[t].path \in LocksOf(t) /\ op[u].path \in LocksOf(u)
  BY DEF LocksOf, Locks, Removes, Changes
<1>5. op[t].path # op[u].path
  BY <1>3, <1>4
<1> QED
  BY <1>1, <1>3, <1>5, SamePath

\* What the others rely on is the files they change.
LEMMA OthersRely ==
    ASSUME OpsRight, ~raced, NEW t \in Threads, op[t].call \in Makes \cup Removes,
           NEW u \in Threads \ {t}, Relies(inodes, occupied, op[u]), NEW n, NEW k,
           op[u].call \in Changes /\ IsFile(inodes, occupied, Last(op[u].path))
               => IsFile(n, k, Last(op[u].path))
    PROVE  Relies(n, k, op[u])
<1>1. op[u].call \notin Makes \cup Removes
  BY OneMaker
<1> QED
  BY <1>1 DEF Relies, ChangeRelies, Removes

\* The names in the table stay.
SameNames(m, n) == \A i \in Slots : /\ m[i].path = n[i].path /\ m[i].type = n[i].type
                                    /\ m[i].directory_path = n[i].directory_path

LEMMA SameNamesKeep ==
    ASSUME NEW m, NEW n, SameNames(m, n), NEW k, k \in SUBSET Slots
    PROVE  /\ Unique(n) => Unique(m)
           /\ \A d : IsDir(n, k, d) => IsDir(m, k, d)
           /\ \A d : IsFile(n, k, d) => IsFile(m, k, d)
           /\ Placed(n, k) => Placed(m, k)
           /\ \A i \in Slots : Marked(n, k, i) => Marked(m, k, i)
           /\ \A o \in Requests : Fine(o) /\ Relies(n, k, o) => Relies(m, k, o)
<1>1. Unique(n) => Unique(m)
  BY DEF Unique, SameNames
<1>2. \A d : (IsDir(n, k, d) => IsDir(m, k, d)) /\ (IsFile(n, k, d) => IsFile(m, k, d))
  BY DEF IsDir, IsFile, SameNames
<1>3. Placed(n, k) => Placed(m, k)
  BY <1>2 DEF Placed, SameNames
<1>4. \A i \in Slots : Marked(n, k, i) => Marked(m, k, i)
  BY DEF Marked, SameNames
<1>5. ASSUME NEW o \in Requests, Fine(o), Relies(n, k, o) PROVE Relies(m, k, o)
  <2>1. o.at \in {"fill", "occupy", "wipe", "free"} => o.index \in Slots
    BY <1>5, IdleFacts DEF Fine, MakesFine, RemovesFine, WriteFine, TruncateFine, HasSlot
  <2>2. o.call \in Makes => MakeRelies(m, k, o)
    BY <1>2, <1>5, <2>1 DEF Relies, MakeRelies, SameNames
  <2>3. o.call = "unlink" => UnlinkRelies(m, k, o)
    BY <1>5, <2>1 DEF Relies, UnlinkRelies, SameNames
  <2>4. o.call = "rmdir" => RmdirRelies(m, k, o)
    BY <1>5, <2>1 DEF Relies, RmdirRelies, SameNames, Childless
  <2>5. o.call \in Changes => ChangeRelies(m, k, o)
    BY <1>2, <1>5 DEF Relies, ChangeRelies
  <2> QED BY <2>2, <2>3, <2>4, <2>5 DEF Relies
<1> QED
  BY <1>1, <1>2, <1>3, <1>4, <1>5

\* A step that changes no name keeps the table, if what its own handler goes
\* on to rely on is there.
LEMMA NamesStay ==
    ASSUME OpsRight, DataRight, TableSound, NEW t \in Threads, NEW o, Goes(t, o),
           SameNames(inodes', inodes), UNCHANGED occupied, ~Halfway(op[t]),
           Relies(inodes, occupied, o) /\ Fine(o) /\ o \in Requests
    PROVE  TableSound'
<1>1. occupied \in SUBSET Slots
  BY DEF DataRight
<1>2. Unique(inodes') /\ Placed(inodes', occupied)
  BY <1>1, SameNamesKeep DEF TableSound
<1>3. ASSUME NEW i \in Slots PROVE InTransit(i)' \/ Marked(inodes', occupied, i)
  <2>1. InTransit(i) => InTransit(i)'
    BY DEF InTransit, Goes
  <2> QED BY <1>1, <2>1, SameNamesKeep DEF TableSound
<1>4. ASSUME NEW u \in Threads PROVE Relies(inodes', occupied, op'[u])
  <2>1. CASE u = t
    BY <1>1, <2>1, SameNamesKeep DEF Goes
  <2>2. CASE u # t
    <3>1. op'[u] = op[u] /\ op[u] \in Requests /\ Fine(op[u]) /\ Relies(inodes, occupied, op[u])
      BY <2>2 DEF Goes, OpsRight, TableSound
    <3> QED BY <1>1, <3>1, SameNamesKeep
  <2> QED BY <2>1, <2>2
<1> QED
  BY <1>2, <1>3, <1>4 DEF TableSound

LEMMA SameTable == \A n : SameNames(n, n)
BY DEF SameNames

LEMMA TransitFacts ==
    ASSUME OpsRight, ~raced, NEW t \in Threads, op[t].call \in Makes \cup Removes
    PROVE  /\ \A i : InTransit(i) <=> op[t].index = i /\ Halfway(op[t])
           /\ \A o, i : Goes(t, o) => (InTransit(i)' <=> o.index = i /\ Halfway(o))
<1>1. \A u \in Threads \ {t} : ~Halfway(op[u])
  BY OneMaker DEF Halfway, Makes, Removes
<1> QED
  BY <1>1 DEF InTransit, Goes

LEMMA IdleRelies == \A n, k : Relies(n, k, Idle)
BY IdleFacts DEF Relies, Makes, Changes

LEMMA FindSound ==
    ASSUME OpsRight, DataRight, ~raced, TableSound, NEW t \in Threads, Find(t)
    PROVE  TableSound'
<1> DEFINE p == op[t].path
           o == [op[t] EXCEPT !.index = NextFree(p), !.at = "fill"]
<1>1. /\ op[t] \in Requests /\ op[t].call \in Creates /\ op[t].at = "find"
      /\ UNCHANGED <<inodes, occupied>> /\ Relies(inodes, occupied, op[t])
  BY AtWork, TableSteps DEF Find, At, TableSound
<1>2. op[t].call \in Makes
  BY <1>1 DEF Creates, Makes, Relies, ChangeRelies, Changes
<1>3. mounted /\ ~torn /\ p \in Paths
  BY <1>2, AtWork
<1>4. ~Halfway(op[t]) /\ SameNames(inodes', inodes)
  BY <1>1, SameTable DEF Halfway
<1>5. CASE NextFree(p) = NoSlot
  <2>1. Goes(t, Idle)
    BY <1>5, GoesFacts DEF Find
  <2> QED BY <1>1, <1>4, <2>1, IdleFacts, IdleRelies, NamesStay
<1>6. CASE NextFree(p) # NoSlot
  <2>1. Goes(t, o)
    BY <1>6, GoesFacts DEF Find
  <2>2. NextFree(p) \in Slots \ {0} /\ NextFree(p) \notin occupied
    BY <1>3, <1>6, NextFreeFacts
  <2>3. inodes[NextFree(p)].path = NoName
    <3>1. ~InTransit(NextFree(p))
      BY <1>2, <1>4, TransitFacts
    <3> QED BY <2>2, <3>1 DEF TableSound, Marked
  <2>4. /\ o \in Requests /\ o.call = op[t].call /\ o.path = p /\ o.at = "fill"
        /\ o.index = NextFree(p)
    BY <1>1, <2>2 DEF Requests
  <2> HIDE DEF o
  <2>5. Fine(o)
    BY <1>2, <1>3, <2>2, <2>4 DEF Fine, MakesFine, HasSlot
  <2>6. Relies(inodes, occupied, o)
    <3>1. MakeRelies(inodes, occupied, o)
      BY <1>1, <1>2, <2>2, <2>3, <2>4 DEF Relies, MakeRelies
    <3> QED BY <1>2, <2>4, <3>1 DEF Relies, Makes, Changes
  <2> QED BY <1>1, <1>4, <2>1, <2>4, <2>5, <2>6, NamesStay
<1> QED
  BY <1>5, <1>6

LEMMA CheckSound ==
    ASSUME OpsRight, DataRight, ~raced, TableSound, NEW t \in Threads, Check(t)
    PROVE  TableSound'
<1> DEFINE p == op[t].path
           o == [op[t] EXCEPT !.index = Index(p), !.at = Writes[op[t].call]]
<1>1. /\ op[t] \in Requests /\ op[t].call \in Removes \cup Changes /\ op[t].at \in {"check", "again"}
      /\ UNCHANGED <<inodes, occupied>> /\ Relies(inodes, occupied, op[t])
  BY AtWork, TableSteps DEF Check, At, TableSound, Removes, Changes, Writes
<1>2. mounted /\ ~torn /\ p \in Paths
  BY <1>1, AtWork
<1>3. ~Halfway(op[t]) /\ SameNames(inodes', inodes)
  BY <1>1, SameTable DEF Halfway
<1>4. op[t].call \in Changes => IsFile(inodes, occupied, Last(p)) /\ Index(p) # NoSlot
  <2>1. op[t].call \in Changes => IsFile(inodes, occupied, Last(p))
    BY <1>1 DEF Relies, ChangeRelies
  <2> QED BY <1>2, <2>1, IndexFacts DEF IsFile
<1>5. \/ Accepts(op[t].call, p) /\ Found(t, Index(p), Writes[op[t].call])
      \/ Done(t)
  BY <1>4 DEF Check, At, Changes
<1>6. CASE Done(t)
  <2>1. Goes(t, Idle)
    BY <1>6, GoesFacts
  <2> QED BY <1>1, <1>3, <2>1, IdleFacts, IdleRelies, NamesStay
<1>7. CASE Accepts(op[t].call, p) /\ Found(t, Index(p), Writes[op[t].call])
  <2>1. Goes(t, o)
    BY <1>7, GoesFacts
  <2>2. /\ Index(p) \in Slots \ {0} /\ Index(p) \in occupied
        /\ inodes[Index(p)].path = Last(p)
        /\ inodes[Index(p)].type = IF op[t].call = "rmdir" THEN "DIRECTORY" ELSE "REGULAR"
    BY <1>2, <1>7, IndexFacts DEF Accepts
  <2>3. op[t].call = "rmdir" => Childless(inodes, Last(p))
    BY <1>7 DEF Accepts, FilesIn, Childless
  <2>4. Writes[op[t].call] = CASE op[t].call = "unlink" -> "wipe"
                               [] op[t].call = "rmdir" -> "free"
                               [] OTHER -> "store"
    BY <1>1 DEF Writes, Removes, Changes
  <2>5. o \in Requests
    BY <1>1, <2>2, <2>4 DEF Requests
  <2>6. o.call = op[t].call /\ o.path = p /\ o.at = Writes[o.call] /\ o.index = Index(p)
    BY <1>1, <2>5 DEF Requests
  <2> HIDE DEF o
  <2>7. Fine(o)
    BY <1>1, <1>2, <2>2, <2>4, <2>6
       DEF Fine, HasSlot, Removes, Changes, RemovesFine, WriteFine, TruncateFine
  <2>8. Relies(inodes, occupied, o)
    BY <1>1, <1>4, <2>2, <2>3, <2>4, <2>6
       DEF Relies, UnlinkRelies, RmdirRelies, ChangeRelies, Removes, Changes, Makes
  <2> QED BY <1>1, <1>3, <2>1, <2>5, <2>7, <2>8, NamesStay
<1> QED
  BY <1>5, <1>6, <1>7

LEMMA StoreSound ==
    ASSUME OpsRight, DataRight, TableSound, NEW t \in Threads, Store(t)
    PROVE  TableSound'
<1>1. op[t].call \in Changes /\ op[t].at = "store" /\ UNCHANGED occupied /\ Goes(t, Idle)
  BY GoesFacts DEF Store, At, Changes
<1>2. Sets(op[t].index, [inodes[op[t].index] EXCEPT !.content = op[t].content])
  BY TableSteps
<1>3. \A i \in Slots : inodes[i] \in Inodes
  BY DEF DataRight
<1>4. op[t].index \in Slots
  BY <1>1, AtWork DEF HasSlot
<1>5. SameNames(inodes', inodes)
  BY <1>2, <1>3, <1>4 DEF SameNames, Sets, Inodes
<1>6. ~Halfway(op[t])
  BY <1>1 DEF Halfway
<1> QED
  BY <1>1, <1>5, <1>6, IdleFacts, IdleRelies, NamesStay

LEMMA FillSound ==
    ASSUME OpsRight, DataRight, ~raced, TableSound, NEW t \in Threads, Fill(t)
    PROVE  TableSound'
<1> DEFINE p == op[t].path
           x == op[t].index
           o == [op[t] EXCEPT !.at = "occupy"]
           new == NewInode(p, Type(op[t].call))
<1>1. /\ op[t] \in Requests /\ op[t].call \in Creates /\ op[t].at = "fill"
      /\ UNCHANGED occupied /\ Relies(inodes, occupied, op[t]) /\ Goes(t, o) /\ Sets(x, new)
  BY AtWork, TableSteps, GoesFacts DEF Fill, At, TableSound
<1>2. op[t].call \in Makes
  BY <1>1 DEF Creates, Makes, Relies, ChangeRelies, Changes
<1>3. p \in Paths /\ x \in Slots \ {0}
  BY <1>1, <1>2, AtWork DEF HasSlot
<1>4. /\ \A i \in Slots : inodes[i].path # Last(p)
      /\ x \notin occupied /\ inodes[x].path = NoName
      /\ \A d \in Names : op[t].call = "create" /\ Front(p) = <<d>> => IsDir(inodes, occupied, d)
  BY <1>1, <1>2, <1>3 DEF Relies, MakeRelies
<1>5. /\ new.path = Last(p) /\ new.directory_path \in Paths \cup {ROOT_PATH}
      /\ new.directory_path # ROOT_PATH => op[t].call = "create" /\ new.directory_path = Front(p)
  <2>1. Type(op[t].call) \in {"REGULAR", "DIRECTORY"}
    BY DEF Type
  <2> QED BY <1>2, <1>3, <2>1, NewInodeFacts, PathFacts DEF Type, Makes
<1>6. Last(p) \in Names /\ Last(p) # NoName
  BY <1>3, PathFacts
<1>7. /\ o \in Requests /\ o.at = "occupy" /\ o.call = op[t].call /\ o.path = p /\ o.index = x
  BY <1>1 DEF Requests
<1> HIDE DEF o, new
<1>8. Unique(inodes')
  BY <1>1, <1>3, <1>4, <1>5 DEF Unique, Sets, TableSound
<1>9. \A d : IsDir(inodes, occupied, d) => IsDir(inodes', occupied', d)
  BY <1>1, <1>4 DEF IsDir, Sets, DataRight
<1>10. Placed(inodes', occupied')
  <2> SUFFICES ASSUME NEW i \in Slots \ {0}, inodes'[i].path # NoName
               PROVE  /\ inodes'[i].directory_path \in Paths \cup {ROOT_PATH}
                      /\ \A d \in Names : inodes'[i].directory_path = <<d>> =>
                                             IsDir(inodes', occupied', d)
    BY DEF Placed
  <2>1. CASE i = x
    <3>1. inodes'[i] = new
      BY <1>1, <2>1 DEF Sets
    <3>2. \A d : <<d>> # ROOT_PATH
      BY DEF ROOT_PATH
    <3> QED BY <1>4, <1>5, <1>9, <3>1, <3>2
  <2>2. CASE i # x
    <3>1. inodes'[i] = inodes[i]
      BY <1>1, <2>2 DEF Sets
    <3> QED BY <1>9, <3>1 DEF TableSound, Placed
  <2> QED BY <2>1, <2>2
<1>11. ASSUME NEW i \in Slots PROVE InTransit(i)' \/ Marked(inodes', occupied', i)
  <2>1. CASE i = x
    BY <1>1, <1>2, <1>7, <2>1, TransitFacts DEF Halfway
  <2>2. CASE i # x
    <3>1. inodes'[i] = inodes[i] /\ ~InTransit(i)
      BY <1>1, <1>2, <2>2, TransitFacts DEF Sets
    <3> QED BY <1>1, <3>1 DEF TableSound, Marked
  <2> QED BY <2>1, <2>2
<1>12. ASSUME NEW u \in Threads PROVE Relies(inodes', occupied', op'[u])
  <2>1. CASE u = t
    <3>1. op'[u] = o /\ inodes'[x].path = Last(p)
      BY <1>1, <1>5, <2>1 DEF Goes, Sets
    <3>2. MakeRelies(inodes', occupied', o)
      BY <1>1, <1>4, <1>7, <1>9, <3>1 DEF MakeRelies
    <3> QED BY <1>2, <1>7, <3>1, <3>2 DEF Relies, Makes, Changes
  <2>2. CASE u # t
    <3>1. \A d : IsFile(inodes, occupied, d) => IsFile(inodes', occupied', d)
      BY <1>1, <1>4 DEF IsFile, Sets, DataRight
    <3>2. Relies(inodes, occupied, op[u]) /\ op'[u] = op[u]
      BY <1>1, <2>2 DEF TableSound, Goes
    <3> QED BY <1>2, <2>2, <3>1, <3>2, OthersRely
  <2> QED BY <2>1, <2>2
<1> QED
  BY <1>8, <1>10, <1>11, <1>12, SMTT(30) DEF TableSound

LEMMA OccupySound ==
    ASSUME OpsRight, DataRight, ~raced, TableSound, NEW t \in Threads, Occupy(t)
    PROVE  TableSound'
<1> DEFINE x == op[t].index
<1>1. /\ op[t].call \in Creates /\ op[t].at = "occupy" /\ Relies(inodes, occupied, op[t])
      /\ UNCHANGED inodes /\ occupied' = occupied \cup {x}
  BY TableSteps DEF Occupy, At, TableSound
<1>2. op[t].call \in Makes
  BY <1>1 DEF Creates, Makes, Relies, ChangeRelies, Changes
<1>3. Goes(t, Idle)
  BY <1>2, GoesFacts DEF Occupy, Makes
<1>4. x \in Slots \ {0} /\ op[t].path \in Paths
  BY <1>1, <1>2, AtWork DEF HasSlot
<1>5. inodes[x].path = Last(op[t].path) /\ Last(op[t].path) # NoName
  BY <1>1, <1>2, <1>4, PathFacts DEF Relies, MakeRelies
<1>6. \A d : /\ IsDir(inodes, occupied, d) => IsDir(inodes', occupied', d)
             /\ IsFile(inodes, occupied, d) => IsFile(inodes', occupied', d)
  BY <1>1 DEF IsDir, IsFile
<1>7. Unique(inodes') /\ Placed(inodes', occupied')
  BY <1>1, <1>6 DEF TableSound, Placed
<1>8. ASSUME NEW i \in Slots PROVE Marked(inodes', occupied', i)
  <2>1. CASE i = x
    BY <1>1, <1>5, <2>1 DEF Marked
  <2>2. CASE i # x
    <3>1. ~InTransit(i)
      BY <1>2, <2>2, TransitFacts
    <3> QED BY <1>1, <2>2, <3>1 DEF TableSound, Marked
  <2> QED BY <2>1, <2>2
<1>9. ASSUME NEW u \in Threads PROVE Relies(inodes', occupied', op'[u])
  <2>1. CASE u = t
    BY <1>3, <2>1, IdleRelies DEF Goes
  <2>2. CASE u # t
    <3>1. Relies(inodes, occupied, op[u]) /\ op'[u] = op[u]
      BY <1>3, <2>2 DEF TableSound, Goes
    <3> QED BY <1>2, <1>6, <2>2, <3>1, OthersRely
  <2> QED BY <2>1, <2>2
<1> QED
  BY <1>7, <1>8, <1>9 DEF TableSound

LEMMA WipeSound ==
    ASSUME OpsRight, DataRight, ~raced, TableSound, NEW t \in Threads, Wipe(t)
    PROVE  TableSound'
<1> DEFINE x == op[t].index
           o == IF op[t].call = "unlink" THEN [op[t] EXCEPT !.at = "free"] ELSE Idle
<1>1. /\ op[t] \in Requests /\ op[t].call \in Removes /\ op[t].at = "wipe"
      /\ UNCHANGED occupied /\ Relies(inodes, occupied, op[t]) /\ Sets(x, Blank)
  BY AtWork, TableSteps DEF Wipe, At, TableSound, Removes
<1>2. Goes(t, o)
  BY GoesFacts DEF Wipe
<1>3. op[t].path \in Paths /\ x \in Slots \ {0}
  BY <1>1, AtWork DEF HasSlot
<1>4. /\ op[t].call = "unlink" => x \in occupied /\ inodes[x].type = "REGULAR"
      /\ op[t].call = "rmdir" => x \notin occupied
      /\ inodes[x].path = Last(op[t].path)
  BY <1>1 DEF Relies, UnlinkRelies, RmdirRelies, Removes
<1>5. Blank.path = NoName
  BY DEF Blank
<1>6. /\ op[t].call = "unlink" => /\ o.at = "free" /\ o.call = "unlink" /\ o.index = x
      /\ op[t].call = "rmdir" => o = Idle
  BY <1>1 DEF Requests
<1> HIDE DEF o
<1>7. Unique(inodes')
  BY <1>1, <1>3, <1>5 DEF Unique, Sets, TableSound
<1>8. \A d : IsDir(inodes, occupied, d) => IsDir(inodes', occupied', d)
  BY <1>1, <1>4 DEF IsDir, Sets, DataRight, Removes
<1>9. Placed(inodes', occupied')
  BY <1>1, <1>3, <1>5, <1>8 DEF TableSound, Placed, Sets
<1>10. ASSUME NEW i \in Slots PROVE InTransit(i)' \/ Marked(inodes', occupied', i)
  <2>1. CASE i = x
    <3>1. inodes'[i].path = NoName
      BY <1>1, <1>5, <2>1 DEF Sets
    <3>2. CASE op[t].call = "unlink"
      BY <1>1, <1>2, <1>6, <2>1, <3>2, TransitFacts DEF Halfway
    <3>3. CASE op[t].call = "rmdir"
      BY <1>1, <1>4, <2>1, <3>1, <3>3 DEF Marked
    <3> QED BY <1>1, <3>2, <3>3 DEF Removes
  <2>2. CASE i # x
    <3>1. inodes'[i] = inodes[i] /\ ~InTransit(i)
      BY <1>1, <2>2, TransitFacts DEF Sets
    <3> QED BY <1>1, <3>1 DEF TableSound, Marked
  <2> QED BY <2>1, <2>2
<1>11. ASSUME NEW u \in Threads PROVE Relies(inodes', occupied', op'[u])
  <2>1. CASE u = t
    <3>1. op'[u] = o
      BY <1>2, <2>1 DEF Goes
    <3>2. CASE op[t].call = "unlink"
      <4>1. inodes'[x].path = NoName
        BY <1>1, <1>5 DEF Sets
      <4> QED BY <1>1, <1>4, <1>6, <3>1, <3>2, <4>1 DEF Relies, UnlinkRelies, Makes, Changes
    <3>3. CASE op[t].call = "rmdir"
      BY <1>6, <3>1, <3>3, IdleRelies
    <3> QED BY <1>1, <3>2, <3>3 DEF Removes
  <2>2. CASE u # t
    <3>1. Relies(inodes, occupied, op[u]) /\ op'[u] = op[u]
      BY <1>2, <2>2 DEF TableSound, Goes
    <3>2. ASSUME op[u].call \in Changes, IsFile(inodes, occupied, Last(op[u].path))
          PROVE  IsFile(inodes', occupied', Last(op[u].path))
      <4>1. Last(op[t].path) # Last(op[u].path)
        BY <1>1, <3>2, OtherFile
      <4> QED BY <1>1, <1>4, <3>2, <4>1 DEF IsFile, Sets, DataRight
    <3> QED BY <1>1, <2>2, <3>1, <3>2, OthersRely
  <2> QED BY <2>1, <2>2
<1> QED
  BY <1>7, <1>9, <1>10, <1>11 DEF TableSound

LEMMA FreeSound ==
    ASSUME OpsRight, DataRight, ~raced, TableSound, NEW t \in Threads, Free(t)
    PROVE  TableSound'
<1> DEFINE x == op[t].index
           p == op[t].path
           o == IF op[t].call = "rmdir" THEN [op[t] EXCEPT !.at = "wipe"] ELSE Idle
<1>1. /\ op[t] \in Requests /\ op[t].call \in Removes /\ op[t].at = "free"
      /\ UNCHANGED inodes /\ Relies(inodes, occupied, op[t]) /\ occupied' = occupied \ {x}
  BY AtWork, TableSteps DEF Free, At, TableSound, Removes
<1>2. Goes(t, o)
  BY GoesFacts DEF Free
<1>3. p \in Paths /\ x \in Slots \ {0} /\ Last(p) # NoName
  BY <1>1, AtWork, PathFacts DEF HasSlot
<1>4. /\ op[t].call = "unlink" => inodes[x].path = NoName
      /\ op[t].call = "rmdir" => /\ inodes[x].path = Last(p) /\ Childless(inodes, Last(p))
                                 /\ inodes[x].type = "DIRECTORY"
  BY <1>1 DEF Relies, UnlinkRelies, RmdirRelies
<1>5. /\ op[t].call = "rmdir" => o.at = "wipe" /\ o.call = "rmdir" /\ o.index = x /\ o.path = p
      /\ op[t].call = "unlink" => o = Idle
  BY <1>1 DEF Requests
<1> HIDE DEF o
<1>6. Unique(inodes')
  BY <1>1 DEF TableSound
<1>7. \A d : IsDir(inodes, occupied, d) /\ inodes[x].path # d => IsDir(inodes', occupied', d)
  BY <1>1 DEF IsDir
<1>8. Placed(inodes', occupied')
  <2> SUFFICES ASSUME NEW i \in Slots \ {0}, inodes[i].path # NoName
               PROVE  /\ inodes[i].directory_path \in Paths \cup {ROOT_PATH}
                      /\ \A d \in Names : inodes[i].directory_path = <<d>> =>
                                             IsDir(inodes', occupied', d)
    BY <1>1 DEF Placed
  <2>1. inodes[i].directory_path \in Paths \cup {ROOT_PATH}
    BY DEF TableSound, Placed
  <2>2. ASSUME NEW d \in Names, inodes[i].directory_path = <<d>>
        PROVE  IsDir(inodes', occupied', d)
    <3>1. IsDir(inodes, occupied, d) /\ d # NoName
      BY <2>2, FisopfsAssumption DEF TableSound, Placed
    <3>2. inodes[x].path # d
      BY <1>1, <1>4, <2>2, <3>1 DEF Childless, Removes
    <3> QED BY <1>7, <3>1, <3>2
  <2> QED BY <2>1, <2>2
<1>9. ASSUME NEW i \in Slots PROVE InTransit(i)' \/ Marked(inodes', occupied', i)
  <2>1. CASE i = x /\ op[t].call = "unlink"
    BY <1>1, <1>4, <2>1 DEF Marked
  <2>2. CASE i = x /\ op[t].call = "rmdir"
    BY <1>1, <1>2, <1>5, <2>2, TransitFacts DEF Halfway
  <2>3. CASE i # x
    <3>1. ~InTransit(i)
      BY <1>1, <2>3, TransitFacts
    <3> QED BY <1>1, <2>3, <3>1 DEF TableSound, Marked
  <2> QED BY <1>1, <2>1, <2>2, <2>3 DEF Removes
<1>10. ASSUME NEW u \in Threads PROVE Relies(inodes', occupied', op'[u])
  <2>1. CASE u = t
    <3>1. op'[u] = o
      BY <1>2, <2>1 DEF Goes
    <3>2. CASE op[t].call = "rmdir"
      BY <1>1, <1>4, <1>5, <3>1, <3>2 DEF Relies, RmdirRelies, Makes, Changes
    <3>3. CASE op[t].call = "unlink"
      BY <1>5, <3>1, <3>3, IdleRelies
    <3> QED BY <1>1, <3>2, <3>3 DEF Removes
  <2>2. CASE u # t
    <3>1. Relies(inodes, occupied, op[u]) /\ op'[u] = op[u]
      BY <1>2, <2>2 DEF TableSound, Goes
    <3>2. ASSUME op[u].call \in Changes, IsFile(inodes, occupied, Last(op[u].path))
          PROVE  IsFile(inodes', occupied', Last(op[u].path))
      <4>1. Last(op[u].path) # NoName /\ Last(p) # Last(op[u].path)
        BY <1>1, <3>2, OtherFile, AtWork, PathFacts
      <4>2. inodes[x].path # Last(op[u].path)
        BY <1>1, <1>4, <4>1 DEF Removes
      <4> QED BY <1>1, <3>2, <4>2 DEF IsFile
    <3> QED BY <1>1, <2>2, <3>1, <3>2, OthersRely
  <2> QED BY <2>1, <2>2
<1> QED
  BY <1>6, <1>8, <1>9, <1>10 DEF TableSound

\* A request relies on what the kernel has just looked up.
LEMMA RequestSound ==
    ASSUME OpsRight, DataRight, TableSound, NEW t \in Threads, NEW call \in DOMAIN FirstStep,
           NEW p \in Paths \cup {ROOT_PATH}, NEW v \in Contents, Request(t, call, p, v),
           IF call = "flush" THEN p = ROOT_PATH ELSE p \in Paths, ~raced'
    PROVE  TableSound'
<1> DEFINE o == [call |-> call, path |-> p, content |-> v, at |-> FirstStep[call], index |-> NoSlot]
<1>1. /\ op[t] = Idle /\ UNCHANGED <<inodes, occupied>> /\ Resolves(p) /\ Looks(call, p)
      /\ \A u \in Threads : Locks(op[u].call, op[u].path) \cap Locks(call, p) = {}
      /\ op' = [op EXCEPT ![t] = o]
  BY DEF Request
<1>2. call \in Makes => \A u \in Threads : Working(u) => Front(op[u].path) = Front(p)
  BY IdleFacts DEF Request, Working, Makes, Removes, Changes, Stores
<1>3. Goes(t, o) /\ o \in Requests /\ Fine(o)
  <2>1. /\ op'[t] \in Requests /\ Fine(op'[t]) /\ \A u \in Threads \ {t} : op'[u] = op[u]
    BY RequestOps DEF OpsRight
  <2>2. op'[t] = o
    BY <1>1 DEF OpsRight
  <2> QED BY <1>1, <2>1, <2>2 DEF Goes
<1>4. o.call = call /\ o.path = p /\ o.at = FirstStep[call]
  OBVIOUS
<1> HIDE DEF o
<1>5. ~Halfway(op[t]) /\ SameNames(inodes', inodes)
  BY <1>1, IdleFacts, SameTable DEF Halfway
<1>6. ASSUME call \in Makes
      PROVE  MakeRelies(inodes, occupied, o)
  <2>1. p \in Paths /\ o.at = "find"
    BY <1>4, <1>6 DEF Makes, FirstStep
  <2>2. \A u \in Threads : ~Halfway(op[u])
    <3> SUFFICES ASSUME NEW u \in Threads, Halfway(op[u]) PROVE FALSE
      OBVIOUS
    <3>1. op[u].call \in Makes \cup Removes
      BY DEF Halfway, Makes, Removes
    <3>2. Front(op[u].path) \in Locks(op[u].call, op[u].path) /\ Front(p) \in Locks(call, p)
      BY <1>6, <3>1 DEF Locks, Makes, Removes
    <3>3. Front(op[u].path) = Front(p)
      BY <1>2, <1>6, <3>1 DEF Working
    <3> QED BY <1>1, <3>2, <3>3
  <2>3. \A i \in Slots : inodes[i].path # Last(p)
    <3>1. Index(p) = NoSlot
      BY <1>1, <1>6 DEF Looks, Makes
    <3>2. \A i \in occupied : inodes[i].path # Last(p)
      BY <2>1, <3>1, IndexFacts
    <3>3. \A i \in Slots : i \notin occupied => inodes[i].path = NoName
      BY <2>2 DEF TableSound, InTransit, Marked
    <3> QED BY <2>1, <3>2, <3>3, PathFacts
  <2>4. ASSUME NEW d \in Names, Front(p) = <<d>>
        PROVE  IsDir(inodes, occupied, d)
    <3>1. Front(p) \in Paths /\ Last(Front(p)) = d
      <4>1. Front(p) # ROOT_PATH
        BY <2>4 DEF ROOT_PATH
      <4>2. Last(<<d>>) = d
        BY DEF Last
      <4> QED BY <2>1, <2>4, <4>1, <4>2, PathFacts
    <3>2. Len(p) = 2
      <4>1. p \in Seq(Names) /\ Len(p) \in Nat \ {0}
        BY <2>1, PathFacts
      <4>2. PICK l \in Nat \ {0} : l = Len(p)
        BY <4>1
      <4>3. Len(SubSeq(p, 1, l - 1)) = l - 1
        BY <4>1, <4>2
      <4>4. Len(<<d>>) = 1 /\ SubSeq(p, 1, l - 1) = <<d>>
        BY <2>4, <4>2 DEF Front
      <4>5. Len(SubSeq(p, 1, l - 1)) = 1
        BY <4>4, Zenon
      <4>6. l - 1 = 1
        BY <4>3, <4>5, Zenon
      <4>7. l = 2
        BY <4>6
      <4> QED BY <4>2, <4>7, Zenon
    <3>3. IsType(Front(p), "DIRECTORY")
      <4>1. Front(p) = SubSeq(p, 1, 1) /\ 1 \in 1 .. Len(p) - 1
        BY <3>2 DEF Front
      <4> QED BY <1>1, <4>1 DEF Resolves
    <3> QED BY <3>1, <3>3, IndexFacts DEF IsType, IsDir
  <2> QED BY <1>4, <2>1, <2>3, <2>4 DEF MakeRelies
<1>7. ASSUME call \in Changes
      PROVE  ChangeRelies(inodes, occupied, o)
  <2>1. p \in Paths /\ o.at = "check" /\ IsType(p, "REGULAR")
    BY <1>1, <1>4, <1>7 DEF Changes, FirstStep, Looks
  <2> QED BY <1>4, <2>1, IndexFacts DEF ChangeRelies, IsFile, IsType
<1>8. call \in Removes => o.at = "check"
  BY <1>4 DEF Removes, FirstStep
<1>9. Relies(inodes, occupied, o)
  BY <1>4, <1>6, <1>7, <1>8 DEF Relies, UnlinkRelies, RmdirRelies, Removes
<1> QED
  BY <1>1, <1>3, <1>5, <1>9, NamesStay

\* A table that is right on its own, with no handler at work.
LEMMA WholeSound ==
    ASSUME WholeTable(inodes', occupied'), \A t \in Threads : op'[t] = Idle
    PROVE  TableSound'
BY IdleRelies DEF WholeTable, TableSound

LEMMA FreshWhole == WholeTable(Fresh, {0})
<1>1. \A i \in Slots \ {0} : Fresh[i].path = NoName
  BY FreshFacts DEF Blank
<1>2. Fresh[0].path # NoName
  BY FreshFacts
<1> QED
  BY <1>1, <1>2 DEF WholeTable, Unique, Placed, Marked

-----------------------------------------------------------------------------
(* The file.                                                               *)

\* Whose store has begun, and what may be half made, before and after a step
\* that is no part of a store.
SameStores == \A u \in Threads : /\ At(u, Stores, "inodes")' <=> At(u, Stores, "inodes")
                                 /\ At(u, Stores, "states")' <=> At(u, Stores, "states")

LEMMA StoringIs == StoringThreads = {u \in Threads : At(u, Stores, "inodes") \/ At(u, Stores, "states")}
BY DEF StoringThreads, At

LEMMA SameStoring ==
    ASSUME SameStores
    PROVE  StoringThreads' = StoringThreads /\ (Storing' <=> Storing)
<1>1. StoringThreads = {u \in Threads : At(u, Stores, "inodes") \/ At(u, Stores, "states")}
  BY StoringIs
<1>2. StoringThreads' = {u \in Threads : At(u, Stores, "inodes")' \/ At(u, Stores, "states")'}
  BY DEF StoringThreads, At
<1>3. StoringThreads' = StoringThreads
  BY <1>1, <1>2 DEF SameStores
<1> QED
  BY <1>3 DEF Storing

LEMMA GoesOutside ==
    ASSUME NEW t \in Threads, NEW o, Goes(t, o),
           op[t].call \notin Stores \/ op[t].at \notin {"inodes", "states"},
           o.call \notin Stores \/ o.at \notin {"inodes", "states"}
    PROVE  SameStores
BY DEF SameStores, Goes, At

\* A step that leaves table and file alone.
LEMMA QuietStep ==
    ASSUME DiskInv, SameStores, UNCHANGED <<inodes, occupied, disk, saving, torn>>,
           raced' \/ raced' = raced,
           \A u \in Threads : Halfway(op'[u]) => Halfway(op[u]) /\ op'[u].index = op[u].index
    PROVE  DiskInv'
<1> SUFFICES ASSUME ~torn' PROVE DiskInv'
  BY DEF DiskInv
<1>1. UNCHANGED <<changed, unsaved, mixed>> /\ ~torn
  BY DEF saving
<1>2. InodesWritten'
  BY <1>1 DEF DiskInv, InodesWritten, SameStores, OnDisk
<1>3. HalfwaySeen'
  BY <1>1, SameStoring DEF DiskInv, HalfwaySeen
<1>4. Opened' <=> Opened
  BY DEF Opened
<1>5. Stored => Stored'
  BY <1>1 DEF Stored, Opened, AsInTable, OnDisk
<1> QED
  BY <1>1, <1>2, <1>3, <1>4, <1>5, SameStoring DEF DiskInv

\* A step that changes slot x.
LEMMA TouchStep ==
    ASSUME DataRight, DiskInv, SameStores, NEW t \in Threads, NEW x \in Slots \ {0}, Touch(x),
           UNCHANGED disk,
           \A i \in Slots \ {x} : inodes'[i] = inodes[i] /\ (i \in occupied' <=> i \in occupied),
           \A u \in Threads \ {t} : op'[u] = op[u], Halfway(op'[t]) => op'[t].index = x
    PROVE  DiskInv'
<1> SUFFICES ASSUME ~torn' PROVE DiskInv'
  BY DEF DiskInv
<1>1. /\ ~torn /\ UNCHANGED <<mixed, raced>> /\ unsaved' = unsaved \cup {x}
      /\ \A u \in Threads : /\ changed[u] \subseteq changed'[u]
                            /\ u \in StoringThreads => x \in changed'[u]
  BY TouchFacts
<1>2. InodesWritten'
  <2> SUFFICES ASSUME \A u \in Threads : ~At(u, Stores, "inodes"), NEW u \in Threads,
                      At(u, Stores, "states"), NEW i \in Slots \ changed'[u]
               PROVE  OnDisk(i)'
    BY DEF InodesWritten, SameStores
  <2>1. u \in StoringThreads
    BY StoringIs
  <2>2. i # x /\ i \in Slots \ changed[u]
    BY <1>1, <2>1
  <2>3. OnDisk(i)
    BY <1>1, <2>2 DEF DiskInv, InodesWritten
  <2> QED BY <2>2, <2>3 DEF OnDisk
<1>3. HalfwaySeen'
  <2> SUFFICES ASSUME NEW s \in StoringThreads, NEW u \in Threads, Halfway(op'[u])
               PROVE  op'[u].index \in changed'[s]
    BY SameStoring DEF HalfwaySeen
  <2>1. s \in Threads
    BY DEF StoringThreads
  <2>2. CASE u = t
    BY <1>1, <2>1, <2>2
  <2>3. CASE u # t
    BY <1>1, <2>1, <2>3 DEF DiskInv, HalfwaySeen
  <2> QED BY <2>2, <2>3
<1>4. Opened' <=> Opened
  BY DEF Opened
<1>5. Stored => Stored'
  <2> SUFFICES ASSUME Stored, disk # NoFile PROVE Stored'
    BY DEF Stored, Opened
  <2>1. \A i \in Slots \ unsaved' : AsInTable(i)'
    BY <1>1 DEF Stored, Opened, AsInTable, OnDisk
  <2> QED BY <1>1, <2>1 DEF Stored, Opened
<1> QED
  BY <1>1, <1>2, <1>3, <1>4, <1>5, SameStoring DEF DiskInv

\* fopen() empties the file: what the table is from now on is not on it.
LEMMA OpenDiskRight ==
    ASSUME OpsRight, DataRight, DiskInv, NEW t \in Threads, OpenDisk(t)
    PROVE  DataRight' /\ DiskInv'
<1>1. /\ op[t].call \in Stores /\ op[t].at = "open" /\ Goes(t, [op[t] EXCEPT !.at = "inodes"])
      /\ disk' = [inodes |-> BlankInodes, occupied |-> {}, length |-> 0]
      /\ changed' = [changed EXCEPT ![t] = InHands]
      /\ UNCHANGED <<inodes, occupied, mounted, unsaved, mixed, raced, torn>>
  BY GoesFacts DEF OpenDisk, At
<1>2. /\ op'[t].call = op[t].call /\ op'[t].at = "inodes" /\ \A u \in Threads \ {t} : op'[u] = op[u]
      /\ \A u \in Threads : op[u] \in Requests
  BY <1>1, AtWork DEF Goes, Requests
<1>3. disk' \in Disks /\ disk' # NoFile
  <2>1. disk' \in Disks
    BY <1>1, FreshFacts DEF Disks
  <2> QED BY <2>1, NoFileAssumption
<1>4. InHands \in SUBSET (Slots \ {0})
  <2>1. \A u \in Threads : op[u].index \in (Slots \ {0}) \cup {NoSlot}
    BY <1>2 DEF Requests
  <2> QED BY <2>1 DEF InHands
<1>5. /\ changed' \in [Threads -> SUBSET (Slots \ {0})] /\ changed'[t] = InHands
      /\ \A u \in Threads \ {t} : changed'[u] = changed[u]
  BY <1>1, <1>4 DEF DataRight
<1>6. DataRight'
  BY <1>1, <1>3, <1>5 DEF DataRight, RootThere
<1>7. At(t, Stores, "inodes")'
  BY <1>1, <1>2 DEF At
<1>8. Storing'
  BY <1>7 DEF Storing, StoringThreads, At
<1>9. ~torn => HalfwaySeen'
  <2> SUFFICES ASSUME ~torn, NEW s \in StoringThreads', NEW u \in Threads, Halfway(op'[u])
               PROVE  op'[u].index \in changed'[s]
    BY DEF HalfwaySeen
  <2>1. u # t /\ op'[u] = op[u]
    BY <1>1, <1>2 DEF Halfway, Stores, Makes
  <2>2. op[u].index \in Slots
    BY <2>1, AtWork DEF Halfway, HasSlot
  <2>3. op[u].index \in InHands
    BY <2>2, FreshFacts DEF InHands
  <2>4. CASE s = t
    BY <1>5, <2>1, <2>3, <2>4
  <2>5. CASE s # t
    <3>1. s \in StoringThreads /\ s \in Threads
      BY <1>2, <2>5 DEF StoringThreads
    <3> QED BY <1>5, <2>1, <2>5, <3>1 DEF DiskInv, HalfwaySeen
  <2> QED BY <2>4, <2>5
<1>10. InodesWritten'
  BY <1>7 DEF InodesWritten
<1> QED
  BY <1>1, <1>3, <1>6, <1>8, <1>9, <1>10 DEF DiskInv, Opened

LEMMA MaxIn ==
    ASSUME NEW l \in 0 .. 2
    PROVE  Max({l, 1}) \in 0 .. 2
<1>1. CASE l = 0 \/ l = 1
  <2>1. \E x \in {l, 1} : \A y \in {l, 1} : x >= y
    BY <1>1
  <2>2. \A x \in {l, 1} : (\A y \in {l, 1} : x >= y) => x = 1
    BY <1>1
  <2> QED BY <2>1, <2>2 DEF Max
<1>2. CASE l = 2
  <2>1. \E x \in {l, 1} : \A y \in {l, 1} : x >= y
    BY <1>2
  <2>2. \A x \in {l, 1} : (\A y \in {l, 1} : x >= y) => x = 2
    BY <1>2
  <2> QED BY <2>1, <2>2 DEF Max
<1> QED
  BY <1>1, <1>2

\* A store that is under way has a file.
LEMMA StoreHasFile ==
    ASSUME OpsRight, DataRight, DiskInv, NEW t \in Threads,
           op[t].call \in Stores, op[t].at \in {"inodes", "states"}
    PROVE  /\ Storing /\ t \in StoringThreads /\ Busy(t) /\ mounted /\ ~torn
           /\ disk # NoFile /\ disk \in Disks
<1>1. t \in StoringThreads /\ Storing
  BY DEF Storing, StoringThreads
<1>2. Busy(t) /\ mounted /\ ~torn
  BY AtWork
<1>3. disk # NoFile
  BY <1>1, <1>2 DEF DiskInv, Opened
<1> QED
  BY <1>1, <1>2, <1>3 DEF DataRight

LEMMA WriteInodesRight ==
    ASSUME OpsRight, DataRight, DiskInv, NEW t \in Threads, WriteInodes(t)
    PROVE  DataRight' /\ DiskInv'
<1>1. /\ op[t].call \in Stores /\ op[t].at = "inodes" /\ Goes(t, [op[t] EXCEPT !.at = "states"])
      /\ disk' = [disk EXCEPT !.inodes = inodes, !.length = Max({@, 1})]
      /\ UNCHANGED <<inodes, occupied, mounted, saving, raced, torn>>
  BY GoesFacts DEF WriteInodes, At, history
<1>2. /\ op'[t].call = op[t].call /\ op'[t].at = "states" /\ op'[t].index = op[t].index
      /\ \A u \in Threads \ {t} : op'[u] = op[u]
  BY <1>1, AtWork DEF Goes, Requests
<1>3. ~torn /\ disk \in Disks /\ UNCHANGED <<changed, unsaved, mixed>>
  BY <1>1, StoreHasFile DEF saving
<1>4. Max({disk.length, 1}) \in 0 .. 2
  BY <1>3, MaxIn DEF Disks
<1>5. /\ disk' = [inodes |-> inodes, occupied |-> disk.occupied, length |-> Max({disk.length, 1})]
      /\ disk.occupied \in SUBSET Slots /\ inodes \in [Slots -> Inodes]
  BY <1>1, <1>3 DEF Disks, DataRight
<1>6. disk' \in Disks /\ disk' # NoFile /\ disk'.inodes = inodes
  <2>1. disk' \in Disks
    BY <1>4, <1>5 DEF Disks
  <2> QED BY <1>5, <2>1, NoFileAssumption
<1>7. DataRight'
  BY <1>1, <1>3, <1>6 DEF DataRight, RootThere
<1>8. StoringThreads' = StoringThreads
  BY <1>1, <1>2 DEF StoringThreads
<1>9. Storing'
  BY <1>1, <1>8, StoreHasFile DEF Storing
<1>10. InodesWritten'
  BY <1>1, <1>6 DEF InodesWritten, OnDisk
<1>11. HalfwaySeen'
  <2>1. \A u \in Threads : Halfway(op'[u]) => Halfway(op[u]) /\ op'[u].index = op[u].index
    BY <1>1, <1>2 DEF Halfway, Stores, Makes
  <2> QED BY <1>3, <1>8, <2>1 DEF DiskInv, HalfwaySeen
<1> QED
  BY <1>6, <1>7, <1>9, <1>10, <1>11 DEF DiskInv, Opened

\* With nothing half made, a table that handlers keep is right on its own.
LEMMA NothingHalfway ==
    ASSUME DataRight, ~torn, TableSound, \A u \in Threads : ~Halfway(op[u])
    PROVE  WholeTable(inodes, occupied)
BY DEF WholeTable, TableSound, InTransit, DataRight, RootThere

LEMMA WriteStatesRight ==
    ASSUME FileInv, NEW t \in Threads, WriteStates(t)
    PROVE  FileInv'
<1> USE DEF FileInv
<1>1. /\ op[t].call \in Stores /\ op[t].at = "states" /\ Goes(t, Idle)
      /\ disk' = [disk EXCEPT !.occupied = occupied, !.length = 2]
      /\ mounted' = (op[t].call = "flush")
      /\ unsaved' = changed[t] /\ mixed' = (changed[t] # {})
      /\ changed' = [changed EXCEPT ![t] = {}]
      /\ UNCHANGED <<inodes, occupied, raced, torn>>
  BY GoesFacts DEF WriteStates, Ended, At
<1>2. /\ Storing /\ t \in StoringThreads /\ Busy(t) /\ mounted /\ ~torn /\ ~torn' /\ disk \in Disks
  BY <1>1, StoreHasFile
<1>3. op'[t] = Idle /\ \A u \in Threads \ {t} : op'[u] = op[u]
  BY <1>1 DEF Goes
<1>4. OpsRight'
  <2>1. mounted' \in BOOLEAN
    BY <1>1
  <2>2. \A u \in Threads : Busy(u)' => mounted'
    <3> SUFFICES ASSUME NEW u \in Threads, op'[u] # Idle PROVE op[t].call = "flush"
      BY <1>1 DEF Busy
    <3>1. u # t /\ op[u] # Idle
      BY <1>3
    <3>2. op[t].call # "destroy"
      BY <3>1 DEF OpsRight
    <3> QED BY <1>1, <3>2 DEF Stores
  <2>3. op' = [op EXCEPT ![t] = Idle]
    BY <1>1 DEF Goes
  <2> QED BY <1>1, <1>2, <2>1, <2>2, <2>3, IdleFacts, HandlerOps
<1>5. /\ disk' = [inodes |-> disk.inodes, occupied |-> occupied, length |-> 2]
      /\ disk.inodes \in [Slots -> Inodes] /\ occupied \in SUBSET Slots
  BY <1>1, <1>2 DEF Disks, DataRight
<1>6. disk' \in Disks /\ disk' # NoFile
  <2>1. disk' \in Disks
    BY <1>5 DEF Disks
  <2> QED BY <2>1, NoFileAssumption
<1>7. /\ changed[t] \in SUBSET (Slots \ {0})
      /\ changed' \in [Threads -> SUBSET (Slots \ {0})]
      /\ \A u \in Threads \ {t} : changed'[u] = changed[u]
  BY <1>1 DEF DataRight
<1>8. DataRight'
  <2>1. unsaved' \in SUBSET (Slots \ {0}) /\ mixed' \in BOOLEAN
    BY <1>1, <1>7
  <2> QED BY <1>1, <1>6, <1>7, <2>1 DEF DataRight, RootThere
<1>9. TableInv'
  <2> SUFFICES ASSUME mounted', ~raced', ~torn' PROVE TableSound'
    BY DEF TableInv
  <2>1. TableSound /\ ~Halfway(op[t])
    BY <1>1, <1>2 DEF TableInv, Halfway, Stores, Makes
  <2>2. SameNames(inodes', inodes)
    BY <1>1, SameTable
  <2> QED BY <1>1, <2>1, <2>2, IdleFacts, IdleRelies, NamesStay
<1>10. StoringThreads' = StoringThreads \ {t}
  BY <1>3, IdleFacts DEF StoringThreads, Stores
<1>11. InodesWritten'
  <2> SUFFICES ASSUME \A u \in Threads : ~At(u, Stores, "inodes")', NEW u \in Threads,
                      At(u, Stores, "states")', NEW i \in Slots \ changed'[u]
               PROVE  OnDisk(i)'
    BY DEF InodesWritten
  <2>1. u # t
    BY <1>3, IdleFacts DEF At, Stores
  <2>2. At(u, Stores, "states") /\ i \in Slots \ changed[u]
    BY <1>3, <1>7, <2>1 DEF At
  <2>3. \A v \in Threads : ~At(v, Stores, "inodes")
    BY <1>1, <1>3 DEF At
  <2>4. OnDisk(i)
    BY <1>2, <2>2, <2>3 DEF DiskInv, InodesWritten
  <2> QED BY <1>1, <1>5, <2>4 DEF OnDisk
<1>12. HalfwaySeen'
  <2> SUFFICES ASSUME NEW s \in StoringThreads \ {t}, NEW u \in Threads, Halfway(op'[u])
               PROVE  op'[u].index \in changed'[s]
    BY <1>10 DEF HalfwaySeen
  <2>1. u # t
    BY <1>3, IdleFacts DEF Halfway, Makes
  <2>2. s \in Threads
    BY DEF StoringThreads
  <2> QED BY <1>2, <1>3, <1>7, <2>1, <2>2 DEF DiskInv, HalfwaySeen
<1>13. ASSUME ~Storing'
       PROVE  Stored'
  <2>1. \A u \in Threads : ~At(u, Stores, "inodes")
    <3> SUFFICES ASSUME NEW u \in Threads, At(u, Stores, "inodes") PROVE FALSE
      OBVIOUS
    <3>1. u \in StoringThreads /\ u # t
      BY <1>1, StoringIs DEF At
    <3> QED BY <1>10, <1>13, <3>1 DEF Storing
  <2>2. \A i \in Slots \ changed[t] : OnDisk(i)
    BY <1>1, <1>2, <2>1 DEF DiskInv, InodesWritten, At
  <2>3. \A i \in Slots \ unsaved' : AsInTable(i)'
    BY <1>1, <1>5, <2>2 DEF AsInTable, OnDisk
  <2>4. ASSUME ~raced', ~mixed' PROVE WholeTable(disk'.inodes, disk'.occupied)
    <3>1. changed[t] = {} /\ ~raced
      BY <1>1, <2>4
    <3>2. \A u \in Threads : ~Halfway(op[u])
      BY <1>2, <3>1 DEF DiskInv, HalfwaySeen
    <3>3. WholeTable(inodes, occupied)
      BY <1>2, <3>1, <3>2, NothingHalfway DEF TableInv
    <3>4. disk.inodes = inodes
      BY <1>5, <2>2, <3>1 DEF OnDisk, DataRight
    <3> QED BY <1>5, <3>3, <3>4
  <2> QED BY <1>5, <2>3, <2>4 DEF Stored
<1>14. DiskInv'
  BY <1>6, <1>11, <1>12, <1>13 DEF DiskInv, Opened
<1> QED
  BY <1>4, <1>8, <1>9, <1>14

-----------------------------------------------------------------------------
(* The invariant holds of every state.                                     *)

\* What a handler does to the file: nothing, but it may change a slot that is
\* in its hands.
LEMMA HandlerDisk ==
    ASSUME FileInv, NEW t \in Threads, Steps(t), ~OpenDisk(t), ~WriteInodes(t),
           NEW o \in Requests, Goes(t, o), o = Idle \/ o.call = op[t].call
    PROVE  DiskInv'
<1> USE DEF FileInv
<1>1. op[t].call \in Makes \cup Removes \cup Changes
  BY DEF Steps, At, Find, Fill, Occupy, Check, Wipe, Free, Store, Creates, Writes,
         Makes, Removes, Changes
<1>2. SameStores
  <2>1. op[t].call \notin Stores /\ o.call \notin Stores
    BY <1>1, IdleFacts DEF Makes, Removes, Changes, Stores
  <2> QED BY <2>1, GoesOutside
<1>3. \A u \in Threads \ {t} : op'[u] = op[u]
  BY DEF Goes
<1>4. CASE Find(t) \/ Check(t)
  <2>1. ~Halfway(op'[t])
    <3>1. op[t] \in Requests
      BY AtWork
    <3>2. ASSUME NEW i, NEW a \in {"fill", "wipe", "store", "find"}, Found(t, i, a) \/ Goto(t, a),
                 a = "wipe" => op[t].call = "unlink"
          PROVE  ~Halfway(op'[t])
      <4>1. \/ op'[t] = [op[t] EXCEPT !.index = i, !.at = a]
            \/ op'[t] = [op[t] EXCEPT !.at = a]
        <5>1. Found(t, i, a) => Goes(t, [op[t] EXCEPT !.index = i, !.at = a])
          BY GoesFacts, Zenon
        <5>2. Goto(t, a) => Goes(t, [op[t] EXCEPT !.at = a])
          BY GoesFacts, Zenon
        <5> QED BY <3>2, <5>1, <5>2, Zenon DEF Goes
      <4>2. op'[t].at = a /\ op'[t].call = op[t].call
        BY <3>1, <4>1 DEF Requests
      <4> QED BY <3>2, <4>2 DEF Halfway
    <3>3. ASSUME NEW i, Found(t, i, "free"), op[t].call = "rmdir"
          PROVE  ~Halfway(op'[t])
      <4>1. op'[t] = [op[t] EXCEPT !.index = i, !.at = "free"]
        <5>1. Goes(t, [op[t] EXCEPT !.index = i, !.at = "free"])
          BY <3>3, GoesFacts, Zenon
        <5> QED BY <5>1, Zenon DEF Goes
      <4>2. op'[t].at = "free" /\ op'[t].call = "rmdir"
        BY <3>1, <3>3, <4>1 DEF Requests
      <4> QED BY <4>2 DEF Halfway, Makes
    <3>4. Done(t) => ~Halfway(op'[t])
      BY GoesFacts, IdleFacts DEF Goes, Halfway, Makes
    <3>5. CASE Find(t)
      BY <3>2, <3>4, <3>5 DEF Find
    <3>6. CASE Check(t)
      BY <3>2, <3>3, <3>4, <3>6 DEF Check, Writes, At
    <3> QED BY <1>4, <3>5, <3>6
  <2>2. \A u \in Threads : Halfway(op'[u]) => Halfway(op[u]) /\ op'[u].index = op[u].index
    BY <1>3, <2>1
  <2>3. UNCHANGED <<inodes, occupied, disk, saving, raced, torn>>
    BY <1>4 DEF Find, Check, history
  <2> QED BY <1>2, <2>2, <2>3, QuietStep
<1>5. CASE Fill(t) \/ Occupy(t) \/ Wipe(t) \/ Free(t) \/ Store(t)
  <2> DEFINE x == op[t].index
  <2>1. x \in Slots \ {0} /\ Touch(x)
    <3>1. op[t].at \in {"fill", "occupy", "wipe", "free", "store"} /\ Touch(x)
      BY <1>5 DEF Fill, Occupy, Wipe, Free, Store, At
    <3> QED BY <3>1, AtWork DEF HasSlot
  <2>2. /\ UNCHANGED disk
        /\ \A i \in Slots \ {x} : inodes'[i] = inodes[i] /\ (i \in occupied' <=> i \in occupied)
    BY <1>5, TableSteps DEF Sets
  <2>3. Halfway(op'[t]) => op'[t].index = x
    <3>1. op'[t] = Idle \/ \E a : op'[t] = [op[t] EXCEPT !.at = a]
      BY <1>5, GoesFacts DEF Fill, Occupy, Wipe, Free, Store, Goes
    <3>2. op[t] \in Requests
      BY AtWork
    <3> QED BY <3>1, <3>2, IdleFacts DEF Halfway, Requests, Makes
  <2> HIDE DEF x
  <2> QED BY <1>2, <1>3, <2>1, <2>2, <2>3, TouchStep
<1> QED
  BY <1>4, <1>5 DEF Steps

LEMMA HandlerKeeps ==
    ASSUME FileInv, NEW t \in Threads, Handler(t)
    PROVE  FileInv'
<1> USE DEF FileInv
<1>1. CASE WriteStates(t)
  BY <1>1, WriteStatesRight
<1>2. CASE Steps(t)
  <2>1. Busy(t) /\ UNCHANGED <<mounted, raced, torn>>
    BY <1>2, StepGoes
  <2>2. PICK o \in Requests : /\ Goes(t, o) /\ Fine(o)
                              /\ o = Idle \/ (o.call = op[t].call /\ o.path = op[t].path)
    BY <1>2, StepGoes
  <2>3. OpsRight'
    BY <2>1, <2>2, Onward
  <2>4. DataRight'
    BY <1>2, TableSteps, OpenDiskRight, WriteInodesRight DEF Steps
  <2>5. ASSUME mounted', ~raced', ~torn'
        PROVE  TableSound'
    <3>1. ~raced /\ TableSound
      BY <2>1, <2>5 DEF TableInv
    <3>2. ASSUME OpenDisk(t) \/ WriteInodes(t) PROVE TableSound'
      <4>1. op[t].call \in Stores /\ UNCHANGED <<inodes, occupied>>
        BY <3>2 DEF OpenDisk, WriteInodes, At
      <4>2. ~Halfway(op[t]) /\ SameNames(inodes', inodes)
        BY <4>1, SameTable DEF Halfway, Stores, Makes
      <4>3. o.call \notin Makes \cup Removes \cup Changes
        BY <2>2, <4>1, IdleFacts DEF Stores, Makes, Removes, Changes
      <4>4. Relies(inodes, occupied, o)
        BY <4>3 DEF Relies, Removes
      <4> QED BY <2>2, <3>1, <4>1, <4>2, <4>4, NamesStay
    <3> QED
      BY <1>2, <3>1, <3>2, FindSound, FillSound, OccupySound, CheckSound, WipeSound, FreeSound,
         StoreSound DEF Steps
  <2>6. DiskInv'
    BY <1>2, <2>2, HandlerDisk, OpenDiskRight, WriteInodesRight
  <2> QED BY <2>3, <2>4, <2>5, <2>6 DEF TableInv
<1> QED
  BY <1>1, <1>2 DEF Handler, Steps

LEMMA RequestKeeps ==
    ASSUME FileInv, NEW t \in Threads, KernelRequest(t)
    PROVE  FileInv'
<1> USE DEF FileInv
<1>1. PICK call \in DOMAIN FirstStep, p \in Paths \cup {ROOT_PATH}, v \in Contents :
         /\ Request(t, call, p, v)
         /\ IF call = "flush" THEN p = ROOT_PATH ELSE p \in Paths
  <2>1. Zero \in Contents /\ "write" \in DOMAIN FirstStep /\ "flush" \in DOMAIN FirstStep
    BY FisopfsAssumption DEF FirstStep
  <2>2. CASE \E call \in DOMAIN FirstStep \ {"write", "flush"}, p \in Paths : Request(t, call, p, Zero)
    BY <2>1, <2>2
  <2>3. CASE \E p \in Paths, v \in Contents : Request(t, "write", p, v)
    BY <2>1, <2>3
  <2>4. CASE Request(t, "flush", ROOT_PATH, Zero)
    BY <2>1, <2>4
  <2> QED BY <2>2, <2>3, <2>4 DEF KernelRequest
<1>2. /\ OpsRight' /\ op'[t].call = call /\ op'[t].at = FirstStep[call]
      /\ \A u \in Threads \ {t} : op'[u] = op[u]
  BY <1>1, RequestOps
<1>3. /\ mounted /\ ~torn /\ op[t] = Idle
      /\ UNCHANGED <<inodes, occupied, disk, mounted, saving, torn>>
      /\ raced' = (raced \/ \E u \in Threads : /\ op[u] # Idle /\ Front(op[u].path) # Front(p)
                                              /\ {op[u].call, call} \cap Stores = {})
  BY <1>1 DEF Request
<1>4. DataRight'
  BY <1>3, SameData
<1>5. TableInv'
  <2> SUFFICES ASSUME mounted', ~raced', ~torn' PROVE TableSound'
    BY DEF TableInv
  <2>1. TableSound
    BY <1>3 DEF TableInv
  <2> QED BY <1>1, <2>1, RequestSound
<1>6. DiskInv'
  <2>1. FirstStep[call] \in {"find", "check", "open"}
    BY DEF FirstStep
  <2>2. op[t].at = "idle"
    BY <1>3, IdleFacts
  <2>3. SameStores
    BY <1>2, <2>1, <2>2 DEF SameStores, At
  <2>4. \A u \in Threads : Halfway(op'[u]) => Halfway(op[u]) /\ op'[u].index = op[u].index
    BY <1>2, <2>1 DEF Halfway
  <2>5. raced' \/ raced' = raced
    BY <1>3 DEF OpsRight
  <2> QED BY <1>3, <2>3, <2>4, <2>5, QuietStep
<1> QED
  BY <1>2, <1>4, <1>5, <1>6

\* When no handler is at work, before a step and after it but for one.
LEMMA UnmountKeeps ==
    ASSUME FileInv, NEW t \in Threads, Unmount(t)
    PROVE  FileInv'
<1> USE DEF FileInv
<1> DEFINE o == [Idle EXCEPT !.call = "destroy", !.at = "open"]
<1>1. /\ mounted /\ ~torn /\ \A u \in Threads : op[u] = Idle
      /\ UNCHANGED <<inodes, occupied, disk, mounted, saving, raced, torn>>
  BY DEF Unmount, history
<1>2. op \in [Threads -> Requests]
  BY DEF OpsRight
<1>3. Goes(t, o) /\ op' \in [Threads -> Requests]
  <2>1. op' = [op EXCEPT ![t] = [op[t] EXCEPT !.call = "destroy", !.at = "open"]]
    BY DEF Unmount
  <2>2. op' = [op EXCEPT ![t] = o]
    BY <1>1, <2>1
  <2>3. o \in Requests
    BY IdleFacts DEF Requests, Stores
  <2> HIDE DEF o
  <2> QED BY <1>2, <2>2, <2>3 DEF Goes
<1>4. /\ o \in Requests /\ o.call = "destroy" /\ o.at = "open" /\ o.path = ROOT_PATH
      /\ Fine(o) /\ Locks(o.call, o.path) = {}
  BY IdleFacts DEF Requests, Stores, Fine, Locks
<1> HIDE DEF o
<1>5. op'[t] = o /\ \A u \in Threads \ {t} : op'[u] = Idle
  BY <1>1, <1>3 DEF Goes
<1>6. OpsRight'
  <2>1. \A u \in Threads : Fine(op'[u]) /\ LocksOf(u)' = {} /\ ~Working(u)'
    BY <1>4, <1>5, IdleFacts DEF LocksOf, Working, Makes, Removes, Changes
  <2>2. \A u \in Threads : op'[u].call = "destroy" => \A v \in Threads \ {u} : op'[v] = Idle
    BY <1>4, <1>5, IdleFacts
  <2>3. /\ mounted' /\ ~torn'
        /\ mounted' \in BOOLEAN /\ raced' \in BOOLEAN /\ torn' \in BOOLEAN
    BY <1>1 DEF OpsRight
  <2> QED BY <1>3, <2>1, <2>2, <2>3 DEF OpsRight
<1>7. DataRight'
  BY <1>1, SameData
<1>8. TableInv'
  <2> SUFFICES ASSUME mounted', ~raced', ~torn' PROVE TableSound'
    BY DEF TableInv
  <2>1. TableSound /\ ~Halfway(op[t])
    BY <1>1, IdleFacts DEF TableInv, Halfway
  <2>2. Relies(inodes, occupied, o)
    BY <1>4 DEF Relies, Makes, Changes
  <2>3. SameNames(inodes', inodes)
    BY <1>1, SameTable
  <2> QED BY <1>1, <1>3, <1>4, <2>1, <2>2, <2>3, NamesStay
<1>9. DiskInv'
  <2>1. SameStores
    BY <1>1, <1>3, <1>4, IdleFacts, GoesOutside
  <2>2. \A u \in Threads : ~Halfway(op'[u])
    BY <1>4, <1>5, IdleFacts DEF Halfway, Makes
  <2> QED BY <1>1, <2>1, <2>2, QuietStep
<1> QED
  BY <1>6, <1>7, <1>8, <1>9

\* No handler is at work afterwards.
LEMMA AllIdle ==
    ASSUME op' = [t \in Threads |-> Idle], raced' \in BOOLEAN, torn' \in BOOLEAN,
           mounted' \in BOOLEAN
    PROVE  OpsRight' /\ ~Storing' /\ InodesWritten' /\ HalfwaySeen' /\ \A t \in Threads : op'[t] = Idle
<1>1. op' \in [Threads -> Requests] /\ \A t \in Threads : op'[t] = Idle
  BY IdleFacts
<1>2. \A t \in Threads : /\ Fine(op'[t]) /\ LocksOf(t)' = {} /\ op'[t].call \notin Stores
                         /\ ~Busy(t)' /\ ~Working(t)'
  BY <1>1, IdleFacts DEF LocksOf, Stores, Busy, Working, Makes, Removes, Changes
<1>3. OpsRight'
  BY <1>1, <1>2 DEF OpsRight
<1>4. ~Storing' /\ StoringThreads' = {}
  BY <1>2 DEF Storing, StoringThreads
<1>5. HalfwaySeen'
  BY <1>4 DEF HalfwaySeen
<1>6. InodesWritten'
  BY <1>2 DEF InodesWritten, At
<1> QED
  BY <1>1, <1>3, <1>4, <1>5, <1>6

LEMMA KillKeeps ==
    ASSUME FileInv, Kill
    PROVE  FileInv'
<1> USE DEF FileInv
<1>1. /\ ~mounted' /\ mounted' \in BOOLEAN /\ op' = [t \in Threads |-> Idle]
      /\ torn' = (torn \/ Storing) /\ changed' = [t \in Threads |-> {}]
      /\ UNCHANGED <<inodes, occupied, disk, unsaved, mixed, raced>>
  BY DEF Kill
<1>2. raced' \in BOOLEAN /\ torn' \in BOOLEAN
  BY <1>1 DEF OpsRight, Storing
<1>3. OpsRight' /\ ~Storing' /\ InodesWritten' /\ HalfwaySeen'
  BY <1>1, <1>2, AllIdle
<1>4. DataRight' /\ TableInv'
  <2>1. changed' \in [Threads -> SUBSET (Slots \ {0})]
    BY <1>1
  <2> QED BY <1>1, <2>1 DEF DataRight, RootThere, TableInv
<1>5. DiskInv'
  <2> SUFFICES ASSUME ~torn' PROVE Stored'
    BY <1>3 DEF DiskInv
  <2>1. Stored
    BY <1>1 DEF DiskInv
  <2> QED BY <1>1, <2>1 DEF Stored, Opened, AsInTable, OnDisk
<1> QED
  BY <1>3, <1>4, <1>5

LEMMA MountKeeps ==
    ASSUME FileInv, Mount
    PROVE  FileInv'
<1> USE DEF FileInv
<1>1. /\ ~mounted /\ mounted' = TRUE
      /\ inodes' = IF disk = NoFile THEN Fresh ELSE disk.inodes
      /\ occupied' = IF disk = NoFile THEN {0} ELSE disk.occupied
      /\ raced' = (raced \/ (disk # NoFile /\ mixed)) /\ unsaved' = {}
      /\ UNCHANGED <<disk, op, changed, mixed, torn>>
  BY DEF Mount
<1>2. \A t \in Threads : op[t] = Idle
  BY <1>1 DEF OpsRight, Busy
<1>3. op' = [t \in Threads |-> Idle]
  BY <1>1, <1>2 DEF OpsRight
<1>4. raced' \in BOOLEAN /\ torn' \in BOOLEAN /\ mounted' \in BOOLEAN
  BY <1>1 DEF OpsRight, DataRight
<1>5. /\ OpsRight' /\ ~Storing' /\ InodesWritten' /\ HalfwaySeen'
      /\ \A t \in Threads : op'[t] = Idle
  BY <1>1, <1>3, <1>4, AllIdle
<1>6. ~torn => Stored
  <2>1. ~Storing
    BY <1>2, IdleFacts DEF Storing, StoringThreads, Stores
  <2> QED BY <2>1 DEF DiskInv
<1>7. inodes' \in [Slots -> Inodes] /\ occupied' \in SUBSET Slots
  BY <1>1, FreshFacts DEF DataRight, Disks
<1>8. ~torn => 0 \in occupied' /\ inodes'[0] = Fresh[0]
  <2>1. CASE disk = NoFile
    BY <1>1, <2>1
  <2>2. CASE disk # NoFile
    <3>1. 0 \in Slots \ unsaved
      BY FreshFacts DEF DataRight
    <3>2. ~torn => AsInTable(0)
      BY <1>6, <2>2, <3>1 DEF Stored, Opened
    <3> QED BY <1>1, <2>2, <3>2 DEF AsInTable, OnDisk, DataRight, RootThere
  <2> QED BY <2>1, <2>2
<1>9. DataRight'
  BY <1>1, <1>7, <1>8 DEF DataRight, RootThere
<1>10. ~torn /\ ~raced' => WholeTable(inodes', occupied')
  <2>1. CASE disk = NoFile
    BY <1>1, <2>1, FreshWhole
  <2>2. CASE disk # NoFile
    BY <1>1, <1>6, <2>2 DEF Stored, Opened
  <2> QED BY <2>1, <2>2
<1>11. TableInv'
  BY <1>1, <1>5, <1>10, WholeSound DEF TableInv
<1>12. DiskInv'
  <2> SUFFICES ASSUME ~torn', disk # NoFile PROVE Stored'
    BY <1>1, <1>5 DEF DiskInv, Stored, Opened
  <2>1. ~torn /\ Stored /\ disk.length = 2
    BY <1>1, <1>6 DEF Stored, Opened
  <2>2. \A i \in Slots : AsInTable(i)'
    BY <1>1 DEF AsInTable, OnDisk
  <2>3. ~raced' => WholeTable(disk.inodes, disk.occupied)
    BY <1>1, <2>1 DEF Stored, Opened
  <2> QED BY <1>1, <2>1, <2>2, <2>3 DEF Stored, Opened
<1> QED
  BY <1>5, <1>9, <1>11, <1>12

LEMMA InitRight == Init => FileInv
<1> SUFFICES ASSUME Init PROVE FileInv
  OBVIOUS
<1>1. /\ inodes = Fresh /\ occupied = {0} /\ disk = NoFile /\ mounted = TRUE
      /\ op = [t \in Threads |-> Idle] /\ raced = FALSE /\ torn = FALSE
      /\ changed = [t \in Threads |-> {}] /\ unsaved = {} /\ mixed = FALSE
  BY DEF Init
<1>2. op \in [Threads -> Requests] /\ \A t \in Threads : op[t] = Idle
  BY <1>1, IdleFacts
<1>3. \A t \in Threads : /\ Fine(op[t]) /\ LocksOf(t) = {} /\ op[t].call \notin Stores
                         /\ ~Busy(t) /\ ~Working(t)
  BY <1>2, IdleFacts DEF LocksOf, Stores, Busy, Working, Makes, Removes, Changes
<1>4. OpsRight
  BY <1>1, <1>2, <1>3 DEF OpsRight
<1>5. WholeTable(inodes, occupied)
  BY <1>1, FreshWhole
<1>6. DataRight
  <2>1. changed \in [Threads -> SUBSET (Slots \ {0})]
    BY <1>1
  <2> QED BY <1>1, <2>1, FreshFacts DEF DataRight, RootThere
<1>7. TableInv
  BY <1>2, <1>5, IdleRelies DEF WholeTable, TableInv, TableSound
<1>8. DiskInv
  <2>1. StoringThreads = {} /\ ~Storing
    BY <1>3 DEF StoringThreads, Storing
  <2>2. InodesWritten /\ HalfwaySeen
    BY <1>3, <2>1 DEF InodesWritten, HalfwaySeen, At
  <2>3. Stored
    BY <1>1 DEF Stored, Opened
  <2> QED BY <2>1, <2>2, <2>3 DEF DiskInv
<1> QED
  BY <1>4, <1>6, <1>7, <1>8 DEF FileInv

LEMMA FileInvariant == Spec => []FileInv
<1>1. FileInv /\ [Next]_vars => FileInv'
  <2> SUFFICES ASSUME FileInv, [Next]_vars PROVE FileInv'
    OBVIOUS
  <2>1. CASE UNCHANGED vars
    <3>1. UNCHANGED <<inodes, occupied, disk, mounted, op, saving, raced, torn>>
      BY <2>1 DEF vars, history
    <3>2. OpsRight'
      BY <3>1 DEF FileInv, OpsRight, Busy, Working, LocksOf
    <3>3. DataRight'
      BY <3>1, SameData DEF FileInv
    <3>4. TableInv'
      BY <3>1 DEF FileInv, TableInv, TableSound, InTransit
    <3>5. DiskInv'
      <4>1. SameStores
        BY <3>1 DEF SameStores, At
      <4> QED BY <3>1, <4>1, QuietStep DEF FileInv
    <3> QED BY <3>2, <3>3, <3>4, <3>5 DEF FileInv
  <2>2. CASE Next
    BY <2>2, HandlerKeeps, RequestKeeps, UnmountKeeps, KillKeeps, MountKeeps DEF Next
  <2> QED BY <2>1, <2>2
<1> QED
  BY <1>1, InitRight, PTL DEF Spec

-----------------------------------------------------------------------------
(* What it says at rest.                                                   *)

LEMMA ListedOnceRight ==
    ASSUME FileInv, AtRest
    PROVE  ListedOnce
<1> USE DEF FileInv
<1>1. TableSound /\ RootThere
  BY DEF AtRest, TableInv, DataRight
<1>2. \A i \in Slots : Marked(inodes, occupied, i)
  BY <1>1, IdleFacts DEF AtRest, TableSound, InTransit, Halfway, Makes
<1>3. 0 \in occupied /\ inodes[0].path = RootName /\ inodes[0].type = "DIRECTORY" /\ occupied \subseteq Slots
  BY <1>1, FreshFacts DEF RootThere, AtRest, DataRight
<1> SUFFICES ASSUME NEW i \in occupied \ {0}, Len(inodes[i].directory_path) <= 1
             PROVE  Cardinality({d \in Dirs : i \in Readdir(d)}) = 1
  BY DEF ListedOnce
<1> DEFINE D == {d \in Dirs : i \in Readdir(d)}
<1>4. /\ i \in Slots \ {0} /\ inodes[i].path # NoName
      /\ inodes[i].directory_path \in Paths \cup {ROOT_PATH}
      /\ \A d \in Names : inodes[i].directory_path = <<d>> => IsDir(inodes, occupied, d)
  <2>1. i \in Slots \ {0} /\ inodes[i].path # NoName
    BY <1>2, <1>3 DEF Marked
  <2> QED BY <1>1, <2>1 DEF TableSound, Placed
<1>5. \A d : d \in D <=>
         /\ d \in occupied /\ inodes[d].type = "DIRECTORY"
         /\ inodes[i].directory_path = IF d = 0 THEN ROOT_PATH ELSE <<inodes[d].path>>
  BY <1>4 DEF Dirs, Readdir, Child
<1>6. \A n : <<n>> # ROOT_PATH
  BY DEF ROOT_PATH
<1>7. \E d : D = {d}
  <2>1. CASE inodes[i].directory_path = ROOT_PATH
    <3>1. \A d : d \in D <=> d = 0
      BY <1>3, <1>5, <1>6, <2>1
    <3> HIDE DEF D
    <3> QED BY <3>1
  <2>2. CASE inodes[i].directory_path \in Paths
    <3> DEFINE q == inodes[i].directory_path
    <3>1. PICK n \in Names : q = <<n>>
      <4>1. q \in Seq(Names) /\ Len(q) \in Nat \ {0} /\ Len(q) <= 1
        BY <2>2, PathFacts
      <4> HIDE DEF q
      <4>2. PICK l \in Nat \ {0} : l = Len(q)
        BY <4>1
      <4>3. l = 1
        BY <4>1, <4>2
      <4>4. Len(q) = 1
        BY <4>2, <4>3, Zenon
      <4> QED BY <4>1, <4>4, OneComponent
    <3>2. PICK d \in occupied : inodes[d].path = n /\ inodes[d].type = "DIRECTORY"
      BY <1>4, <3>1 DEF IsDir
    <3>3. n # RootName /\ n # NoName
      BY FisopfsAssumption
    <3>4. d # 0
      BY <1>3, <3>2, <3>3
    <3>5. \A e \in occupied : inodes[e].path = n => e = d
      BY <1>1, <1>3, <3>2, <3>3 DEF TableSound, Unique
    <3>6. \A e : <<inodes[e].path>> = <<n>> => inodes[e].path = n
      BY OneName
    <3>7. \A e : e \in D <=> e = d
      BY <1>5, <1>6, <3>1, <3>2, <3>4, <3>5, <3>6
    <3> HIDE DEF D
    <3>8. D = {d}
      BY <3>7
    <3> QED BY <3>8
  <2> QED BY <1>4, <2>1, <2>2
<1> HIDE DEF D
<1>8. Cardinality(D) = 1
  BY <1>7, FS_Singleton
<1> QED
  BY <1>8 DEF D

LEMMA InvRight == FileInv => TableRight /\ DataSecured
<1> SUFFICES ASSUME FileInv PROVE TableRight /\ DataSecured
  OBVIOUS
<1> USE DEF FileInv
<1>1. TypeOK
  BY DEF TypeOK, OpsRight, DataRight, Requests
<1>2. AtRest => /\ TableSound
                /\ \A i \in Slots : Marked(inodes, occupied, i)
  BY IdleFacts DEF AtRest, TableInv, TableSound, InTransit, Halfway, Makes
<1>3. NamesUnique
  BY <1>2 DEF NamesUnique, TableSound, Unique, Marked, DataRight
<1>4. StatesRight
  BY <1>2 DEF StatesRight, Marked
<1>5. ListedOnce
  BY ListedOnceRight DEF ListedOnce
<1>6. RootStays
  BY DEF DataRight, RootThere, RootStays
<1>7. DataSecured
  BY DEF DiskInv, Stored, Opened, AsInTable, OnDisk, DataSecured
<1> QED
  BY <1>1, <1>3, <1>4, <1>5, <1>6, <1>7 DEF TableRight

\* With any number of threads, names, slots and contents, a table whose
\* handlers are at rest names every file once, in a slot that is marked and in
\* a directory that is there, and the root stays (fisopfs.c and utils.c).
THEOREM TableStaysRight == Spec => []TableRight
BY FileInvariant, InvRight, PTL

\* And when no store is under way, and none was cut short by the end of the
\* process, the file is whole and has every slot as the process has it, or had
\* it when it ended, but for those that have changed, or were in a handler's
\* hands, since the store that was the last to end began: however many stores,
\* each of which empties the file first, overlap with each other and with
\* handlers (fisopfs_destroy and fisopfs_flush).
THEOREM DataStaysSecured == Spec => []DataSecured
BY FileInvariant, InvRight, PTL
==============================================================================
