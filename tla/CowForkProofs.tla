---------------------------- MODULE CowForkProofs -----------------------------
(***************************************************************************)
(* Proofs about fork() and its page-fault handler: sharing is safe, and    *)
(* every environment sees a memory of its own, for any number of           *)
(* environments, pages and frames.                                         *)
(***************************************************************************)
EXTENDS CowFork, TLAPS

-----------------------------------------------------------------------------
(* The inductive invariant.                                                *)

InFork(e) == fork[e].at # "idle"
Child(e) == fork[e].child

\* Only what lives forks and faults; a free slot has no pages, a program all
\* of its own.
StateOK(e) ==
    /\ state[e] # "alive" => fork[e] = NotForking /\ fault[e] = NotFaulting /\ temp[e] = NoTemp
    /\ \A va \in Vas : /\ pt[e][va].perm = "none" <=> pt[e][va].frame = NoFrame
                       /\ state[e] = "free" => pt[e][va].perm = "none"
                       /\ state[e] = "alive" => pt[e][va].perm # "none"

\* Who forks builds a child of its own, page by page.
ForkOK(e) ==
    /\ fork[e].at = "idle" => fork[e] = NotForking
    /\ InFork(e) =>
          /\ Child(e) \in Envs /\ state[Child(e)] = "building"
          /\ \A d \in Envs : fork[d].child = Child(e) => d = e
          /\ fork[e].at \in {"upcall", "start"} <=> fork[e].pn = Stack + 1
          /\ \A va \in Vas : pt[Child(e)][va].perm # "none"
                <=> va < fork[e].pn \/ (va = fork[e].pn /\ fork[e].at \in {"remap", "utemp", "copy", "unmap"})

\* The page that fork_v0() copies is nowhere else.
CopyOK(e) ==
    /\ fork[e].at \in {"utemp", "copy", "unmap"} =>
          \A d \in Envs, va \in Vas : pt[d][va].frame = pt[Child(e)][fork[e].pn].frame
                                      => d = Child(e) /\ va = fork[e].pn
    /\ temp[e].utemp = IF fork[e].at \in {"copy", "unmap"} THEN pt[Child(e)][fork[e].pn].frame ELSE NoFrame

\* Who faults does so on a page it may not write, and copies what it reads to a
\* page that is nobody else's.
FaultOK(e) ==
    /\ fault[e].at = "idle" <=> fault[e].va = NoVa
    /\ fault[e].at \in {"copy", "map", "unmap"} <=> temp[e].pftemp # NoFrame
    /\ fault[e].at \in {"alloc", "copy", "map"} => pt[e][fault[e].va].perm \in {"RO", "COW"}
    /\ fault[e].at = "map" => content[temp[e].pftemp] = content[pt[e][fault[e].va].frame]
    /\ fault[e].at = "unmap" => pt[e][fault[e].va].frame = temp[e].pftemp
    /\ temp[e].pftemp # NoFrame =>
          /\ \A d \in Envs : temp[d].pftemp = temp[e].pftemp => d = e
          /\ \A d \in Envs, va \in Vas : pt[d][va].frame = temp[e].pftemp
                                         => fault[e].at = "unmap" /\ d = e /\ va = fault[e].va

\* What each version of fork() does, and the upcalls it leaves.
VersionOK(e) ==
    /\ version = "fork_v0" => /\ fork[e].at \in {"idle", "share", "utemp", "copy", "unmap", "start"}
                              /\ \A va \in Vas : pt[e][va].perm # "COW"
    /\ version = "fork" => /\ fork[e].at \in {"idle", "map", "remap", "upcall", "start"}
                           /\ InFork(e) => upcall[e]
                           /\ fork[e].at = "start" => upcall[Child(e)]

StateInv == \A e \in Envs : StateOK(e)
ForkInv == \A e \in Envs : ForkOK(e)
CopyInv == \A e \in Envs : CopyOK(e)
FaultInv == \A e \in Envs : FaultOK(e)
VersionInv == \A e \in Envs : VersionOK(e)

\* WritableAlone, page by page.
Alone == \A e, d \in Envs, va, vb \in Vas :
    pt[e][va].perm = "W" /\ pt[d][vb].frame = pt[e][va].frame
    => \/ d = e /\ vb = va
       \/ d = Child(e) /\ vb = va /\ fork[e].at = "remap" /\ fork[e].pn = va

CowInv == /\ TypeOK /\ StateInv /\ ForkInv /\ CopyInv /\ FaultInv /\ Alone
          /\ CowHasHandler /\ VersionInv

\* The child and the page of a fork() that is going through the pages.
LEMMA WhileCopying ==
    ASSUME TypeOK, ForkInv, NEW e \in Envs, fork[e].at \notin {"idle", "upcall", "start"}
    PROVE  Child(e) \in Envs /\ fork[e].pn \in Vas
<1>1. Child(e) \in Envs /\ fork[e].pn # Stack + 1
  BY DEF ForkInv, ForkOK, InFork
<1>2. fork[e].pn \in 1 .. Stack + 1 /\ Stack \in Nat
  BY CowAssumption DEF TypeOK, Stack
<1>3. Vas = 1 .. Stack
  BY DEF Vas, Stack
<1> QED
  BY <1>1, <1>2, <1>3

LEMMA CowInvIsSafe == CowInv => SharingSafe
<1> SUFFICES ASSUME CowInv PROVE SharingSafe
  OBVIOUS
<1> USE DEF CowInv, FaultInv, FaultOK
<1>1. WritableAlone
  <2> SUFFICES ASSUME NEW e \in Envs, NEW va \in Vas, pt[e][va].perm = "W",
                      NEW x \in Mappings(pt[e][va].frame)
               PROVE  \/ x = <<e, va>>
                      \/ x = <<fork[e].child, va>> /\ fork[e].at = "remap" /\ fork[e].pn = va
    BY DEF WritableAlone
  <2>1. PICK d \in Envs, vb \in Vas : x = <<d, vb>> /\ pt[d][vb].frame = pt[e][va].frame
    BY DEF Mappings
  <2> QED
    BY <2>1 DEF Alone, Child
<1>2. TempInHandler
  <2> SUFFICES ASSUME NEW e \in Envs
               PROVE  /\ temp[e].pftemp # NoFrame =>
                         /\ \A d \in Envs : temp[d].pftemp = temp[e].pftemp => d = e
                         /\ \/ fault[e].at \in {"copy", "map"} /\ Mappings(temp[e].pftemp) = {}
                            \/ /\ fault[e].at = "unmap"
                               /\ Mappings(temp[e].pftemp) = {<<e, fault[e].va>>}
                      /\ temp[e].utemp # NoFrame =>
                         /\ fork[e].at \in {"copy", "unmap"}
                         /\ Mappings(temp[e].utemp) = {<<fork[e].child, fork[e].pn>>}
    BY DEF TempInHandler
  <2>1. ASSUME temp[e].pftemp # NoFrame, fault[e].at \in {"copy", "map"}
        PROVE  Mappings(temp[e].pftemp) = {}
    BY <2>1 DEF FaultInv, Mappings
  <2>2. ASSUME temp[e].pftemp # NoFrame, fault[e].at = "unmap"
        PROVE  Mappings(temp[e].pftemp) = {<<e, fault[e].va>>}
    <3>1. fault[e].va \in Vas /\ pt[e][fault[e].va].frame = temp[e].pftemp
      BY <2>2 DEF FaultInv, TypeOK
    <3>2. \A d \in Envs, va \in Vas : pt[d][va].frame = temp[e].pftemp => d = e /\ va = fault[e].va
      BY <2>2 DEF FaultInv
    <3> QED
      BY <3>1, <3>2 DEF Mappings
  <2>3. ASSUME temp[e].utemp # NoFrame
        PROVE  /\ fork[e].at \in {"copy", "unmap"}
               /\ Mappings(temp[e].utemp) = {<<fork[e].child, fork[e].pn>>}
    <3>1. fork[e].at \in {"copy", "unmap"} /\ temp[e].utemp = pt[Child(e)][fork[e].pn].frame
      BY <2>3 DEF CopyInv, CopyOK
    <3>2. Child(e) \in Envs /\ fork[e].pn \in Vas
      BY <3>1, WhileCopying
    <3>3. \A d \in Envs, va \in Vas : pt[d][va].frame = temp[e].utemp => d = Child(e) /\ va = fork[e].pn
      BY <3>1 DEF CopyInv, CopyOK
    <3> QED
      BY <3>1, <3>2, <3>3 DEF Mappings, Child
  <2> QED
    BY <2>1, <2>2, <2>3 DEF FaultInv
<1> QED
  BY <1>1, <1>2 DEF SharingSafe

-----------------------------------------------------------------------------
(* Each step keeps it.  Every lemma has the effect of the step first, entry *)
(* by entry, then the parts of the invariant that the effect can disturb.   *)

USE DEF CowInv

Entries == [frame : Frames \cup {NoFrame}, perm : Perms]
TempRecords == [pftemp : Frames \cup {NoFrame}, utemp : Frames \cup {NoFrame}]
ForkRecords == [child : Envs \cup {NoEnv}, pn : 1 .. Stack + 1,
                at : {"idle", "map", "remap", "share", "utemp", "copy", "unmap", "upcall", "start"}]
FaultRecords == [va : Vas \cup {NoVa}, at : {"idle", "alloc", "copy", "map", "unmap"}]

\* A program writes a page that no copy is made of.
LEMMA WriteStep ==
    ASSUME CowInv, version' = version, NEW e \in Envs, NEW va \in Vas, NEW v \in Written, Write(e, va, v)
    PROVE  CowInv'
<1> DEFINE f == pt[e][va].frame
<1>1. /\ state[e] = "alive" /\ fault[e] = NotFaulting /\ pt[e][va].perm = "W"
      /\ content' = [content EXCEPT ![f] = v]
      /\ UNCHANGED <<state, pt, temp, fork, fault, upcall>>
  BY DEF Write, Writes, Runs
<1>2. TypeOK'
  BY <1>1 DEF TypeOK, Written
<1>3. FaultInv'
  <2>1. ASSUME NEW d \in Envs, fault[d].at = "map"
        PROVE  content'[temp[d].pftemp] = content'[pt[d][fault[d].va].frame]
    <3>1. temp[d].pftemp # f
      BY <2>1 DEF FaultInv, FaultOK
    <3>2. fault[d].va \in Vas /\ pt[d][fault[d].va].perm \in {"RO", "COW"}
      BY <2>1 DEF FaultInv, FaultOK, TypeOK
    <3>3. state[d] = "alive"
      BY <2>1 DEF StateInv, StateOK, NotFaulting
    <3>4. pt[d][fault[d].va].frame # f
      BY <1>1, <3>2, <3>3 DEF Alone, ForkInv, ForkOK, InFork
    <3> QED
      BY <1>1, <2>1, <3>1, <3>4 DEF FaultInv, FaultOK, TypeOK
  <2> QED
    BY <1>1, <2>1 DEF FaultInv, FaultOK
<1>4. StateInv' /\ ForkInv' /\ CopyInv' /\ Alone' /\ CowHasHandler' /\ VersionInv'
  BY <1>1 DEF StateInv, StateOK, ForkInv, ForkOK, CopyInv, CopyOK, Alone, CowHasHandler,
              VersionInv, VersionOK, InFork, Child
<1> QED
  BY <1>2, <1>3, <1>4

\* What a program had is nobody's any more; its unfinished child stays as it is.
LEMMA KilledStep ==
    ASSUME CowInv, version' = version, NEW e \in Envs, state[e] = "alive", Killed(e)
    PROVE  CowInv'
<1>1. /\ \A d \in Envs : /\ state'[d] = IF d = e THEN "free" ELSE state[d]
                         /\ temp'[d] = IF d = e THEN NoTemp ELSE temp[d]
                         /\ fork'[d] = IF d = e THEN NotForking ELSE fork[d]
                         /\ fault'[d] = IF d = e THEN NotFaulting ELSE fault[d]
      /\ \A d \in Envs, va \in Vas : pt'[d][va] = IF d = e THEN Unmapped ELSE pt[d][va]
      /\ content' = content /\ upcall' = upcall
  BY DEF Killed, TypeOK
<1>2. TypeOK'
  <2>1. NoTemp \in TempRecords /\ NotFaulting \in FaultRecords
    BY DEF NoTemp, TempRecords, NotFaulting, FaultRecords
  <2>2. NotForking \in ForkRecords
    BY CowAssumption DEF NotForking, ForkRecords, Stack
  <2>3. [va \in Vas |-> Unmapped] \in [Vas -> Entries]
    BY DEF Unmapped, Entries, Perms
  <2> QED
    BY <2>1, <2>2, <2>3 DEF Killed, TypeOK, TempRecords, FaultRecords, ForkRecords, Entries
<1>3. StateInv'
  BY <1>1 DEF StateInv, StateOK, Unmapped
<1>4. ASSUME NEW d \in Envs
      PROVE  ForkOK(d)' /\ CopyOK(d)'
  <2>1. CASE d = e
    BY <1>1, <2>1 DEF ForkOK, CopyOK, InFork, NotForking, NoTemp
  <2>2. CASE d # e
    <3>1. /\ fork'[d] = fork[d] /\ temp'[d] = temp[d] /\ ForkOK(d) /\ CopyOK(d)
      BY <1>1, <2>2 DEF ForkInv, CopyInv
    <3>2. CASE InFork(d)
      <4>1. Child(d) \in Envs /\ state[Child(d)] = "building" /\ Child(d) # e
        BY <3>1, <3>2 DEF ForkOK
      <4>2. state'[Child(d)] = "building" /\ \A va \in Vas : pt'[Child(d)][va] = pt[Child(d)][va]
        BY <1>1, <4>1
      <4>3. ForkOK(d)'
        BY <1>1, <3>1, <3>2, <4>1, <4>2, CowAssumption DEF ForkOK, InFork, Child, NotForking
      <4>4. CopyOK(d)'
        <5>1. CASE fork[d].at \in {"utemp", "copy", "unmap"}
          <6>1. fork[d].pn \in Vas /\ pt[Child(d)][fork[d].pn].frame # NoFrame
            BY <3>1, <4>1, <5>1, WhileCopying DEF ForkOK, InFork, StateInv, StateOK
          <6> QED
            BY <1>1, <3>1, <4>1, <4>2, <5>1, <6>1 DEF CopyOK, Child, Unmapped
        <5>2. CASE fork[d].at \notin {"utemp", "copy", "unmap"}
          BY <3>1, <5>2 DEF CopyOK
        <5> QED
          BY <5>1, <5>2
      <4> QED
        BY <4>3, <4>4
    <3>3. CASE ~InFork(d)
      BY <3>1, <3>3 DEF ForkOK, CopyOK, InFork
    <3> QED
      BY <3>2, <3>3
  <2> QED
    BY <2>1, <2>2
<1>5. ASSUME NEW d \in Envs PROVE FaultOK(d)'
  <2>1. CASE d = e
    BY <1>1, <2>1 DEF FaultOK, NotFaulting, NoTemp
  <2>2. CASE d # e
    <3>1. FaultOK(d) /\ fault[d].va \in Vas \cup {NoVa}
      BY DEF FaultInv, TypeOK
    <3>2. fault[d].at # "idle" => fault[d].va \in Vas
      BY <3>1 DEF FaultOK
    <3>3. /\ temp'[d] = temp[d] /\ fault'[d] = fault[d] /\ content' = content
          /\ \A va \in Vas : pt'[d][va] = pt[d][va]
      BY <1>1, <2>2
    <3>4. temp[d].pftemp # NoFrame =>
             /\ \A x \in Envs : temp'[x].pftemp = temp[d].pftemp => x = d
             /\ \A x \in Envs, va \in Vas : pt'[x][va].frame = temp[d].pftemp
                                            => fault[d].at = "unmap" /\ x = d /\ va = fault[d].va
      BY <1>1, <3>1 DEF FaultOK, NoTemp, Unmapped
    <3> QED
      BY <3>1, <3>2, <3>3, <3>4 DEF FaultOK
  <2> QED
    BY <2>1, <2>2
<1>6. Alone'
  BY <1>1 DEF Alone, Child, ForkInv, ForkOK, InFork, StateInv, StateOK, Unmapped
<1>7. CowHasHandler' /\ VersionInv'
  BY <1>1 DEF CowHasHandler, VersionInv, VersionOK, InFork, Child, Unmapped, NotForking
<1> QED
  BY <1>2, <1>3, <1>4, <1>5, <1>6, <1>7 DEF ForkInv, CopyInv, FaultInv

LEMMA EnterFaultStep ==
    ASSUME CowInv, version' = version, NEW e \in Envs, NEW va \in Vas, WriteFault(e, va), upcall[e]
    PROVE  CowInv'
<1>1. /\ state[e] = "alive" /\ fault[e] = NotFaulting /\ pt[e][va].perm \in {"RO", "COW"}
      /\ fault' = [fault EXCEPT ![e] = [va |-> va, at |-> "alloc"]]
      /\ UNCHANGED <<state, pt, temp, content, fork, upcall>>
  BY DEF WriteFault, Writes, Runs
<1>2. \A d \in Envs : fault'[d] = IF d = e THEN [va |-> va, at |-> "alloc"] ELSE fault[d]
  BY <1>1 DEF TypeOK
<1>3. TypeOK'
  <2>1. [va |-> va, at |-> "alloc"] \in FaultRecords
    BY DEF FaultRecords
  <2> QED
    BY <1>1, <2>1 DEF TypeOK, FaultRecords
<1>4. FaultInv'
  <2>1. va # NoVa
    BY CowAssumption DEF Vas, NoVa
  <2> QED
    BY <1>1, <1>2, <2>1 DEF FaultInv, FaultOK, NotFaulting
<1>5. StateInv' /\ ForkInv' /\ CopyInv' /\ Alone' /\ CowHasHandler' /\ VersionInv'
  BY <1>1, <1>2 DEF StateInv, StateOK, ForkInv, ForkOK, CopyInv, CopyOK, Alone, CowHasHandler,
                    VersionInv, VersionOK, InFork, Child
<1> QED
  BY <1>3, <1>4, <1>5

\* Where it is in fork() is one of the places.
LEMMA GotoType ==
    ASSUME TypeOK, NEW e \in Envs, NEW l \in {"remap", "utemp", "copy", "unmap", "start"}
    PROVE  [fork EXCEPT ![e].at = l] \in [Envs -> ForkRecords]
<1>1. fork \in [Envs -> ForkRecords]
  BY DEF TypeOK, ForkRecords
<1> QED
  BY <1>1 DEF ForkRecords

\* A page, or none, in a temporary mapping is as it should be.
LEMMA TempType ==
    ASSUME TypeOK, NEW e \in Envs, NEW g \in Frames \cup {NoFrame}
    PROVE  /\ [temp EXCEPT ![e].pftemp = g] \in [Envs -> TempRecords]
           /\ [temp EXCEPT ![e].utemp = g] \in [Envs -> TempRecords]
<1>1. temp \in [Envs -> TempRecords] /\ temp[e] \in TempRecords
  BY DEF TypeOK, TempRecords
<1>2. [temp[e] EXCEPT !.pftemp = g] \in TempRecords /\ [temp[e] EXCEPT !.utemp = g] \in TempRecords
  BY <1>1 DEF TempRecords
<1>3. /\ [temp EXCEPT ![e].pftemp = g] = [temp EXCEPT ![e] = [temp[e] EXCEPT !.pftemp = g]]
      /\ [temp EXCEPT ![e].utemp = g] = [temp EXCEPT ![e] = [temp[e] EXCEPT !.utemp = g]]
  BY <1>1
<1>4. \A r \in TempRecords : [temp EXCEPT ![e] = r] \in [Envs -> TempRecords]
  BY <1>1
<1> QED
  BY <1>2, <1>3, <1>4

\* The page at PFTEMP was free, and what is copied stays where it is.
LEMMA FaultAllocStep ==
    ASSUME CowInv, version' = version, NEW e \in Envs, FaultAlloc(e)
    PROVE  CowInv'
<1>1. PICK f \in FreeFrames : /\ fault[e].at = "alloc"
                              /\ temp' = [temp EXCEPT ![e].pftemp = f]
                              /\ content' = [content EXCEPT ![f] = Zero]
                              /\ fault' = [fault EXCEPT ![e].at = "copy"]
                              /\ UNCHANGED <<state, pt, fork, upcall>>
  BY DEF FaultAlloc, FaultGoto
<1>2. /\ f \in Frames /\ f # NoFrame
      /\ \A d \in Envs, va \in Vas : pt[d][va].frame # f
      /\ \A d \in Envs : temp[d].pftemp # f /\ temp[d].utemp # f
  BY CowAssumption DEF FreeFrames, Temps
<1>3. /\ state[e] = "alive" /\ fault[e].va # NoVa
  BY <1>1 DEF StateInv, StateOK, FaultInv, FaultOK, NotFaulting
<1>4. \A d \in Envs : /\ temp'[d].pftemp = IF d = e THEN f ELSE temp[d].pftemp
                      /\ temp'[d].utemp = temp[d].utemp
                      /\ d # e => temp'[d] = temp[d] /\ fault'[d] = fault[d]
                      /\ fault'[d].va = fault[d].va
                      /\ fault'[d].at = IF d = e THEN "copy" ELSE fault[d].at
  BY <1>1 DEF TypeOK
<1>5. \A g \in Frames : g # f => content'[g] = content[g]
  BY <1>1 DEF TypeOK
<1>6. TypeOK'
  <2>1. temp' \in [Envs -> TempRecords]
    BY <1>1, <1>2, TempType
  <2>2. fault' \in [Envs -> FaultRecords]
    BY <1>1 DEF TypeOK, FaultRecords
  <2>3. content' \in [Frames -> Values]
    BY <1>1, CowAssumption DEF TypeOK
  <2> QED
    BY <1>1, <2>1, <2>2, <2>3 DEF TypeOK, TempRecords, FaultRecords
<1>7. ASSUME NEW d \in Envs PROVE FaultOK(d)'
  <2>1. FaultOK(d)
    BY DEF FaultInv
  <2>2. CASE d = e
    BY <1>1, <1>2, <1>3, <1>4, <2>1, <2>2 DEF FaultOK
  <2>3. CASE d # e
    <3>1. ASSUME fault[d].at = "map"
          PROVE  content'[temp[d].pftemp] = content'[pt[d][fault[d].va].frame]
      <4>1. fault[d].va \in Vas /\ temp[d].pftemp \in Frames
        BY <2>1, <3>1 DEF FaultOK, TypeOK
      <4>2. pt[d][fault[d].va].frame \in Frames
        BY <2>1, <3>1, <4>1 DEF FaultOK, StateInv, StateOK, TypeOK
      <4> QED
        BY <1>2, <1>5, <2>1, <3>1, <4>1, <4>2 DEF FaultOK
    <3> QED
      BY <1>1, <1>2, <1>4, <2>1, <2>3, <3>1 DEF FaultOK
  <2> QED
    BY <2>2, <2>3
<1>8. StateInv' /\ CopyInv'
  BY <1>1, <1>3, <1>4 DEF StateInv, StateOK, CopyInv, CopyOK, Child
<1>9. ForkInv' /\ Alone' /\ CowHasHandler' /\ VersionInv'
  BY <1>1 DEF ForkInv, ForkOK, Alone, CowHasHandler, VersionInv, VersionOK, InFork, Child
<1> QED
  BY <1>6, <1>7, <1>8, <1>9 DEF FaultInv

\* memmove() writes a page that only pgfault() knows.
LEMMA FaultCopyStep ==
    ASSUME CowInv, version' = version, NEW e \in Envs, FaultCopy(e)
    PROVE  CowInv'
<1> DEFINE f == temp[e].pftemp
           g == pt[e][fault[e].va].frame
<1>1. /\ fault[e].at = "copy"
      /\ content' = [content EXCEPT ![f] = content[g]]
      /\ fault' = [fault EXCEPT ![e].at = "map"]
      /\ UNCHANGED <<state, pt, temp, fork, upcall>>
  BY DEF FaultCopy, FaultGoto
<1>2. /\ state[e] = "alive" /\ fault[e].va \in Vas /\ f \in Frames
      /\ \A d \in Envs, va \in Vas : pt[d][va].frame # f
      /\ \A d \in Envs : temp[d].pftemp = f => d = e
  BY <1>1 DEF StateInv, StateOK, FaultInv, FaultOK, NotFaulting, TypeOK
<1>3. g \in Frames
  BY <1>2 DEF StateInv, StateOK, TypeOK
<1>4. \A d \in Envs : /\ d # e => fault'[d] = fault[d]
                      /\ fault'[d].va = fault[d].va
                      /\ fault'[d].at = IF d = e THEN "map" ELSE fault[d].at
  BY <1>1 DEF TypeOK
<1>5. /\ content'[f] = content[g] /\ f # g
      /\ \A x \in Frames : x # f => content'[x] = content[x]
  BY <1>1, <1>2 DEF TypeOK
<1>6. TypeOK'
  <2>1. fault' \in [Envs -> FaultRecords]
    BY <1>1 DEF TypeOK, FaultRecords
  <2>2. content' \in [Frames -> Values]
    BY <1>1, <1>3 DEF TypeOK
  <2> QED
    BY <1>1, <2>1, <2>2 DEF TypeOK, FaultRecords
<1>7. ASSUME NEW d \in Envs PROVE FaultOK(d)'
  <2>1. FaultOK(d)
    BY DEF FaultInv
  <2>2. CASE d = e
    BY <1>1, <1>3, <1>4, <1>5, <2>1, <2>2 DEF FaultOK
  <2>3. CASE d # e
    <3>1. ASSUME fault[d].at = "map"
          PROVE  content'[temp[d].pftemp] = content'[pt[d][fault[d].va].frame]
      <4>1. fault[d].va \in Vas /\ temp[d].pftemp \in Frames
        BY <2>1, <3>1 DEF FaultOK, TypeOK
      <4>2. pt[d][fault[d].va].frame \in Frames
        BY <2>1, <3>1, <4>1 DEF FaultOK, StateInv, StateOK, TypeOK
      <4> QED
        BY <1>2, <1>5, <2>1, <2>3, <3>1, <4>1, <4>2 DEF FaultOK
    <3> QED
      BY <1>1, <1>4, <2>1, <2>3, <3>1 DEF FaultOK
  <2> QED
    BY <2>2, <2>3
<1>8. StateInv'
  BY <1>1, <1>2, <1>4 DEF StateInv, StateOK
<1>9. ForkInv' /\ CopyInv' /\ Alone' /\ CowHasHandler' /\ VersionInv'
  BY <1>1 DEF ForkInv, ForkOK, CopyInv, CopyOK, Alone, CowHasHandler, VersionInv, VersionOK,
              InFork, Child
<1> QED
  BY <1>6, <1>7, <1>8, <1>9 DEF FaultInv

\* The copy takes the place of the page that was shared.
LEMMA FaultMapStep ==
    ASSUME CowInv, version' = version, NEW e \in Envs, FaultMap(e)
    PROVE  CowInv'
<1> DEFINE f == temp[e].pftemp
           here == fault[e].va
<1>1. /\ fault[e].at = "map"
      /\ pt' = [pt EXCEPT ![e][here] = [frame |-> f, perm |-> "W"]]
      /\ fault' = [fault EXCEPT ![e].at = "unmap"]
      /\ UNCHANGED <<state, temp, content, fork, upcall>>
  BY DEF FaultMap, FaultGoto
<1>2. /\ state[e] = "alive" /\ here \in Vas /\ f \in Frames /\ f # NoFrame
      /\ \A d \in Envs, va \in Vas : pt[d][va].frame # f
      /\ \A d \in Envs : temp[d].pftemp = f => d = e
  BY <1>1 DEF StateInv, StateOK, FaultInv, FaultOK, NotFaulting, TypeOK
<1>3. /\ \A d \in Envs, va \in Vas :
            pt'[d][va] = IF d = e /\ va = here THEN [frame |-> f, perm |-> "W"] ELSE pt[d][va]
      /\ \A d \in Envs : /\ d # e => fault'[d] = fault[d]
                         /\ fault'[d].va = fault[d].va
                         /\ fault'[d].at = IF d = e THEN "unmap" ELSE fault[d].at
  BY <1>1, <1>2 DEF TypeOK
<1>4. TypeOK'
  <2>1. fault' \in [Envs -> FaultRecords]
    BY <1>1 DEF TypeOK, FaultRecords
  <2>2. pt' \in [Envs -> [Vas -> Entries]]
    BY <1>1, <1>2 DEF TypeOK, Entries, Perms
  <2> QED
    BY <1>1, <2>1, <2>2 DEF TypeOK, FaultRecords, Entries
<1>5. StateInv'
  BY <1>1, <1>2, <1>3 DEF StateInv, StateOK
<1>6. ASSUME NEW d \in Envs, InFork(d)
      PROVE  Child(d) \in Envs /\ Child(d) # e
  BY <1>2, <1>6 DEF ForkInv, ForkOK
<1>7. ForkInv'
  BY <1>1, <1>3, <1>6 DEF ForkInv, ForkOK, InFork, Child
<1>8. ASSUME NEW d \in Envs PROVE CopyOK(d)'
  <2>1. CASE fork[d].at \in {"utemp", "copy", "unmap"}
    <3>1. fork[d].pn \in Vas /\ Child(d) \in Envs /\ Child(d) # e
      BY <1>6, <2>1, WhileCopying DEF InFork
    <3> QED
      BY <1>1, <1>2, <1>3, <2>1, <3>1 DEF CopyInv, CopyOK, Child
  <2>2. CASE fork[d].at \notin {"utemp", "copy", "unmap"}
    BY <1>1, <2>2 DEF CopyInv, CopyOK
  <2> QED
    BY <2>1, <2>2
<1>9. ASSUME NEW d \in Envs PROVE FaultOK(d)'
  <2>1. CASE d = e
    BY <1>1, <1>2, <1>3, <2>1 DEF FaultInv, FaultOK
  <2>2. CASE d # e
    BY <1>1, <1>2, <1>3, <2>2 DEF FaultInv, FaultOK, TypeOK
  <2> QED
    BY <2>1, <2>2
<1>10. Alone'
  BY <1>1, <1>2, <1>3 DEF Alone, Child
<1>11. CowHasHandler' /\ VersionInv'
  BY <1>1, <1>2, <1>3 DEF CowHasHandler, VersionInv, VersionOK, InFork, Child
<1> QED
  BY <1>4, <1>5, <1>7, <1>8, <1>9, <1>10, <1>11 DEF CopyInv, FaultInv

LEMMA FaultUnmapStep ==
    ASSUME CowInv, version' = version, NEW e \in Envs, FaultUnmap(e)
    PROVE  CowInv'
<1>1. /\ fault[e].at = "unmap"
      /\ temp' = [temp EXCEPT ![e].pftemp = NoFrame]
      /\ fault' = [fault EXCEPT ![e] = NotFaulting]
      /\ UNCHANGED <<state, pt, content, fork, upcall>>
  BY DEF FaultUnmap
<1>2. \A d \in Envs : /\ temp'[d].pftemp = IF d = e THEN NoFrame ELSE temp[d].pftemp
                      /\ temp'[d].utemp = temp[d].utemp
                      /\ d # e => temp'[d] = temp[d]
                      /\ fault'[d] = IF d = e THEN NotFaulting ELSE fault[d]
  BY <1>1 DEF TypeOK
<1>3. TypeOK'
  <2>1. temp' \in [Envs -> TempRecords]
    BY <1>1, TempType
  <2>2. fault' \in [Envs -> FaultRecords]
    BY <1>1 DEF TypeOK, FaultRecords, NotFaulting
  <2> QED
    BY <1>1, <2>1, <2>2 DEF TypeOK, TempRecords, FaultRecords
<1>4. state[e] = "alive"
  BY <1>1 DEF StateInv, StateOK, NotFaulting
<1>5. StateInv' /\ FaultInv' /\ CopyInv'
  BY <1>1, <1>2, <1>4 DEF StateInv, StateOK, FaultInv, FaultOK, CopyInv, CopyOK, Child, NotFaulting
<1>6. ForkInv' /\ Alone' /\ CowHasHandler' /\ VersionInv'
  BY <1>1 DEF ForkInv, ForkOK, Alone, CowHasHandler, VersionInv, VersionOK, InFork, Child
<1> QED
  BY <1>3, <1>5, <1>6

-----------------------------------------------------------------------------
(* fork() and fork_v0().                                                   *)

\* sys_exofork(): the child is a slot that nobody builds, without pages.
LEMMA BeginStep ==
    ASSUME CowInv, version' = version, NEW e \in Envs, NEW child \in Envs,
           ForkBegin(e, child) \/ ForkV0Begin(e, child)
    PROVE  CowInv'
<1> DEFINE l == IF version = "fork" THEN "map" ELSE "share"
<1>1. /\ version = "fork" <=> ForkBegin(e, child)
      /\ state[e] = "alive" /\ fork[e] = NotForking /\ state[child] = "free"
      /\ state' = [state EXCEPT ![child] = "building"]
      /\ fork' = [fork EXCEPT ![e] = [child |-> child, pn |-> 1, at |-> l]]
      /\ upcall' = IF version = "fork" THEN [upcall EXCEPT ![e] = TRUE, ![child] = FALSE]
                                       ELSE [upcall EXCEPT ![child] = FALSE]
      /\ UNCHANGED <<pt, temp, content, fault>>
  BY DEF ForkBegin, ForkV0Begin, Runs
<1>2. /\ child # e
      /\ \A d \in Envs : state'[d] = IF d = child THEN "building" ELSE state[d]
      /\ \A d \in Envs : fork'[d] = IF d = e THEN [child |-> child, pn |-> 1, at |-> l] ELSE fork[d]
      /\ version = "fork" => upcall'[e]
      /\ \A d \in Envs : d # child /\ upcall[d] => upcall'[d]
  BY <1>1 DEF TypeOK
<1>3. TypeOK'
  <2>1. [child |-> child, pn |-> 1, at |-> l] \in ForkRecords
    BY CowAssumption DEF ForkRecords, Stack
  <2>2. fork' \in [Envs -> ForkRecords]
    BY <1>1, <2>1 DEF TypeOK, ForkRecords
  <2>3. state' \in [Envs -> {"free", "building", "alive"}] /\ upcall' \in [Envs -> BOOLEAN]
    BY <1>1 DEF TypeOK
  <2> QED
    BY <1>1, <2>2, <2>3 DEF TypeOK, ForkRecords
<1>4. ASSUME NEW d \in Envs PROVE fork[d].child # child
  BY <1>1, CowAssumption DEF ForkInv, ForkOK, InFork, Child, NotForking
<1>5. StateInv'
  BY <1>1, <1>2 DEF StateInv, StateOK
<1>6. ASSUME NEW d \in Envs PROVE ForkOK(d)'
  <2>1. CASE d = e
    <3>1. \A va \in Vas : pt[child][va].perm = "none" /\ ~(va < 1)
      BY <1>1, CowAssumption DEF StateInv, StateOK, Vas
    <3>2. Stack + 1 # 1
      BY CowAssumption DEF Stack
    <3> QED
      BY <1>1, <1>2, <1>4, <2>1, <3>1, <3>2 DEF ForkOK, InFork, Child
  <2>2. CASE d # e
    BY <1>1, <1>2, <1>4, <2>2 DEF ForkInv, ForkOK, InFork, Child
  <2> QED
    BY <2>1, <2>2
<1>7. CopyInv' /\ FaultInv'
  BY <1>1, <1>2 DEF CopyInv, CopyOK, FaultInv, FaultOK, Child, NotForking
<1>8. Alone'
  BY <1>1, <1>2 DEF Alone, Child, NotForking
<1>9. CowHasHandler'
  <2> SUFFICES ASSUME NEW d \in Envs, state'[d] = "alive", NEW va \in Vas, pt'[d][va].perm = "COW"
               PROVE  upcall'[d]
    BY DEF CowHasHandler
  <2>1. d # child /\ state[d] = "alive" /\ pt[d][va].perm = "COW"
    BY <1>1, <1>2
  <2> QED
    BY <1>2, <2>1 DEF CowHasHandler
<1>10. ASSUME NEW d \in Envs PROVE VersionOK(d)'
  <2>1. VersionOK(d) /\ version \in {"fork", "fork_v0"}
    BY DEF VersionInv, TypeOK
  <2>2. CASE d = e
    BY <1>1, <1>2, <2>1, <2>2 DEF VersionOK, InFork
  <2>3. CASE d # e
    <3>1. fork'[d] = fork[d] /\ (InFork(d) => d # child)
      BY <1>1, <1>2, <2>3 DEF StateInv, StateOK, NotForking, InFork
    <3> QED
      BY <1>1, <1>2, <1>4, <2>1, <3>1 DEF VersionOK, InFork, Child, ForkInv, ForkOK
  <2> QED
    BY <2>2, <2>3
<1> QED
  BY <1>3, <1>5, <1>6, <1>7, <1>8, <1>9, <1>10 DEF ForkInv, VersionInv

LEMMA ForkUpcallStep ==
    ASSUME CowInv, version' = version, NEW e \in Envs, ForkUpcall(e)
    PROVE  CowInv'
<1>1. /\ fork[e].at = "upcall" /\ Child(e) \in Envs
      /\ upcall' = [upcall EXCEPT ![Child(e)] = TRUE]
      /\ fork' = [fork EXCEPT ![e].at = "start"]
      /\ UNCHANGED <<state, pt, temp, content, fault>>
  BY DEF ForkUpcall, Forks, Child, ForkInv, ForkOK, InFork
<1>2. \A d \in Envs : /\ fork'[d].child = fork[d].child /\ fork'[d].pn = fork[d].pn
                      /\ fork'[d].at = IF d = e THEN "start" ELSE fork[d].at
                      /\ d # e => fork'[d] = fork[d]
                      /\ upcall[d] => upcall'[d]
      /\ upcall'[Child(e)]
  BY <1>1 DEF TypeOK
<1>3. TypeOK'
  <2>1. fork' \in [Envs -> ForkRecords]
    BY <1>1, GotoType
  <2>2. upcall' \in [Envs -> BOOLEAN]
    BY <1>1 DEF TypeOK
  <2> QED
    BY <1>1, <2>1, <2>2 DEF TypeOK, ForkRecords
<1>4. StateInv' /\ ForkInv'
  BY <1>1, <1>2 DEF StateInv, StateOK, ForkInv, ForkOK, InFork, Child, NotForking
<1>5. CopyInv' /\ FaultInv'
  BY <1>1, <1>2 DEF CopyInv, CopyOK, FaultInv, FaultOK, Child
<1>6. Alone' /\ CowHasHandler'
  BY <1>1, <1>2 DEF Alone, CowHasHandler, Child
<1>7. VersionInv'
  BY <1>1, <1>2 DEF VersionInv, VersionOK, InFork, Child
<1> QED
  BY <1>3, <1>4, <1>5, <1>6, <1>7

\* A child starts with all its pages, and with the handler for those it shares.
LEMMA ForkEndStep ==
    ASSUME CowInv, version' = version, NEW e \in Envs, ForkEnd(e)
    PROVE  CowInv'
<1> DEFINE c == Child(e)
<1>1. /\ fork[e].at = "start" /\ c \in Envs /\ state[c] = "building"
      /\ state' = [state EXCEPT ![c] = "alive"]
      /\ fork' = [fork EXCEPT ![e] = NotForking]
      /\ UNCHANGED <<pt, temp, content, fault, upcall>>
  BY DEF ForkEnd, Forks, Child, ForkInv, ForkOK, InFork
<1>2. \A d \in Envs : /\ state'[d] = IF d = c THEN "alive" ELSE state[d]
                      /\ fork'[d] = IF d = e THEN NotForking ELSE fork[d]
  BY <1>1 DEF TypeOK
<1>3. /\ \A d \in Envs : fork[d].child = c => d = e
      /\ \A va \in Vas : pt[c][va].perm # "none"
  <2>1. fork[e].pn = Stack + 1 /\ \A va \in Vas : va < Stack + 1
    BY <1>1, CowAssumption DEF ForkInv, ForkOK, InFork, Vas, Stack
  <2> QED
    BY <1>1, <2>1 DEF ForkInv, ForkOK, InFork
<1>4. TypeOK'
  <2>1. NotForking \in ForkRecords
    BY CowAssumption DEF NotForking, ForkRecords, Stack
  <2>2. fork' \in [Envs -> ForkRecords]
    BY <1>1, <2>1 DEF TypeOK, ForkRecords
  <2>3. state' \in [Envs -> {"free", "building", "alive"}]
    BY <1>1 DEF TypeOK
  <2> QED
    BY <1>1, <2>2, <2>3 DEF TypeOK, ForkRecords
<1>5. StateInv'
  BY <1>1, <1>2, <1>3 DEF StateInv, StateOK, NotForking
<1>6. ASSUME NEW d \in Envs PROVE ForkOK(d)'
  <2>1. CASE d = e
    BY <1>2, <2>1 DEF ForkOK, InFork, NotForking
  <2>2. CASE d # e
    <3>1. fork'[d] = fork[d] /\ ForkOK(d) /\ Child(d) # c
      BY <1>2, <1>3, <2>2 DEF ForkInv, Child
    <3> QED
      BY <1>1, <1>2, <3>1, CowAssumption DEF ForkOK, InFork, Child, NotForking
  <2> QED
    BY <2>1, <2>2
<1>7. CopyInv' /\ FaultInv'
  BY <1>1, <1>2 DEF CopyInv, CopyOK, FaultInv, FaultOK, Child, NotForking
<1>8. Alone'
  BY <1>1, <1>2 DEF Alone, Child
<1>9. CowHasHandler'
  <2>1. version = "fork" => upcall[c]
    BY <1>1 DEF VersionInv, VersionOK
  <2>2. version = "fork_v0" => \A va \in Vas : pt[c][va].perm # "COW"
    BY <1>1 DEF VersionInv, VersionOK
  <2> QED
    BY <1>1, <1>2, <2>1, <2>2 DEF CowHasHandler, TypeOK
<1>10. VersionInv'
  BY <1>1, <1>2 DEF VersionInv, VersionOK, InFork, Child, NotForking
<1> QED
  BY <1>4, <1>5, <1>6, <1>7, <1>8, <1>9, <1>10 DEF ForkInv

\* What every step that goes through the pages starts from.
LEMMA PageFacts ==
    ASSUME CowInv, NEW e \in Envs, state[e] = "alive", fork[e].at \notin {"idle", "upcall", "start"}
    PROVE  /\ fork[e].pn \in Vas /\ Child(e) \in Envs /\ Child(e) # e /\ state[Child(e)] = "building"
           /\ InFork(e) /\ fork[Child(e)] = NotForking /\ fault[Child(e)] = NotFaulting
           /\ temp[Child(e)] = NoTemp
           /\ pt[e][fork[e].pn].perm # "none" /\ pt[e][fork[e].pn].frame \in Frames
           /\ fork[e].at \in {"map", "share"} => pt[Child(e)][fork[e].pn].perm = "none"
           /\ \A d \in Envs : fork[d].child = Child(e) => d = e
           /\ \A d \in Envs : d # e /\ InFork(d) => Child(d) # Child(e) /\ Child(d) # e
<1>1. fork[e].pn \in Vas /\ Child(e) \in Envs
  BY WhileCopying
<1>2. /\ InFork(e) /\ state[Child(e)] = "building"
      /\ \A d \in Envs : fork[d].child = Child(e) => d = e
      /\ fork[e].at \in {"map", "share"} => pt[Child(e)][fork[e].pn].perm = "none"
  BY <1>1 DEF InFork, ForkInv, ForkOK, Vas
<1>3. pt[e][fork[e].pn].perm # "none" /\ pt[e][fork[e].pn].frame \in Frames
  BY <1>1 DEF StateInv, StateOK, TypeOK
<1>4. \A d \in Envs : d # e /\ InFork(d) => Child(d) # Child(e) /\ Child(d) # e
  BY <1>2 DEF Child, ForkInv, ForkOK
<1> QED
  BY <1>1, <1>2, <1>3, <1>4 DEF StateInv, StateOK

\* The next page, or the end of the pages.
LEMMA NextPageFacts ==
    ASSUME NEW f \in ForkRecords, f.pn \in Vas, NEW loop \in {"map", "share"},
           NEW after \in {"upcall", "start"}
    PROVE  /\ NextPage(f, loop, after) \in ForkRecords
           /\ NextPage(f, loop, after).child = f.child
           /\ NextPage(f, loop, after).pn = f.pn + 1
           /\ NextPage(f, loop, after).at = IF f.pn = Stack THEN after ELSE loop
           /\ NextPage(f, loop, after).at \in {"upcall", "start"} <=> NextPage(f, loop, after).pn = Stack + 1
<1>1. f.pn \in 1 .. Stack /\ Stack \in Nat
  BY CowAssumption DEF Vas, Stack
<1> DEFINE last == IF f.pn = Stack THEN after ELSE loop
<1>2. NextPage(f, loop, after) = [f EXCEPT !.pn = f.pn + 1, !.at = last]
  BY DEF NextPage
<1>3. last \in {"map", "share", "upcall", "start"} /\ f.pn + 1 \in 1 .. Stack + 1
  BY <1>1
<1>4. /\ [f EXCEPT !.pn = f.pn + 1, !.at = last] \in ForkRecords
      /\ [f EXCEPT !.pn = f.pn + 1, !.at = last].child = f.child
      /\ [f EXCEPT !.pn = f.pn + 1, !.at = last].pn = f.pn + 1
      /\ [f EXCEPT !.pn = f.pn + 1, !.at = last].at = last
  <2> HIDE DEF last
  <2> QED
    BY <1>3 DEF ForkRecords
<1> QED
  BY <1>1, <1>2, <1>4

\* duppage() of a page that may be written: the child gets it first, and the
\* parent gives up writing it.
LEMMA DupCowMapStep ==
    ASSUME CowInv, version' = version, NEW e \in Envs, DupCow(e), fork[e].at = "map"
    PROVE  CowInv'
<1> DEFINE va == fork[e].pn
           c == Child(e)
           f == pt[e][va].frame
<1>1. /\ state[e] = "alive" /\ pt[e][va].perm \in {"W", "COW"}
      /\ pt' = [pt EXCEPT ![c][va] = [frame |-> f, perm |-> "COW"]]
      /\ fork' = [fork EXCEPT ![e].at = "remap"]
      /\ UNCHANGED <<state, temp, content, fault, upcall>>
  BY DEF DupCow, DupTarget, Forks, Runs, Child
<1>2. /\ va \in Vas /\ c \in Envs /\ c # e /\ state[c] = "building" /\ f \in Frames
      /\ InFork(e) /\ fork[c] = NotForking /\ fault[c] = NotFaulting
      /\ pt[c][va].perm = "none"
      /\ \A d \in Envs : d # e /\ InFork(d) => Child(d) # c /\ Child(d) # e
  BY <1>1, PageFacts
<1>3. /\ \A d \in Envs, x \in Vas :
            pt'[d][x] = IF d = c /\ x = va THEN [frame |-> f, perm |-> "COW"] ELSE pt[d][x]
      /\ \A d \in Envs : /\ fork'[d].child = fork[d].child /\ fork'[d].pn = fork[d].pn
                         /\ fork'[d].at = IF d = e THEN "remap" ELSE fork[d].at
                         /\ d # e => fork'[d] = fork[d]
  BY <1>1, <1>2 DEF TypeOK
<1>4. TypeOK'
  <2>1. fork' \in [Envs -> ForkRecords]
    BY <1>1, GotoType
  <2>2. pt' \in [Envs -> [Vas -> Entries]]
    BY <1>1, <1>2 DEF TypeOK, Entries, Perms
  <2> QED
    BY <1>1, <2>1, <2>2 DEF TypeOK, ForkRecords, Entries
<1> HIDE DEF va, c, f
<1>5. StateInv'
  BY <1>1, <1>2, <1>3, CowAssumption DEF StateInv, StateOK
<1>6. ASSUME NEW d \in Envs PROVE ForkOK(d)'
  <2>1. ForkOK(d)
    BY DEF ForkInv
  <2>2. CASE d = e
    BY <1>1, <1>2, <1>3, <2>1, <2>2 DEF ForkOK, InFork, Child, c, va, Vas
  <2>3. CASE d # e
    BY <1>1, <1>2, <1>3, <2>1, <2>3 DEF ForkOK, InFork, Child
  <2> QED
    BY <2>2, <2>3
<1>7. ASSUME NEW d \in Envs PROVE CopyOK(d)'
  <2>1. CopyOK(d)
    BY DEF CopyInv
  <2>2. CASE d # e /\ fork[d].at \in {"utemp", "copy", "unmap"}
    <3>1. Child(d) \in Envs /\ Child(d) # c /\ Child(d) # e /\ fork[d].pn \in Vas
      BY <1>2, <2>2, WhileCopying DEF InFork
    <3>2. pt[e][va].frame # pt[Child(d)][fork[d].pn].frame
      BY <1>2, <2>1, <2>2, <3>1 DEF CopyOK
    <3> QED
      BY <1>1, <1>3, <2>1, <2>2, <3>1, <3>2 DEF CopyOK, Child, f
  <2>3. CASE ~(d # e /\ fork[d].at \in {"utemp", "copy", "unmap"})
    BY <1>1, <1>3, <2>1, <2>3 DEF CopyOK
  <2> QED
    BY <2>2, <2>3
<1>8. ASSUME NEW d \in Envs PROVE FaultOK(d)'
  <2>1. FaultOK(d)
    BY DEF FaultInv
  <2>2. temp[d].pftemp # NoFrame => temp[d].pftemp # f
    <3>1. fault[e].at = "idle"
      BY DEF DupCow, Forks, Runs, NotFaulting
    <3> QED
      BY <1>2, <2>1, <3>1 DEF FaultOK, f
  <2>3. fault[d].at # "idle" => d # c /\ fault[d].va \in Vas
    BY <1>2, <2>1 DEF FaultOK, NotFaulting, TypeOK
  <2> QED
    BY <1>1, <1>3, <2>1, <2>2, <2>3 DEF FaultOK
<1>9. Alone'
  <2> SUFFICES ASSUME NEW d \in Envs, NEW x \in Vas, NEW b \in Envs, NEW y \in Vas,
                      pt'[d][x].perm = "W", pt'[b][y].frame = pt'[d][x].frame
               PROVE  \/ b = d /\ y = x
                      \/ b = Child(d)' /\ y = x /\ fork'[d].at = "remap" /\ fork'[d].pn = x
    BY DEF Alone
  <2>1. pt'[d][x] = pt[d][x]
    BY <1>3
  <2>2. CASE b = c /\ y = va
    <3>1. pt[e][va].frame = pt[d][x].frame /\ pt[d][x].perm = "W"
      BY <1>3, <2>1, <2>2 DEF f
    <3>2. \/ e = d /\ va = x
          \/ e = Child(d) /\ va = x /\ fork[d].at = "remap" /\ fork[d].pn = x
      BY <1>2, <3>1 DEF Alone
    <3>3. d = e /\ x = va
      BY <1>1, <1>2, <3>2 DEF InFork, ForkInv, ForkOK
    <3> QED
      BY <1>3, <2>2, <3>3 DEF Child, c, va
  <2>3. CASE ~(b = c /\ y = va)
    BY <1>3, <2>1, <2>3 DEF Alone, Child
  <2> QED
    BY <2>2, <2>3
<1>10. CowHasHandler'
  BY <1>1, <1>2, <1>3 DEF CowHasHandler
<1>11. ASSUME NEW d \in Envs PROVE VersionOK(d)'
  <2>1. VersionOK(d) /\ VersionOK(e) /\ version = "fork"
    BY DEF VersionInv, VersionOK, TypeOK, DupCow, Forks
  <2> QED
    BY <1>1, <1>3, <2>1 DEF VersionOK, InFork, Child
<1> QED
  BY <1>4, <1>5, <1>6, <1>7, <1>8, <1>9, <1>10, <1>11 DEF ForkInv, CopyInv, FaultInv, VersionInv

LEMMA DupCowRemapStep ==
    ASSUME CowInv, version' = version, NEW e \in Envs, DupCow(e), fork[e].at = "remap"
    PROVE  CowInv'
<1> DEFINE va == fork[e].pn
           f == pt[e][va].frame
           next == NextPage(fork[e], "map", "upcall")
<1>1. /\ state[e] = "alive" /\ pt[e][va].perm \in {"W", "COW"}
      /\ pt' = [pt EXCEPT ![e][va] = [frame |-> f, perm |-> "COW"]]
      /\ fork' = [fork EXCEPT ![e] = next]
      /\ UNCHANGED <<state, temp, content, fault, upcall>>
  BY DEF DupCow, DupTarget, Forks, Runs, Child
<1>2. /\ va \in Vas /\ f \in Frames /\ InFork(e) /\ fault[e].at = "idle"
      /\ \A d \in Envs : InFork(d) => Child(d) # e
  BY <1>1, PageFacts DEF DupCow, Forks, Runs, NotFaulting
<1>3. /\ next \in ForkRecords /\ next.child = fork[e].child /\ next.pn = va + 1
      /\ next.at \in {"map", "upcall"} /\ (next.at \in {"upcall", "start"} <=> next.pn = Stack + 1)
  BY <1>2, NextPageFacts DEF TypeOK, ForkRecords
<1> HIDE DEF next
<1>4. /\ \A d \in Envs, x \in Vas :
            pt'[d][x] = IF d = e /\ x = va THEN [frame |-> f, perm |-> "COW"] ELSE pt[d][x]
      /\ \A d \in Envs : fork'[d] = IF d = e THEN next ELSE fork[d]
  BY <1>1, <1>2 DEF TypeOK
<1>5. TypeOK'
  <2>1. fork' \in [Envs -> ForkRecords]
    BY <1>1, <1>3 DEF TypeOK, ForkRecords
  <2>2. pt' \in [Envs -> [Vas -> Entries]]
    BY <1>1, <1>2 DEF TypeOK, Entries, Perms
  <2> QED
    BY <1>1, <2>1, <2>2 DEF TypeOK, ForkRecords, Entries
<1> HIDE DEF va, f
<1>6. StateInv'
  BY <1>1, <1>2, <1>4, CowAssumption DEF StateInv, StateOK, f
<1>7. ASSUME NEW d \in Envs PROVE ForkOK(d)'
  <2>1. ForkOK(d)
    BY DEF ForkInv
  <2>2. CASE d = e
    <3>1. \A x \in Vas : x < va + 1 <=> x < va \/ x = va
      BY <1>2 DEF Vas
    <3>2. next.at # "idle" /\ next.at \notin {"remap", "utemp", "copy", "unmap"}
      BY <1>3
    <3>3. Child(e) \in Envs /\ Child(e) # e /\ Child(e)' = Child(e)
      BY <1>2, <1>3, <1>4, <2>1, <2>2 DEF ForkOK, InFork, Child
    <3>4. \A x \in Vas : pt[Child(e)][x].perm # "none" <=> x < va + 1
      BY <1>2, <2>1, <2>2, <3>1 DEF ForkOK, InFork, va
    <3> QED
      BY <1>1, <1>2, <1>3, <1>4, <2>1, <2>2, <3>2, <3>3, <3>4 DEF ForkOK, InFork, Child
  <2>3. CASE d # e
    BY <1>1, <1>2, <1>3, <1>4, <2>1, <2>3 DEF ForkOK, InFork, Child
  <2> QED
    BY <2>2, <2>3
<1>8. ASSUME NEW d \in Envs PROVE CopyOK(d)'
  <2>1. CASE fork[d].at \in {"utemp", "copy", "unmap"}
    <3>1. d # e /\ Child(d) \in Envs /\ Child(d) # e /\ fork[d].pn \in Vas
      BY <1>2, <2>1, WhileCopying DEF InFork
    <3> QED
      BY <1>1, <1>4, <2>1, <3>1 DEF CopyInv, CopyOK, Child, f
  <2>2. CASE fork[d].at \notin {"utemp", "copy", "unmap"}
    BY <1>1, <1>3, <1>4, <2>2 DEF CopyInv, CopyOK
  <2> QED
    BY <2>1, <2>2
<1>9. ASSUME NEW d \in Envs PROVE FaultOK(d)'
  <2>1. fault[d].at # "idle" => d # e /\ fault[d].va \in Vas
    BY <1>2 DEF FaultInv, FaultOK, TypeOK
  <2> QED
    BY <1>1, <1>2, <1>4, <2>1 DEF FaultInv, FaultOK, f
<1>10. Alone'
  <2> SUFFICES ASSUME NEW d \in Envs, NEW x \in Vas, NEW b \in Envs, NEW y \in Vas,
                      pt'[d][x].perm = "W", pt'[b][y].frame = pt'[d][x].frame
               PROVE  \/ b = d /\ y = x
                      \/ b = Child(d)' /\ y = x /\ fork'[d].at = "remap" /\ fork'[d].pn = x
    BY DEF Alone
  <2>1. pt'[d][x] = pt[d][x] /\ ~(d = e /\ x = va) /\ pt'[b][y].frame = pt[b][y].frame
    BY <1>4 DEF f
  <2>2. \/ b = d /\ y = x
        \/ b = Child(d) /\ y = x /\ fork[d].at = "remap" /\ fork[d].pn = x
    BY <2>1 DEF Alone
  <2> QED
    BY <1>4, <2>1, <2>2 DEF Child, va
<1>11. CowHasHandler'
  <2>1. upcall[e]
    BY <1>2 DEF VersionInv, VersionOK, TypeOK, DupCow, Forks
  <2> QED
    BY <1>1, <1>4, <2>1 DEF CowHasHandler
<1>12. ASSUME NEW d \in Envs PROVE VersionOK(d)'
  <2>1. VersionOK(d) /\ VersionOK(e) /\ version = "fork"
    BY DEF VersionInv, VersionOK, TypeOK, DupCow, Forks
  <2> QED
    BY <1>1, <1>2, <1>3, <1>4, <2>1 DEF VersionOK, InFork, Child
<1> QED
  BY <1>5, <1>6, <1>7, <1>8, <1>9, <1>10, <1>11, <1>12 DEF ForkInv, CopyInv, FaultInv, VersionInv

\* A page that may not be written is shared, in both versions.
LEMMA ShareStep ==
    ASSUME CowInv, version' = version, NEW e \in Envs, DupShared(e) \/ V0Share(e)
    PROVE  CowInv'
<1> DEFINE va == fork[e].pn
           c == Child(e)
           f == pt[e][va].frame
           loop == IF DupShared(e) THEN "map" ELSE "share"
           next == NextPage(fork[e], loop, IF DupShared(e) THEN "upcall" ELSE "start")
<1>1. /\ state[e] = "alive" /\ fault[e] = NotFaulting /\ fork[e].at = loop
      /\ pt[e][va].perm # "W"
      /\ UNCHANGED <<state, temp, content, fault, upcall>>
  BY DEF DupShared, V0Share, Forks, Runs
<1>2. /\ va \in Vas /\ c \in Envs /\ c # e /\ state[c] = "building" /\ f \in Frames
      /\ InFork(e) /\ fork[c] = NotForking /\ fault[c] = NotFaulting
      /\ pt[c][va].perm = "none"
      /\ \A d \in Envs : d # e /\ InFork(d) => Child(d) # c /\ Child(d) # e
  BY <1>1, PageFacts
<1>3. /\ pt' = [pt EXCEPT ![c][va] = [frame |-> f, perm |-> "RO"]]
      /\ fork' = [fork EXCEPT ![e] = next]
  <2>1. CASE DupShared(e)
    <3>1. pt[e][va] = [frame |-> f, perm |-> "RO"]
      BY <1>2, <2>1 DEF DupShared, TypeOK
    <3> QED
      BY <2>1, <3>1 DEF DupShared, Child
  <2>2. CASE V0Share(e) /\ ~DupShared(e)
    BY <2>2 DEF V0Share, Child
  <2> QED
    BY <2>1, <2>2
<1>4. /\ next \in ForkRecords /\ next.child = fork[e].child /\ next.pn = va + 1
      /\ next.at \in {loop, IF loop = "map" THEN "upcall" ELSE "start"}
      /\ (next.at \in {"upcall", "start"} <=> next.pn = Stack + 1)
  BY <1>2, NextPageFacts DEF TypeOK, ForkRecords
<1>5. loop \in {"map", "share"}
  OBVIOUS
<1> HIDE DEF next, loop
<1>6. /\ \A d \in Envs, x \in Vas :
            pt'[d][x] = IF d = c /\ x = va THEN [frame |-> f, perm |-> "RO"] ELSE pt[d][x]
      /\ \A d \in Envs : fork'[d] = IF d = e THEN next ELSE fork[d]
  BY <1>2, <1>3 DEF TypeOK
<1>7. TypeOK'
  <2>1. fork' \in [Envs -> ForkRecords]
    BY <1>3, <1>4 DEF TypeOK, ForkRecords
  <2>2. pt' \in [Envs -> [Vas -> Entries]]
    BY <1>2, <1>3 DEF TypeOK, Entries, Perms
  <2> QED
    BY <1>1, <2>1, <2>2 DEF TypeOK, ForkRecords, Entries
<1> HIDE DEF va, c, f
<1>8. StateInv'
  BY <1>1, <1>2, <1>6, CowAssumption DEF StateInv, StateOK
<1>9. ASSUME NEW d \in Envs PROVE ForkOK(d)'
  <2>1. ForkOK(d)
    BY DEF ForkInv
  <2>2. CASE d = e
    <3>1. \A x \in Vas : x < va + 1 <=> x < va \/ x = va
      BY <1>2 DEF Vas
    <3>2. next.at # "idle" /\ next.at \notin {"remap", "utemp", "copy", "unmap"}
      BY <1>4, <1>5
    <3>3. fork[e].at \notin {"remap", "utemp", "copy", "unmap"}
      BY <1>1, <1>5
    <3>4. \A x \in Vas : pt'[c][x].perm # "none" <=> x < va + 1
      BY <1>2, <1>6, <2>1, <2>2, <3>1, <3>3 DEF ForkOK, InFork, va, c
    <3>5. Child(e)' = c
      BY <1>4, <1>6 DEF Child, c
    <3> QED
      BY <1>1, <1>2, <1>4, <1>6, <2>1, <2>2, <3>2, <3>4, <3>5 DEF ForkOK, InFork, Child, c
  <2>3. CASE d # e
    BY <1>1, <1>2, <1>4, <1>6, <2>1, <2>3 DEF ForkOK, InFork, Child
  <2> QED
    BY <2>2, <2>3
<1>10. ASSUME NEW d \in Envs PROVE CopyOK(d)'
  <2>1. CopyOK(d)
    BY DEF CopyInv
  <2>2. CASE d # e /\ fork[d].at \in {"utemp", "copy", "unmap"}
    <3>1. Child(d) \in Envs /\ Child(d) # c /\ Child(d) # e /\ fork[d].pn \in Vas
      BY <1>2, <2>2, WhileCopying DEF InFork
    <3>2. pt[e][va].frame # pt[Child(d)][fork[d].pn].frame
      BY <1>2, <2>1, <2>2, <3>1 DEF CopyOK
    <3>3. /\ fork'[d] = fork[d] /\ temp'[d] = temp[d]
          /\ \A x \in Vas : pt'[Child(d)][x] = pt[Child(d)][x]
          /\ \A b \in Envs, x \in Vas : pt'[b][x].frame = pt[b][x].frame
                                        \/ pt'[b][x].frame = pt[e][va].frame
      BY <1>1, <1>6, <2>2, <3>1 DEF f
    <3> QED
      BY <2>1, <2>2, <3>1, <3>2, <3>3 DEF CopyOK, Child
  <2>3. CASE d # e /\ fork[d].at \notin {"utemp", "copy", "unmap"}
    BY <1>1, <1>6, <2>1, <2>3 DEF CopyOK
  <2>4. CASE d = e
    BY <1>1, <1>4, <1>5, <1>6, <2>1, <2>4 DEF CopyOK
  <2> QED
    BY <2>2, <2>3, <2>4
<1>11. ASSUME NEW d \in Envs PROVE FaultOK(d)'
  <2>1. FaultOK(d)
    BY DEF FaultInv
  <2>2. temp[d].pftemp # NoFrame => temp[d].pftemp # f
    BY <1>1, <1>2, <2>1 DEF FaultOK, f, NotFaulting
  <2>3. fault[d].at # "idle" => d # c /\ fault[d].va \in Vas
    BY <1>2, <2>1 DEF FaultOK, NotFaulting, TypeOK
  <2> QED
    BY <1>1, <1>6, <2>1, <2>2, <2>3 DEF FaultOK
<1>12. Alone'
  <2> SUFFICES ASSUME NEW d \in Envs, NEW x \in Vas, NEW b \in Envs, NEW y \in Vas,
                      pt'[d][x].perm = "W", pt'[b][y].frame = pt'[d][x].frame
               PROVE  \/ b = d /\ y = x
                      \/ b = Child(d)' /\ y = x /\ fork'[d].at = "remap" /\ fork'[d].pn = x
    BY DEF Alone
  <2>1. pt'[d][x] = pt[d][x]
    BY <1>6
  <2>2. d = e => ~(fork[d].at = "remap")
    BY <1>1, <1>5
  <2>3. CASE b = c /\ y = va
    <3>1. pt[e][va].frame = pt[d][x].frame /\ pt[d][x].perm = "W"
      BY <1>6, <2>1, <2>3 DEF f
    <3>2. \/ e = d /\ va = x
          \/ e = Child(d) /\ va = x /\ fork[d].at = "remap" /\ fork[d].pn = x
      BY <1>2, <3>1 DEF Alone
    <3> QED
      BY <1>1, <1>2, <3>1, <3>2 DEF InFork, ForkInv, ForkOK, va
  <2>4. CASE ~(b = c /\ y = va)
    BY <1>6, <2>1, <2>2, <2>4 DEF Alone, Child
  <2> QED
    BY <2>3, <2>4
<1>13. CowHasHandler'
  BY <1>1, <1>2, <1>6 DEF CowHasHandler
<1>14. ASSUME NEW d \in Envs PROVE VersionOK(d)'
  <2>1. VersionOK(d) /\ VersionOK(e)
    BY DEF VersionInv
  <2>2. CASE d = e
    <3>1. version = "fork" => loop = "map"
      BY <1>1, <1>5, <2>1 DEF VersionOK
    <3>2. version = "fork_v0" => loop = "share"
      BY <1>1, <1>5, <2>1 DEF VersionOK
    <3>3. version = "fork" => next.at \in {"map", "upcall"}
      BY <1>4, <3>1
    <3>4. version = "fork_v0" => next.at \in {"share", "start"}
      BY <1>4, <3>2
    <3> QED
      BY <1>1, <1>2, <1>6, <2>1, <2>2, <3>3, <3>4 DEF VersionOK, InFork
  <2>3. CASE d # e
    BY <1>1, <1>6, <2>1, <2>3 DEF VersionOK, InFork, Child
  <2> QED
    BY <2>2, <2>3
<1> QED
  BY <1>7, <1>8, <1>9, <1>10, <1>11, <1>12, <1>13, <1>14 DEF ForkInv, CopyInv, FaultInv, VersionInv

\* The child's own page was free.
LEMMA V0AllocStep ==
    ASSUME CowInv, version' = version, NEW e \in Envs, V0Alloc(e)
    PROVE  CowInv'
<1> DEFINE va == fork[e].pn
           c == Child(e)
<1>1. PICK f \in FreeFrames :
        /\ state[e] = "alive" /\ fork[e].at = "share"
        /\ pt' = [pt EXCEPT ![c][va] = [frame |-> f, perm |-> "W"]]
        /\ content' = [content EXCEPT ![f] = Zero]
        /\ fork' = [fork EXCEPT ![e].at = "utemp"]
        /\ UNCHANGED <<state, temp, fault, upcall>>
  BY DEF V0Alloc, Forks, Runs, Child
<1>2. /\ f \in Frames /\ f # NoFrame
      /\ \A d \in Envs, x \in Vas : pt[d][x].frame # f
      /\ \A d \in Envs : temp[d].pftemp # f /\ temp[d].utemp # f
  BY CowAssumption DEF FreeFrames, Temps
<1>3. /\ va \in Vas /\ c \in Envs /\ c # e /\ state[c] = "building"
      /\ InFork(e) /\ fork[c] = NotForking /\ fault[c] = NotFaulting
      /\ \A d \in Envs : d # e /\ InFork(d) => Child(d) # c /\ Child(d) # e
  BY <1>1, PageFacts
<1>4. /\ \A d \in Envs, x \in Vas :
            pt'[d][x] = IF d = c /\ x = va THEN [frame |-> f, perm |-> "W"] ELSE pt[d][x]
      /\ \A d \in Envs : /\ fork'[d].child = fork[d].child /\ fork'[d].pn = fork[d].pn
                         /\ fork'[d].at = IF d = e THEN "utemp" ELSE fork[d].at
                         /\ d # e => fork'[d] = fork[d]
      /\ \A g \in Frames : g # f => content'[g] = content[g]
  BY <1>1, <1>3 DEF TypeOK
<1>5. TypeOK'
  <2>1. fork' \in [Envs -> ForkRecords]
    BY <1>1, GotoType
  <2>2. pt' \in [Envs -> [Vas -> Entries]]
    BY <1>1, <1>2, <1>3 DEF TypeOK, Entries, Perms
  <2>3. content' \in [Frames -> Values]
    BY <1>1, CowAssumption DEF TypeOK
  <2> QED
    BY <1>1, <2>1, <2>2, <2>3 DEF TypeOK, ForkRecords, Entries
<1> HIDE DEF va, c
<1>6. StateInv'
  BY <1>1, <1>2, <1>3, <1>4 DEF StateInv, StateOK
<1>7. ASSUME NEW d \in Envs PROVE ForkOK(d)'
  <2>1. ForkOK(d)
    BY DEF ForkInv
  <2>2. CASE d = e
    <3>1. \A x \in Vas : pt'[c][x].perm # "none" <=> x < va \/ x = va
      BY <1>1, <1>3, <1>4, <2>1, <2>2 DEF ForkOK, InFork, va, c
    <3> QED
      BY <1>1, <1>3, <1>4, <2>1, <2>2, <3>1 DEF ForkOK, InFork, Child, c, va
  <2>3. CASE d # e
    BY <1>1, <1>3, <1>4, <2>1, <2>3 DEF ForkOK, InFork, Child
  <2> QED
    BY <2>2, <2>3
<1>8. ASSUME NEW d \in Envs PROVE CopyOK(d)'
  <2>1. CopyOK(d)
    BY DEF CopyInv
  <2>2. CASE d # e /\ fork[d].at \in {"utemp", "copy", "unmap"}
    <3>1. Child(d) \in Envs /\ Child(d) # c /\ fork[d].pn \in Vas
      BY <1>3, <2>2, WhileCopying DEF InFork
    <3>2. /\ fork'[d] = fork[d] /\ temp'[d] = temp[d]
          /\ \A x \in Vas : pt'[Child(d)][x] = pt[Child(d)][x]
          /\ \A b \in Envs, x \in Vas : pt'[b][x].frame = pt[b][x].frame \/ pt'[b][x].frame = f
      BY <1>1, <1>4, <2>2, <3>1
    <3>3. pt[Child(d)][fork[d].pn].frame # f
      BY <1>2, <3>1
    <3> QED
      BY <2>1, <2>2, <3>1, <3>2, <3>3 DEF CopyOK, Child
  <2>3. CASE d # e /\ fork[d].at \notin {"utemp", "copy", "unmap"}
    BY <1>1, <1>4, <2>1, <2>3, SMTT(20) DEF CopyOK
  <2>4. CASE d = e
    BY <1>1, <1>2, <1>3, <1>4, <2>1, <2>4 DEF CopyOK, Child, c, va
  <2> QED
    BY <2>2, <2>3, <2>4
<1>9. ASSUME NEW d \in Envs PROVE FaultOK(d)'
  <2>1. FaultOK(d)
    BY DEF FaultInv
  <2>2. fault[d].at # "idle" => d # c /\ fault[d].va \in Vas
    BY <1>3, <2>1 DEF FaultOK, NotFaulting, TypeOK
  <2>3. ASSUME fault[d].at = "map"
        PROVE  content'[temp[d].pftemp] = content'[pt'[d][fault[d].va].frame]
    <3>1. temp[d].pftemp \in Frames /\ pt[d][fault[d].va].frame \in Frames
          /\ pt'[d][fault[d].va] = pt[d][fault[d].va]
      BY <1>4, <2>1, <2>2, <2>3 DEF FaultOK, StateInv, StateOK, TypeOK
    <3> QED
      BY <1>2, <1>4, <2>1, <2>2, <2>3, <3>1 DEF FaultOK
  <2> QED
    BY <1>1, <1>2, <1>4, <2>1, <2>2, <2>3 DEF FaultOK
<1>10. Alone'
  <2> SUFFICES ASSUME NEW d \in Envs, NEW x \in Vas, NEW b \in Envs, NEW y \in Vas,
                      pt'[d][x].perm = "W", pt'[b][y].frame = pt'[d][x].frame
               PROVE  \/ b = d /\ y = x
                      \/ b = Child(d)' /\ y = x /\ fork'[d].at = "remap" /\ fork'[d].pn = x
    BY DEF Alone
  <2>1. CASE d = c /\ x = va
    BY <1>2, <1>4, <2>1
  <2>2. CASE ~(d = c /\ x = va)
    BY <1>1, <1>2, <1>4, <2>2 DEF Alone, Child
  <2> QED
    BY <2>1, <2>2
<1>11. CowHasHandler'
  BY <1>1, <1>3, <1>4 DEF CowHasHandler
<1>12. ASSUME NEW d \in Envs PROVE VersionOK(d)'
  BY <1>1, <1>4 DEF VersionInv, VersionOK, InFork, Child
<1> QED
  BY <1>5, <1>6, <1>7, <1>8, <1>9, <1>10, <1>11, <1>12 DEF ForkInv, CopyInv, FaultInv, VersionInv

\* The page at UTEMP is the child's new one.
LEMMA V0MapStep ==
    ASSUME CowInv, version' = version, NEW e \in Envs, V0Map(e)
    PROVE  CowInv'
<1> DEFINE f == pt[Child(e)][fork[e].pn].frame
<1>1. /\ state[e] = "alive" /\ fork[e].at = "utemp"
      /\ temp' = [temp EXCEPT ![e].utemp = f]
      /\ fork' = [fork EXCEPT ![e].at = "copy"]
      /\ UNCHANGED <<state, pt, content, fault, upcall>>
  BY DEF V0Map, Forks, Runs, Child
<1>2. fork[e].pn \in Vas /\ Child(e) \in Envs /\ f \in Frames \cup {NoFrame}
  <2>1. fork[e].pn \in Vas /\ Child(e) \in Envs
    BY <1>1, PageFacts
  <2> QED
    BY <2>1 DEF TypeOK
<1>3. \A d \in Envs : /\ fork'[d].child = fork[d].child /\ fork'[d].pn = fork[d].pn
                      /\ fork'[d].at = IF d = e THEN "copy" ELSE fork[d].at
                      /\ temp'[d].pftemp = temp[d].pftemp
                      /\ temp'[d].utemp = IF d = e THEN f ELSE temp[d].utemp
                      /\ d # e => fork'[d] = fork[d] /\ temp'[d] = temp[d]
  BY <1>1 DEF TypeOK
<1>4. TypeOK'
  <2>1. fork' \in [Envs -> ForkRecords]
    BY <1>1, GotoType
  <2>2. temp' \in [Envs -> TempRecords]
    BY <1>1, <1>2, TempType
  <2> QED
    BY <1>1, <2>1, <2>2 DEF TypeOK, ForkRecords, TempRecords
<1>5. StateInv' /\ ForkInv'
  <2>1. StateInv'
    BY <1>1, <1>3 DEF StateInv, StateOK, Child
  <2>2. ForkInv'
    BY <1>1, <1>3, SMTT(20) DEF ForkInv, ForkOK, InFork, Child
  <2> QED
    BY <2>1, <2>2
<1>6. CopyInv' /\ FaultInv'
  BY <1>1, <1>3 DEF CopyInv, CopyOK, FaultInv, FaultOK, Child
<1>7. Alone' /\ CowHasHandler' /\ VersionInv'
  BY <1>1, <1>3 DEF Alone, CowHasHandler, VersionInv, VersionOK, InFork, Child
<1> QED
  BY <1>4, <1>5, <1>6, <1>7

LEMMA V0CopyStep ==
    ASSUME CowInv, version' = version, NEW e \in Envs, V0Copy(e)
    PROVE  CowInv'
<1> DEFINE f == temp[e].utemp
           g == pt[e][fork[e].pn].frame
<1>1. /\ state[e] = "alive" /\ fork[e].at = "copy"
      /\ content' = [content EXCEPT ![f] = content[g]]
      /\ fork' = [fork EXCEPT ![e].at = "unmap"]
      /\ UNCHANGED <<state, pt, temp, fault, upcall>>
  BY DEF V0Copy, Forks, Runs
<1>2. /\ fork[e].pn \in Vas /\ Child(e) \in Envs /\ g \in Frames /\ f = pt[Child(e)][fork[e].pn].frame
      /\ fault[Child(e)] = NotFaulting
      /\ \A d \in Envs, x \in Vas : pt[d][x].frame = f => d = Child(e) /\ x = fork[e].pn
  BY <1>1, PageFacts DEF CopyInv, CopyOK
<1>3. /\ \A d \in Envs : /\ fork'[d].child = fork[d].child /\ fork'[d].pn = fork[d].pn
                         /\ fork'[d].at = IF d = e THEN "unmap" ELSE fork[d].at
                         /\ d # e => fork'[d] = fork[d]
      /\ \A x \in Frames : x # f => content'[x] = content[x]
  BY <1>1 DEF TypeOK
<1>4. TypeOK'
  <2>1. fork' \in [Envs -> ForkRecords]
    BY <1>1, GotoType
  <2>2. content' \in [Frames -> Values]
    BY <1>1, <1>2 DEF TypeOK
  <2> QED
    BY <1>1, <2>1, <2>2 DEF TypeOK, ForkRecords
<1>5. StateInv' /\ ForkInv'
  BY <1>1, <1>3 DEF StateInv, StateOK, ForkInv, ForkOK, InFork, Child
<1>6. CopyInv'
  BY <1>1, <1>3 DEF CopyInv, CopyOK, Child
<1>7. ASSUME NEW d \in Envs PROVE FaultOK(d)'
  <2>1. FaultOK(d)
    BY DEF FaultInv
  <2>2. ASSUME fault[d].at = "map"
        PROVE  content'[temp[d].pftemp] = content'[pt[d][fault[d].va].frame]
    <3>1. fault[d].va \in Vas /\ temp[d].pftemp \in Frames /\ d # Child(e)
      BY <1>2, <2>1, <2>2 DEF FaultOK, TypeOK, NotFaulting
    <3>2. pt[d][fault[d].va].frame \in Frames /\ pt[d][fault[d].va].frame # f
      BY <1>2, <2>1, <2>2, <3>1 DEF FaultOK, StateInv, StateOK, TypeOK
    <3>3. temp[d].pftemp # f
      BY <1>2, <2>1, <2>2, <3>1 DEF FaultOK
    <3> QED
      BY <1>3, <2>1, <2>2, <3>1, <3>2, <3>3 DEF FaultOK
  <2> QED
    BY <1>1, <2>1, <2>2 DEF FaultOK
<1>8. Alone' /\ CowHasHandler' /\ VersionInv'
  BY <1>1, <1>3 DEF Alone, CowHasHandler, VersionInv, VersionOK, InFork, Child
<1> QED
  BY <1>4, <1>5, <1>6, <1>7, <1>8 DEF FaultInv

LEMMA V0UnmapStep ==
    ASSUME CowInv, version' = version, NEW e \in Envs, V0Unmap(e)
    PROVE  CowInv'
<1> DEFINE va == fork[e].pn
           next == NextPage(fork[e], "share", "start")
<1>1. /\ state[e] = "alive" /\ fork[e].at = "unmap"
      /\ temp' = [temp EXCEPT ![e].utemp = NoFrame]
      /\ fork' = [fork EXCEPT ![e] = next]
      /\ UNCHANGED <<state, pt, content, fault, upcall>>
  BY DEF V0Unmap, Forks, Runs
<1>2. va \in Vas /\ Child(e) \in Envs /\ InFork(e)
  BY <1>1, PageFacts
<1>3. /\ next \in ForkRecords /\ next.child = fork[e].child /\ next.pn = va + 1
      /\ next.at \in {"share", "start"} /\ (next.at \in {"upcall", "start"} <=> next.pn = Stack + 1)
  BY <1>2, NextPageFacts DEF TypeOK, ForkRecords
<1> HIDE DEF next
<1>4. \A d \in Envs : /\ fork'[d] = IF d = e THEN next ELSE fork[d]
                      /\ temp'[d].pftemp = temp[d].pftemp
                      /\ temp'[d].utemp = IF d = e THEN NoFrame ELSE temp[d].utemp
                      /\ d # e => temp'[d] = temp[d]
  BY <1>1 DEF TypeOK
<1>5. TypeOK'
  <2>1. fork' \in [Envs -> ForkRecords]
    BY <1>1, <1>3 DEF TypeOK, ForkRecords
  <2>2. temp' \in [Envs -> TempRecords]
    BY <1>1, TempType
  <2> QED
    BY <1>1, <2>1, <2>2 DEF TypeOK, ForkRecords, TempRecords
<1>6. StateInv'
  BY <1>1, <1>4 DEF StateInv, StateOK
<1>7. ASSUME NEW d \in Envs PROVE ForkOK(d)'
  <2>1. ForkOK(d)
    BY DEF ForkInv
  <2>2. CASE d = e
    <3>1. \A x \in Vas : x < va + 1 <=> x < va \/ x = va
      BY <1>2 DEF Vas
    <3>2. next.at # "idle" /\ next.at \notin {"remap", "utemp", "copy", "unmap"}
      BY <1>3
    <3>3. \A x \in Vas : pt[Child(e)][x].perm # "none" <=> x < va + 1
      BY <1>1, <1>2, <2>1, <2>2, <3>1 DEF ForkOK
    <3> QED
      BY <1>1, <1>2, <1>3, <1>4, <2>1, <2>2, <3>2, <3>3 DEF ForkOK, InFork, Child
  <2>3. CASE d # e
    BY <1>1, <1>3, <1>4, <2>1, <2>3 DEF ForkOK, InFork, Child
  <2> QED
    BY <2>2, <2>3
<1>8. ASSUME NEW d \in Envs PROVE CopyOK(d)'
  BY <1>1, <1>3, <1>4 DEF CopyInv, CopyOK, Child
<1>9. FaultInv'
  BY <1>1, <1>4 DEF FaultInv, FaultOK
<1>10. Alone' /\ CowHasHandler'
  BY <1>1, <1>3, <1>4 DEF Alone, CowHasHandler, Child
<1>11. ASSUME NEW d \in Envs PROVE VersionOK(d)'
  <2>1. VersionOK(d) /\ VersionOK(e) /\ version = "fork_v0"
    BY <1>1 DEF VersionInv, VersionOK, TypeOK
  <2> QED
    BY <1>1, <1>3, <1>4, <2>1 DEF VersionOK
<1> QED
  BY <1>5, <1>6, <1>7, <1>8, <1>9, <1>10, <1>11 DEF ForkInv, CopyInv, VersionInv

-----------------------------------------------------------------------------
(* The invariant holds.                                                    *)

LEMMA CowInit == Init => CowInv
<1> SUFFICES ASSUME Init PROVE CowInv
  OBVIOUS
<1>1. PICK first \in Envs, frame \in [Vas -> Frames] :
    /\ \A va, vb \in Vas : frame[va] = frame[vb] => va = vb
    /\ version \in {"fork", "fork_v0"}
    /\ state = [e \in Envs |-> IF e = first THEN "alive" ELSE "free"]
    /\ pt = [e \in Envs |-> [va \in Vas |->
                IF e = first THEN [frame |-> frame[va], perm |-> IF va = Text THEN "RO" ELSE "W"]
                ELSE Unmapped]]
    /\ temp = [e \in Envs |-> NoTemp]
    /\ content \in [Frames -> Values]
    /\ fork = [e \in Envs |-> NotForking]
    /\ fault = [e \in Envs |-> NotFaulting]
    /\ upcall = [e \in Envs |-> FALSE]
  BY CowAssumption DEF Init, Written
<1>2. /\ \A va \in Vas : /\ frame[va] \in Frames /\ frame[va] # NoFrame
                         /\ pt[first][va].frame = frame[va] /\ pt[first][va].perm \in {"RO", "W"}
      /\ \A e \in Envs, va \in Vas : e # first => pt[e][va] = Unmapped
  BY <1>1, CowAssumption
<1>3. TypeOK
  <2>1. NotForking \in ForkRecords /\ NotFaulting \in FaultRecords /\ NoTemp \in TempRecords
    BY CowAssumption DEF NotForking, ForkRecords, Stack, NotFaulting, FaultRecords, NoTemp, TempRecords
  <2>2. pt \in [Envs -> [Vas -> Entries]]
    BY <1>1 DEF Entries, Unmapped, Perms
  <2> QED
    BY <1>1, <2>1, <2>2 DEF TypeOK, ForkRecords, FaultRecords, TempRecords, Entries
<1>4. StateInv
  BY <1>1, <1>2 DEF StateInv, StateOK, Unmapped
<1>5. ForkInv /\ CopyInv /\ FaultInv /\ VersionInv
  BY <1>1, <1>2 DEF ForkInv, ForkOK, CopyInv, CopyOK, FaultInv, FaultOK, VersionInv, VersionOK, InFork,
                    NotForking, NotFaulting, NoTemp, Unmapped
<1>6. Alone /\ CowHasHandler
  BY <1>1, <1>2 DEF Alone, CowHasHandler, Unmapped
<1> QED
  BY <1>3, <1>4, <1>5, <1>6

LEMMA CowStep == CowInv /\ [Next]_vars => CowInv'
<1> SUFFICES ASSUME CowInv, [Next]_vars PROVE CowInv'
  OBVIOUS
<1>1. CASE UNCHANGED vars
  BY <1>1 DEF vars, TypeOK, StateInv, StateOK, ForkInv, ForkOK, CopyInv, CopyOK, FaultInv, FaultOK,
              Alone, CowHasHandler, VersionInv, VersionOK, InFork, Child
<1>2. CASE Next
  <2>1. version' = version
    BY <1>2 DEF Next
  <2>2. PICK e \in Envs : Step(e)
    BY <1>2 DEF Next
  <2>3. CASE \E va \in Vas, v \in Written : Write(e, va, v)
    BY <2>1, <2>3, WriteStep
  <2>4. CASE \E va \in Vas : WriteFault(e, va)
    <3>1. PICK va \in Vas : WriteFault(e, va)
      BY <2>4
    <3>2. CASE upcall[e]
      BY <2>1, <3>1, <3>2, EnterFaultStep
    <3>3. CASE ~upcall[e]
      BY <2>1, <3>1, <3>3, KilledStep DEF WriteFault, Writes, Runs
    <3> QED
      BY <3>2, <3>3
  <2>5. CASE FaultAlloc(e) \/ FaultCopy(e) \/ FaultMap(e) \/ FaultUnmap(e)
    BY <2>1, <2>5, FaultAllocStep, FaultCopyStep, FaultMapStep, FaultUnmapStep
  <2>6. CASE \E child \in Envs : ForkBegin(e, child) \/ ForkV0Begin(e, child)
    BY <2>1, <2>6, BeginStep
  <2>7. CASE V0Step(e)
    BY <2>1, <2>7, ShareStep, V0AllocStep, V0MapStep, V0CopyStep, V0UnmapStep DEF V0Step
  <2>8. CASE DupCow(e)
    <3>1. fork[e].at \in {"map", "remap"}
      BY <2>8 DEF DupCow, Forks
    <3> QED
      BY <2>1, <2>8, <3>1, DupCowMapStep, DupCowRemapStep
  <2>9. CASE DupShared(e) \/ ForkUpcall(e) \/ ForkEnd(e)
    BY <2>1, <2>9, ShareStep, ForkUpcallStep, ForkEndStep
  <2>10. CASE Exit(e)
    BY <2>1, <2>10, KilledStep DEF Exit
  <2> QED
    BY <2>2, <2>3, <2>4, <2>5, <2>6, <2>7, <2>8, <2>9, <2>10 DEF Step
<1> QED
  BY <1>1, <1>2

LEMMA CowInvHolds == Spec => []CowInv
<1> QED
  BY CowInit, CowStep, PTL DEF Spec

\* Nobody writes what another maps, shared pages have a handler that copies
\* them, and the copies being made are one's own, however many environments
\* share pages (fork, fork_v0, duppage, pgfault).
THEOREM SharingStaysSafe == Spec => []SharingSafe
<1> QED
  BY CowInvHolds, CowInvIsSafe, PTL

-----------------------------------------------------------------------------
(* Every environment sees a memory of its own.                             *)

\* The child of p has its page va, in Given's sense.
Shows(p, va) ==
    /\ pt[Child(p)][va].perm # "none"
    /\ fork[p].pn = va => fork[p].at \notin {"utemp", "copy"}
    /\ pt[p][va].perm = "W" => pt[p][va].frame # pt[Child(p)][va].frame

\* The variables of PrivateMemory, entry by entry.
BuilderIs ==
    /\ \A p \in Envs : InFork(p) => builder[Child(p)] = p
    /\ \A c \in Envs : (\A p \in Envs : fork[p].child # c) => builder[c] = c
HasIs == \A c \in Envs, va \in Vas :
    Has(c, va) <=> \/ state[c] = "alive"
                   \/ \E p \in Envs : InFork(p) /\ Child(p) = c /\ Shows(p, va)
MemIs == \A c \in Envs, va \in Vas :
    mem[c][va] = IF Has(c, va) THEN content[pt[c][va].frame] ELSE Undefined

\* Nobody else builds the child of p.
LEMMA OneBuilder ==
    ASSUME CowInv, NEW p \in Envs, NEW q \in Envs, fork[p].child = fork[q].child, fork[p].child \in Envs
    PROVE  p = q /\ InFork(p)
BY CowAssumption DEF ForkInv, ForkOK, InFork, Child, NotForking

LEMMA BuilderFacts == CowInv => BuilderIs
<1> SUFFICES ASSUME CowInv PROVE BuilderIs
  OBVIOUS
<1>1. ASSUME NEW p \in Envs, InFork(p) PROVE builder[Child(p)] = p
  <2> DEFINE c == Child(p)
  <2>1. c \in Envs /\ \A q \in Envs : fork[q].child = c => q = p
    BY <1>1, OneBuilder DEF ForkInv, ForkOK, Child
  <2>2. fork[p].child = c
    BY DEF Child
  <2> HIDE DEF c
  <2>3. builder[c] = CHOOSE q \in Envs : fork[q].child = c
    BY <2>1, <2>2 DEF builder
  <2>4. (CHOOSE q \in Envs : fork[q].child = c) \in Envs
        /\ fork[CHOOSE q \in Envs : fork[q].child = c].child = c
    BY <2>2
  <2> QED
    BY <2>1, <2>3, <2>4 DEF c
<1>2. ASSUME NEW c \in Envs, \A p \in Envs : fork[p].child # c PROVE builder[c] = c
  BY <1>2 DEF builder
<1> QED
  BY <1>1, <1>2 DEF BuilderIs

LEMMA HasFacts == CowInv => HasIs
<1> SUFFICES ASSUME CowInv, NEW c \in Envs, NEW va \in Vas
             PROVE  Has(c, va) <=> \/ state[c] = "alive"
                                   \/ \E p \in Envs : InFork(p) /\ Child(p) = c /\ Shows(p, va)
  BY DEF HasIs
<1>1. pt[c][va] # Unmapped <=> pt[c][va].perm # "none"
  <2>1. pt[c][va] = [frame |-> pt[c][va].frame, perm |-> pt[c][va].perm]
    BY DEF TypeOK
  <2> QED
    BY <2>1 DEF StateInv, StateOK, Unmapped
<1>2. CASE state[c] = "alive"
  BY <1>1, <1>2 DEF Has, StateInv, StateOK
<1>3. CASE state[c] = "free"
  BY <1>1, <1>3 DEF Has, StateInv, StateOK, ForkInv, ForkOK
<1>4. CASE state[c] = "building"
  <2>1. Has(c, va) <=> pt[c][va].perm # "none" /\ Given(c, va)
    BY <1>1, <1>4 DEF Has
  <2>2. CASE \E p \in Envs : InFork(p) /\ Child(p) = c
    <3>1. PICK p \in Envs : InFork(p) /\ Child(p) = c
      BY <2>2
    <3>2. builder[c] = p /\ p # c
      BY <1>4, <3>1, BuilderFacts DEF BuilderIs, StateInv, StateOK, InFork, NotForking
    <3>3. Given(c, va) <=> /\ fork[p].pn = va => fork[p].at \notin {"utemp", "copy"}
                           /\ pt[p][va].perm = "W" => pt[p][va].frame # pt[c][va].frame
      BY <3>2 DEF Given
    <3>4. \A q \in Envs : InFork(q) /\ Child(q) = c => q = p
      BY <3>1, OneBuilder DEF Child
    <3> QED
      BY <1>4, <2>1, <3>1, <3>3, <3>4 DEF Shows
  <2>3. CASE ~\E p \in Envs : InFork(p) /\ Child(p) = c
    <3>1. \A p \in Envs : fork[p].child # c
      BY <2>3, CowAssumption DEF ForkInv, ForkOK, InFork, Child, NotForking
    <3>2. builder[c] = c
      BY <3>1, BuilderFacts DEF BuilderIs
    <3> QED
      BY <1>4, <2>1, <2>3, <3>2 DEF Given
  <2> QED
    BY <2>2, <2>3
<1> QED
  BY <1>2, <1>3, <1>4 DEF TypeOK

LEMMA MemFacts == MemIs
BY DEF MemIs, mem

\* ... before and after a step.
LEMMA Views == CowInv /\ CowInv' => BuilderIs /\ BuilderIs' /\ HasIs /\ HasIs' /\ MemIs /\ MemIs'
BY BuilderFacts, HasFacts, MemFacts, PTL

LEMMA MemExcept ==
    ASSUME NEW c \in Envs, NEW va \in Vas, NEW new,
           \A d \in Envs, vb \in Vas : mem'[d][vb] = IF d = c /\ vb = va THEN new ELSE mem[d][vb]
    PROVE  mem' = [mem EXCEPT ![c][va] = new]
<1> DEFINE S == {mem[d][vb] : d \in Envs, vb \in Vas}
           row == [mem[c] EXCEPT ![va] = new]
<1>1. mem \in [Envs -> [Vas -> S]]
  BY DEF mem
<1>2. mem' = [d \in Envs |-> [vb \in Vas |-> mem'[d][vb]]]
  BY DEF mem
<1> HIDE DEF S
<1>3. row = [vb \in Vas |-> IF vb = va THEN new ELSE mem[c][vb]]
  BY <1>1
<1> HIDE DEF row
<1>4. [mem EXCEPT ![c] = row] = [d \in Envs |-> IF d = c THEN row ELSE mem[d]]
  BY <1>1
<1>5. \A d \in Envs : mem[d] = [vb \in Vas |-> mem[d][vb]]
  BY <1>1
<1>6. [mem EXCEPT ![c] = row] = [d \in Envs |-> [vb \in Vas |-> IF d = c /\ vb = va THEN new ELSE mem[d][vb]]]
  BY <1>3, <1>4, <1>5
<1> QED
  BY <1>2, <1>6 DEF row

\* A step that nobody sees.
LEMMA Unseen ==
    ASSUME CowInv, CowInv', state' = state,
           \A p \in Envs : fork'[p].child = fork[p].child,
           \A p \in Envs : InFork(p)' <=> InFork(p),
           \A p \in Envs, va \in Vas : InFork(p) => (Shows(p, va)' <=> Shows(p, va)),
           \A c \in Envs, va \in Vas : Has(c, va) => content'[pt'[c][va].frame] = content[pt[c][va].frame]
    PROVE  UNCHANGED Private!vars
<1>1. BuilderIs /\ BuilderIs' /\ HasIs /\ HasIs' /\ MemIs /\ MemIs'
  BY Views
<1>2. \A c \in Envs, va \in Vas : Has(c, va)' <=> Has(c, va)
  BY <1>1 DEF HasIs, Child
<1>3. mem' = mem
  BY <1>2 DEF mem
<1>4. \A c \in Envs : builder'[c] = builder[c]
  <2>1. ASSUME NEW c \in Envs, NEW p \in Envs, fork[p].child = c PROVE builder'[c] = p /\ builder[c] = p
    BY <1>1, <2>1, OneBuilder DEF BuilderIs, Child
  <2> QED
    BY <1>1, <2>1 DEF BuilderIs
<1>5. builder' = builder
  BY <1>4 DEF builder
<1> QED
  BY <1>3, <1>5 DEF Private!vars

\* A step after which the child of p has the page va of p, and nobody sees
\* anything else.
LEMMA SeenCopied ==
    ASSUME CowInv, CowInv', state' = state,
           \A p \in Envs : fork'[p].child = fork[p].child,
           \A p \in Envs : InFork(p)' <=> InFork(p),
           NEW e \in Envs, NEW va \in Vas, InFork(e), Shows(e, va)', ~Shows(e, va),
           \A p \in Envs, vb \in Vas : InFork(p) /\ (p # e \/ vb # va) => (Shows(p, vb)' <=> Shows(p, vb)),
           \A c \in Envs, vb \in Vas : Has(c, vb) => content'[pt'[c][vb].frame] = content[pt[c][vb].frame],
           content'[pt'[Child(e)][va].frame] = content[pt[e][va].frame]
    PROVE  Private!Copy(Child(e), va)
<1>1. BuilderIs /\ BuilderIs' /\ HasIs /\ HasIs' /\ MemIs /\ MemIs'
  BY Views
<1>2. PICK c \in Envs : c = Child(e) /\ state[c] = "building" /\ state[e] = "alive" /\ builder[c] = e
  BY <1>1 DEF ForkInv, ForkOK, StateInv, StateOK, InFork, NotForking, BuilderIs
<1>3. c = Child(e) /\ c = Child(e)' /\ \A p \in Envs : Child(p) = c => p = e
  BY <1>2, OneBuilder DEF Child
<1>4. Has(e, va) /\ ~Has(c, va) /\ Has(c, va)'
  <2>1. Has(e, va)
    BY <1>1, <1>2 DEF HasIs
  <2>2. state[c] # "alive" /\ \A p \in Envs : InFork(p) /\ Child(p) = c => ~Shows(p, va)
    BY <1>2, <1>3
  <2>3. ~Has(c, va)
    BY <1>1, <1>2, <2>2 DEF HasIs
  <2>4. InFork(e)' /\ Child(e)' = c /\ Shows(e, va)'
    BY <1>3
  <2>5. Has(c, va)'
    BY <1>1, <1>2, <2>4 DEF HasIs
  <2> QED
    BY <2>1, <2>3, <2>5
<1>5. \A d \in Envs, vb \in Vas : d # c \/ vb # va => (Has(d, vb)' <=> Has(d, vb))
  BY <1>1, <1>3 DEF HasIs, Child
<1>6. \A d \in Envs, vb \in Vas :
         mem'[d][vb] = IF d = c /\ vb = va THEN mem[e][va] ELSE mem[d][vb]
  <2>1. mem'[c][va] = mem[e][va]
    <3>1. mem'[c][va] = content'[pt'[c][va].frame]
      BY <1>1, <1>2, <1>4 DEF MemIs
    <3>2. mem[e][va] = content[pt[e][va].frame]
      BY <1>1, <1>4 DEF MemIs
    <3> QED
      BY <1>3, <3>1, <3>2
  <2>2. ASSUME NEW d \in Envs, NEW vb \in Vas, d # c \/ vb # va PROVE mem'[d][vb] = mem[d][vb]
    <3>1. mem'[d][vb] = IF Has(d, vb)' THEN content'[pt'[d][vb].frame] ELSE Undefined
      BY <1>1 DEF MemIs
    <3>2. mem[d][vb] = IF Has(d, vb) THEN content[pt[d][vb].frame] ELSE Undefined
      BY <1>1 DEF MemIs
    <3> QED
      BY <1>5, <2>2, <3>1, <3>2
  <2> QED
    BY <2>1, <2>2
<1>7. mem' = [mem EXCEPT ![c][va] = mem[builder[c]][va]]
  <2>1. PICK new : new = mem[e][va]
    OBVIOUS
  <2>2. mem' = [mem EXCEPT ![c][va] = new]
    BY <1>6, <2>1, MemExcept
  <2> QED
    BY <1>2, <2>1, <2>2
<1>8. \A d \in Envs : builder'[d] = builder[d]
  <2>1. ASSUME NEW d \in Envs, NEW p \in Envs, fork[p].child = d PROVE builder'[d] = p /\ builder[d] = p
    BY <1>1, <2>1, OneBuilder DEF BuilderIs, Child
  <2> QED
    BY <1>1, <2>1 DEF BuilderIs
<1>9. builder' = builder
  BY <1>8 DEF builder
<1>10. mem[c][va] = Undefined
  BY <1>1, <1>2, <1>4 DEF MemIs
<1> QED
  BY <1>2, <1>3, <1>7, <1>9, <1>10 DEF Private!Copy

LEMMA WriteSeen ==
    ASSUME CowInv, CowInv', NEW e \in Envs, NEW va \in Vas, NEW v \in Written, Write(e, va, v)
    PROVE  Private!Write(e, va, v)
<1> DEFINE f == pt[e][va].frame
<1>1. /\ state[e] = "alive" /\ pt[e][va].perm = "W"
      /\ content' = [content EXCEPT ![f] = v]
      /\ UNCHANGED <<state, pt, temp, fork, fault, upcall>>
  BY DEF Write, Writes, Runs
<1>2. BuilderIs /\ HasIs /\ MemIs /\ MemIs'
  BY Views
<1>3. builder' = builder /\ \A d \in Envs, vb \in Vas : Has(d, vb)' <=> Has(d, vb)
  <2>1. builder' = builder
    BY <1>1 DEF builder
  <2> QED
    BY <1>1, <2>1 DEF Has, Given
<1>4. f \in Frames /\ content'[f] = v /\ \A g \in Frames \cup {NoFrame} : g # f => content'[g] = content[g]
  <2>1. f \in Frames
    BY <1>1 DEF TypeOK, StateInv, StateOK
  <2> QED
    BY <1>1, <2>1 DEF TypeOK
<1>5. ASSUME NEW d \in Envs, NEW vb \in Vas, Has(d, vb), d # e \/ vb # va
      PROVE  pt[d][vb].frame # f
  <2> SUFFICES ASSUME pt[d][vb].frame = f PROVE FALSE
    OBVIOUS
  <2>1. d = Child(e) /\ vb = va /\ fork[e].at = "remap" /\ fork[e].pn = va
    BY <1>1, <1>5 DEF Alone
  <2>2. InFork(e) /\ ~Shows(e, va)
    BY <1>1, <2>1 DEF InFork, Shows
  <2>3. state[d] = "building" /\ \A p \in Envs : InFork(p) /\ Child(p) = d => p = e
    BY <2>1, <2>2, OneBuilder DEF Child, ForkInv, ForkOK
  <2> QED
    BY <1>2, <1>5, <2>1, <2>2, <2>3 DEF HasIs
<1>6. Has(e, va)
  BY <1>1, <1>2 DEF HasIs
<1>7. ASSUME NEW d \in Envs, NEW vb \in Vas
      PROVE  mem'[d][vb] = IF d = e /\ vb = va THEN v ELSE mem[d][vb]
  <2>1. mem'[d][vb] = IF Has(d, vb) THEN content'[pt[d][vb].frame] ELSE Undefined
    BY <1>1, <1>2, <1>3 DEF MemIs
  <2>2. pt[d][vb].frame \in Frames \cup {NoFrame}
    BY DEF TypeOK
  <2> QED
    BY <1>2, <1>4, <1>5, <1>6, <2>1, <2>2 DEF MemIs
<1>8. mem' = [mem EXCEPT ![e][va] = v]
  BY <1>7, MemExcept
<1> QED
  BY <1>1, <1>3, <1>8 DEF Private!Write

\* The handler of page faults changes nothing that anybody reads: the page
\* it installs holds what the old one held.
LEMMA FaultUnseen ==
    ASSUME CowInv, CowInv', NEW e \in Envs,
           \/ \E va \in Vas : WriteFault(e, va) /\ upcall[e]
           \/ FaultAlloc(e) \/ FaultCopy(e) \/ FaultMap(e) \/ FaultUnmap(e)
    PROVE  UNCHANGED Private!vars
<1>1. state' = state /\ fork' = fork
  BY DEF WriteFault, FaultAlloc, FaultCopy, FaultMap, FaultUnmap
<1>2. \A d \in Envs, va \in Vas : pt[d][va].frame \in Frames \cup {NoFrame}
  BY DEF TypeOK
<1>3. \A d \in Envs, va \in Vas : Has(d, va) => pt[d][va].frame \in Frames
  <2>1. ASSUME NEW d \in Envs, NEW va \in Vas, Has(d, va) PROVE pt[d][va].frame # NoFrame
    <3>1. pt[d][va] # Unmapped
      BY <2>1 DEF Has
    <3>2. pt[d][va] = [frame |-> pt[d][va].frame, perm |-> pt[d][va].perm]
      BY DEF TypeOK
    <3> QED
      BY <3>1, <3>2 DEF StateInv, StateOK, Unmapped
  <2> QED
    BY <1>2, <2>1
<1>4. CASE pt' = pt /\ content' = content
  BY <1>1, <1>4, Unseen DEF InFork, Shows, Child
<1>5. CASE FaultAlloc(e) \/ FaultCopy(e)
  <2>1. pt' = pt
    BY <1>5 DEF FaultAlloc, FaultCopy
  <2>2. ASSUME NEW d \in Envs, NEW va \in Vas, Has(d, va)
        PROVE  content'[pt[d][va].frame] = content[pt[d][va].frame]
    <3>1. CASE FaultAlloc(e)
      BY <1>3, <2>2, <3>1 DEF FaultAlloc, FreeFrames, TypeOK
    <3>2. CASE FaultCopy(e)
      <4>1. pt[d][va].frame # temp[e].pftemp
        BY <1>3, <2>2, <3>2, CowAssumption DEF FaultCopy, FaultInv, FaultOK
      <4> QED
        BY <1>3, <2>2, <3>2, <4>1 DEF FaultCopy, TypeOK
    <3> QED
      BY <1>5, <3>1, <3>2
  <2> QED
    BY <1>1, <2>1, <2>2, Unseen DEF InFork, Shows, Child
<1>6. CASE FaultMap(e)
  <2> DEFINE va == fault[e].va
             new == [frame |-> temp[e].pftemp, perm |-> "W"]
  <2>1. /\ fault[e].at = "map" /\ content' = content
        /\ pt' = [pt EXCEPT ![e][va] = new]
    BY <1>6 DEF FaultMap
  <2>2. /\ va \in Vas /\ state[e] = "alive" /\ pt[e][va].perm \in {"RO", "COW"}
        /\ content[temp[e].pftemp] = content[pt[e][va].frame] /\ temp[e].pftemp # NoFrame
        /\ \A d \in Envs, vb \in Vas : pt[d][vb].frame # temp[e].pftemp
    <3>1. va \in Vas
      BY <2>1 DEF FaultInv, FaultOK, TypeOK
    <3> QED
      BY <2>1, <3>1 DEF FaultInv, FaultOK, StateInv, StateOK, NotFaulting
  <2> HIDE DEF va, new
  <2>3. \A d \in Envs, vb \in Vas : pt'[d][vb] = IF d = e /\ vb = va THEN new ELSE pt[d][vb]
    BY <2>1, <2>2 DEF TypeOK
  <2>4. ASSUME NEW p \in Envs, NEW vb \in Vas, InFork(p) PROVE Shows(p, vb)' <=> Shows(p, vb)
    <3>1. Child(p) \in Envs /\ Child(p) # e /\ state[Child(p)] = "building"
      BY <2>2, <2>4 DEF ForkInv, ForkOK
    <3>2. pt'[Child(p)][vb] = pt[Child(p)][vb] /\ Child(p)' = Child(p)
      BY <1>1, <2>3, <3>1 DEF Child
    <3>3. CASE p = e /\ vb = va
      <4>1. pt'[p][vb].frame = temp[e].pftemp /\ pt[p][vb].perm # "W"
        BY <2>2, <2>3, <3>3 DEF new
      <4> QED
        BY <1>1, <2>2, <3>1, <3>2, <4>1 DEF Shows
    <3>4. CASE ~(p = e /\ vb = va)
      <4>1. pt'[p][vb] = pt[p][vb]
        BY <2>3, <3>4
      <4> QED
        BY <1>1, <3>2, <4>1 DEF Shows
    <3> QED
      BY <3>3, <3>4
  <2>5. ASSUME NEW d \in Envs, NEW vb \in Vas
        PROVE  content'[pt'[d][vb].frame] = content[pt[d][vb].frame]
    BY <2>1, <2>2, <2>3 DEF new
  <2> QED
    BY <1>1, <2>4, <2>5, Unseen DEF InFork
<1> QED
  BY <1>4, <1>5, <1>6 DEF WriteFault, FaultUnmap

LEMMA UpcallUnseen ==
    ASSUME CowInv, CowInv', NEW e \in Envs, ForkUpcall(e)
    PROVE  UNCHANGED Private!vars
<1>1. /\ fork[e].at = "upcall" /\ fork[e].pn = Stack + 1
      /\ fork' = [fork EXCEPT ![e].at = "start"]
      /\ UNCHANGED <<state, pt, content>>
  BY DEF ForkUpcall, Forks, ForkInv, ForkOK, InFork
<1>2. \A d \in Envs : /\ fork'[d].child = fork[d].child /\ fork'[d].pn = fork[d].pn
                      /\ fork'[d].at = IF d = e THEN "start" ELSE fork[d].at
  BY <1>1 DEF TypeOK
<1>3. \A p \in Envs, va \in Vas : Shows(p, va)' <=> Shows(p, va)
  BY <1>1, <1>2 DEF Shows, Child
<1> QED
  BY <1>1, <1>2, <1>3, Unseen DEF InFork

\* fork_v0() prepares a page that the child does not have yet, and lets go of
\* one that it has.
LEMMA V0Unseen ==
    ASSUME CowInv, CowInv', NEW e \in Envs, V0Alloc(e) \/ V0Map(e) \/ V0Unmap(e)
    PROVE  UNCHANGED Private!vars
<1> DEFINE va == fork[e].pn
           c == Child(e)
<1>1. state[e] = "alive" /\ fork[e].at \in {"share", "utemp", "unmap"}
  BY DEF V0Alloc, V0Map, V0Unmap, Forks, Runs
<1>2. /\ va \in Vas /\ c \in Envs /\ c # e
      /\ InFork(e) /\ \A d \in Envs : d # e /\ InFork(d) => Child(d) # c /\ Child(d) # e
      /\ fork[e].at \in {"map", "share"} => pt[c][va].perm = "none"
  BY <1>1, PageFacts
<1>3. CASE V0Alloc(e)
  <2>1. PICK f \in FreeFrames : /\ fork[e].at = "share"
                               /\ pt' = [pt EXCEPT ![c][va] = [frame |-> f, perm |-> "W"]]
                               /\ content' = [content EXCEPT ![f] = Zero]
                               /\ fork' = [fork EXCEPT ![e].at = "utemp"]
                               /\ state' = state
    BY <1>3 DEF V0Alloc, Forks, Child
  <2>2. /\ f \in Frames /\ \A d \in Envs, x \in Vas : pt[d][x].frame # f
        /\ \A g \in Frames \cup {NoFrame} : g # f => content'[g] = content[g]
    BY <2>1, CowAssumption DEF FreeFrames, TypeOK
  <2> HIDE DEF va, c
  <2>3. /\ \A d \in Envs, x \in Vas :
              pt'[d][x] = IF d = c /\ x = va THEN [frame |-> f, perm |-> "W"] ELSE pt[d][x]
        /\ \A d \in Envs : /\ fork'[d].child = fork[d].child /\ fork'[d].pn = fork[d].pn
                           /\ fork'[d].at = IF d = e THEN "utemp" ELSE fork[d].at
    BY <1>2, <2>1 DEF TypeOK
  <2>4. ASSUME NEW p \in Envs, NEW vb \in Vas, InFork(p) PROVE Shows(p, vb)' <=> Shows(p, vb)
    <3>1. Child(p) \in Envs /\ Child(p) # p /\ p # c /\ state[p] = "alive"
      BY <1>2, <2>1, <2>4 DEF ForkInv, ForkOK, InFork, StateInv, StateOK, NotForking, c
    <3>2. Child(p)' = Child(p) /\ fork'[p].pn = fork[p].pn /\ pt'[p][vb] = pt[p][vb]
      BY <2>3, <3>1 DEF Child
    <3>3. CASE p = e /\ vb = va
      <4>1. ~Shows(p, vb)
        BY <1>2, <2>1, <3>3 DEF Shows, c, va
      <4>2. ~Shows(p, vb)'
        BY <2>3, <3>2, <3>3 DEF Shows, va
      <4> QED
        BY <4>1, <4>2
    <3>4. CASE p = e /\ vb # va
      <4>1. pt'[Child(p)][vb] = pt[Child(p)][vb] /\ fork[p].pn # vb
        BY <2>3, <3>1, <3>4 DEF va
      <4> QED
        BY <3>2, <4>1 DEF Shows
    <3>5. CASE p # e
      <4>1. pt'[Child(p)][vb] = pt[Child(p)][vb] /\ fork'[p].at = fork[p].at
        BY <1>2, <2>3, <2>4, <3>1, <3>5
      <4> QED
        BY <3>2, <4>1 DEF Shows
    <3> QED
      BY <3>3, <3>4, <3>5
  <2>5. ASSUME NEW d \in Envs, NEW vb \in Vas, Has(d, vb)
        PROVE  content'[pt'[d][vb].frame] = content[pt[d][vb].frame]
    <3>1. ~(d = c /\ vb = va)
      <4>1. pt[c][va] = Unmapped
        <5>1. pt[c][va] = [frame |-> pt[c][va].frame, perm |-> pt[c][va].perm]
          BY <1>2 DEF TypeOK
        <5> QED
          BY <1>2, <2>1, <5>1 DEF Unmapped, StateInv, StateOK
      <4> QED
        BY <2>5, <4>1 DEF Has
    <3>2. pt'[d][vb] = pt[d][vb] /\ pt[d][vb].frame \in Frames \cup {NoFrame}
      BY <2>3, <3>1 DEF TypeOK
    <3> QED
      BY <2>2, <3>2
  <2> QED
    BY <2>1, <2>3, <2>4, <2>5, Unseen DEF InFork
<1>4. CASE V0Map(e)
  <2>1. /\ fork[e].at = "utemp" /\ fork' = [fork EXCEPT ![e].at = "copy"]
        /\ UNCHANGED <<state, pt, content>>
    BY <1>4 DEF V0Map, Forks
  <2>2. \A d \in Envs : /\ fork'[d].child = fork[d].child /\ fork'[d].pn = fork[d].pn
                        /\ fork'[d].at = IF d = e THEN "copy" ELSE fork[d].at
    BY <2>1 DEF TypeOK
  <2>3. \A p \in Envs, vb \in Vas : Shows(p, vb)' <=> Shows(p, vb)
    BY <2>1, <2>2 DEF Shows, Child
  <2> QED
    BY <2>1, <2>2, <2>3, Unseen DEF InFork
<1>5. CASE V0Unmap(e)
  <2> DEFINE next == NextPage(fork[e], "share", "start")
  <2>1. /\ fork[e].at = "unmap" /\ fork' = [fork EXCEPT ![e] = next]
        /\ UNCHANGED <<state, pt, content>>
    BY <1>5 DEF V0Unmap, Forks
  <2>2. /\ next.child = fork[e].child /\ next.at \in {"share", "start"}
    BY <1>2, NextPageFacts DEF TypeOK, ForkRecords
  <2> HIDE DEF next
  <2>3. \A d \in Envs : fork'[d] = IF d = e THEN next ELSE fork[d]
    BY <2>1 DEF TypeOK
  <2>4. \A p \in Envs, vb \in Vas : Shows(p, vb)' <=> Shows(p, vb)
    BY <2>1, <2>2, <2>3 DEF Shows, Child
  <2> QED
    BY <2>1, <2>2, <2>3, <2>4, Unseen DEF InFork
<1> QED
  BY <1>3, <1>4, <1>5

\* memmove() gives the child the page.
LEMMA V0CopySeen ==
    ASSUME CowInv, CowInv', NEW e \in Envs, V0Copy(e)
    PROVE  Private!Copy(Child(e), fork[e].pn)
<1>1. PICK va, c, f : va = fork[e].pn /\ c = Child(e) /\ f = pt[c][va].frame
  OBVIOUS
<1>2. /\ state[e] = "alive" /\ fork[e].at = "copy" /\ temp[e].utemp = f
      /\ content' = [content EXCEPT ![temp[e].utemp] = content[pt[e][va].frame]]
      /\ fork' = [fork EXCEPT ![e].at = "unmap"]
      /\ UNCHANGED <<state, pt>>
  BY <1>1 DEF V0Copy, Forks, Runs, CopyInv, CopyOK
<1>3. /\ va \in Vas /\ c \in Envs /\ c # e /\ InFork(e)
      /\ \A d \in Envs : d # e /\ InFork(d) => Child(d) # c
      /\ pt[c][va].perm # "none" /\ pt[e][va].frame \in Frames
  BY <1>1, <1>2, PageFacts DEF ForkInv, ForkOK
<1>4. /\ f \in Frames
      /\ \A d \in Envs, x \in Vas : pt[d][x].frame = f => d = c /\ x = va
      /\ content'[f] = content[pt[e][va].frame]
      /\ \A g \in Frames \cup {NoFrame} : g # f => content'[g] = content[g]
  <2>1. f \in Frames
    BY <1>1, <1>3 DEF TypeOK, StateInv, StateOK
  <2> QED
    BY <1>1, <1>2, <2>1 DEF TypeOK, CopyInv, CopyOK
<1>5. \A d \in Envs : /\ fork'[d].child = fork[d].child /\ fork'[d].pn = fork[d].pn
                      /\ fork'[d].at = IF d = e THEN "unmap" ELSE fork[d].at
  BY <1>2 DEF TypeOK
<1>6. ~Shows(e, va) /\ Shows(e, va)'
  <2>1. ~Shows(e, va)
    BY <1>1, <1>2 DEF Shows
  <2>2. fork'[e].at = "unmap" /\ Child(e)' = c
    BY <1>1, <1>5 DEF Child
  <2>3. pt'[c][va].perm # "none" /\ pt'[e][va].frame # pt'[c][va].frame
    BY <1>1, <1>2, <1>3, <1>4
  <2> QED
    BY <2>1, <2>2, <2>3 DEF Shows
<1>7. \A p \in Envs, vb \in Vas : InFork(p) /\ (p # e \/ vb # va) => (Shows(p, vb)' <=> Shows(p, vb))
  BY <1>1, <1>2, <1>5 DEF Shows, Child
<1>8. ASSUME NEW d \in Envs, NEW vb \in Vas, Has(d, vb)
      PROVE  content'[pt'[d][vb].frame] = content[pt[d][vb].frame]
  <2>1. \A p \in Envs : InFork(p) /\ Child(p) = c => p = e
    BY <1>3
  <2>2. state[c] # "alive"
    BY <1>1, <1>3 DEF ForkInv, ForkOK
  <2>3. ~Has(c, va)
    BY <1>3, <1>6, <2>1, <2>2, HasFacts DEF HasIs
  <2>4. pt[d][vb].frame # f /\ pt[d][vb].frame \in Frames \cup {NoFrame}
    BY <1>4, <1>8, <2>3 DEF TypeOK
  <2> QED
    BY <1>2, <1>4, <2>4
<1>9. content'[pt'[c][va].frame] = content[pt[e][va].frame]
  BY <1>1, <1>2, <1>4
<1>10. \A p \in Envs : fork'[p].child = fork[p].child /\ (InFork(p)' <=> InFork(p))
  BY <1>2, <1>5 DEF InFork
<1>11. Private!Copy(Child(e), va)
  <2>1. state' = state /\ va \in Vas /\ InFork(e) /\ Shows(e, va)' /\ ~Shows(e, va)
    BY <1>2, <1>3, <1>6
  <2>2. /\ \A p \in Envs : fork'[p].child = fork[p].child
        /\ \A p \in Envs : InFork(p)' <=> InFork(p)
    BY <1>10
  <2>3. content'[pt'[Child(e)][va].frame] = content[pt[e][va].frame]
    BY <1>1, <1>9
  <2> QED
    BY <1>7, <1>8, <2>1, <2>2, <2>3, SeenCopied
<1> QED
  BY <1>1, <1>11

\* duppage() of a writable page maps it in the child, which does not own it
\* before the parent has given up writing it; any other page is the child's at
\* once.
LEMMA DupCowMapSeen ==
    ASSUME CowInv, CowInv', NEW e \in Envs, DupCow(e), fork[e].at = "map"
    PROVE  UNCHANGED Private!vars \/ Private!Copy(Child(e), fork[e].pn)
<1>1. PICK va, c, f : va = fork[e].pn /\ c = Child(e) /\ f = pt[e][va].frame
  OBVIOUS
<1>2. /\ state[e] = "alive" /\ pt[e][va].perm \in {"W", "COW"}
      /\ pt' = [pt EXCEPT ![c][va] = [frame |-> f, perm |-> "COW"]]
      /\ fork' = [fork EXCEPT ![e].at = "remap"]
      /\ state' = state /\ content' = content
  BY <1>1 DEF DupCow, DupTarget, Forks, Runs, Child
<1>3. /\ va \in Vas /\ c \in Envs /\ c # e /\ f \in Frames /\ InFork(e)
      /\ pt[c][va].perm = "none"
      /\ \A d \in Envs : d # e /\ InFork(d) => Child(d) # c /\ Child(d) # e
  BY <1>1, <1>2, PageFacts
<1>4. /\ \A d \in Envs, x \in Vas :
            pt'[d][x] = IF d = c /\ x = va THEN [frame |-> f, perm |-> "COW"] ELSE pt[d][x]
      /\ \A d \in Envs : /\ fork'[d].child = fork[d].child /\ fork'[d].pn = fork[d].pn
                         /\ fork'[d].at = IF d = e THEN "remap" ELSE fork[d].at
  BY <1>2, <1>3 DEF TypeOK
<1>5. ~Shows(e, va)
  BY <1>1, <1>3 DEF Shows
<1>6. Shows(e, va)' <=> pt[e][va].perm # "W"
  <2>1. fork'[e].at = "remap" /\ Child(e)' = c
    BY <1>1, <1>3, <1>4 DEF Child
  <2>2. pt'[c][va].perm = "COW" /\ pt'[c][va].frame = f /\ pt'[e][va] = pt[e][va]
    BY <1>3, <1>4
  <2> QED
    BY <1>1, <2>1, <2>2 DEF Shows
<1>7. ASSUME NEW p \in Envs, NEW vb \in Vas, InFork(p), p # e \/ vb # va
      PROVE  Shows(p, vb)' <=> Shows(p, vb)
  <2>1. Child(p) \in Envs /\ p # c /\ (p = e \/ Child(p) # c)
    BY <1>1, <1>3, <1>7 DEF ForkInv, ForkOK, StateInv, StateOK, InFork, NotForking
  <2>2. Child(p)' = Child(p) /\ pt'[p][vb] = pt[p][vb] /\ pt'[Child(p)][vb] = pt[Child(p)][vb]
    BY <1>1, <1>4, <1>7, <2>1 DEF Child
  <2>3. fork[p].pn = vb => fork'[p].at = fork[p].at
    BY <1>1, <1>4, <1>7
  <2> QED
    BY <1>4, <2>2, <2>3 DEF Shows
<1>8. \A d \in Envs, vb \in Vas : Has(d, vb) => content'[pt'[d][vb].frame] = content[pt[d][vb].frame]
  <2>1. ~Has(c, va)
    <3>1. state[c] # "alive" /\ \A p \in Envs : InFork(p) /\ Child(p) = c => ~Shows(p, va)
      BY <1>1, <1>3, <1>5 DEF ForkInv, ForkOK
    <3> QED
      BY <1>3, <3>1, HasFacts DEF HasIs
  <2> QED
    BY <1>2, <1>4, <2>1
<1>9. content'[pt'[c][va].frame] = content[pt[e][va].frame]
  BY <1>1, <1>2, <1>3, <1>4
<1>10. \A p \in Envs : fork'[p].child = fork[p].child /\ (InFork(p)' <=> InFork(p))
  BY <1>3, <1>4 DEF InFork
<1>11. CASE pt[e][va].perm = "W"
  <2>1. \A p \in Envs, vb \in Vas : InFork(p) => (Shows(p, vb)' <=> Shows(p, vb))
    BY <1>5, <1>6, <1>7, <1>11
  <2> QED
    BY <1>2, <1>8, <1>10, <2>1, Unseen
<1>12. CASE pt[e][va].perm # "W"
  <2>1. Shows(e, va)' /\ content'[pt'[Child(e)][va].frame] = content[pt[e][va].frame]
    BY <1>1, <1>6, <1>9, <1>12
  <2>2. Private!Copy(Child(e), va)
    BY <1>2, <1>3, <1>5, <1>7, <1>8, <1>10, <2>1, SeenCopied
  <2> QED
    BY <1>1, <2>2
<1> QED
  BY <1>11, <1>12

\* The parent's page is remapped: the child reads what it holds at this moment.
LEMMA DupCowRemapSeen ==
    ASSUME CowInv, CowInv', NEW e \in Envs, DupCow(e), fork[e].at = "remap"
    PROVE  UNCHANGED Private!vars \/ Private!Copy(Child(e), fork[e].pn)
<1> DEFINE next == NextPage(fork[e], "map", "upcall")
<1>1. PICK va, c, f : va = fork[e].pn /\ c = Child(e) /\ f = pt[e][va].frame
  OBVIOUS
<1>2. /\ state[e] = "alive" /\ pt[e][va].perm \in {"W", "COW"}
      /\ pt' = [pt EXCEPT ![e][va] = [frame |-> f, perm |-> "COW"]]
      /\ fork' = [fork EXCEPT ![e] = next]
      /\ state' = state /\ content' = content
  BY <1>1 DEF DupCow, DupTarget, Forks, Runs
<1>3. /\ va \in Vas /\ c \in Envs /\ c # e /\ f \in Frames /\ InFork(e)
      /\ \A d \in Envs : d # e /\ InFork(d) => Child(d) # c /\ Child(d) # e
  BY <1>1, <1>2, PageFacts
<1>4. /\ next.child = fork[e].child /\ next.pn = va + 1 /\ next.at \in {"map", "upcall"}
  BY <1>1, <1>3, NextPageFacts DEF TypeOK, ForkRecords
<1> HIDE DEF next
<1>5. /\ \A d \in Envs, x \in Vas :
            pt'[d][x] = IF d = e /\ x = va THEN [frame |-> f, perm |-> "COW"] ELSE pt[d][x]
      /\ \A d \in Envs : fork'[d] = IF d = e THEN next ELSE fork[d]
  BY <1>2, <1>3 DEF TypeOK
<1>6. pt[c][va].perm # "none"
  BY <1>1, <1>3 DEF ForkInv, ForkOK
<1>7. Shows(e, va) <=> (pt[e][va].perm = "W" => f # pt[c][va].frame)
  BY <1>1, <1>6 DEF Shows
<1>8. fork'[e].at \in {"map", "upcall"} /\ Child(e)' = c
  BY <1>1, <1>4, <1>5 DEF Child
<1>9. Shows(e, va)'
  <2>1. pt'[e][va].perm = "COW" /\ pt'[c][va] = pt[c][va]
    BY <1>3, <1>5
  <2> QED
    BY <1>6, <1>8, <2>1 DEF Shows
<1>10. ASSUME NEW p \in Envs, NEW vb \in Vas, InFork(p), p # e \/ vb # va
       PROVE  Shows(p, vb)' <=> Shows(p, vb)
  <2>1. Child(p) \in Envs /\ Child(p) # e
    BY <1>1, <1>2, <1>3, <1>10 DEF ForkInv, ForkOK
  <2>2. pt'[p][vb] = pt[p][vb] /\ pt'[Child(p)][vb] = pt[Child(p)][vb]
    BY <1>5, <1>10, <2>1
  <2>3. CASE p = e
    BY <1>1, <1>8, <2>2, <2>3, <1>10 DEF Shows
  <2>4. CASE p # e
    <3>1. fork'[p] = fork[p] /\ Child(p)' = Child(p)
      BY <1>5, <2>4 DEF Child
    <3> QED
      BY <2>2, <3>1 DEF Shows
  <2> QED
    BY <2>3, <2>4
<1>11. \A d \in Envs, vb \in Vas : content'[pt'[d][vb].frame] = content[pt[d][vb].frame]
  <2>1. \A d \in Envs, vb \in Vas : pt'[d][vb].frame = pt[d][vb].frame
    BY <1>1, <1>5
  <2> QED
    BY <1>2, <2>1
<1>12. \A p \in Envs : fork'[p].child = fork[p].child /\ (InFork(p)' <=> InFork(p))
  BY <1>3, <1>4, <1>5 DEF InFork
<1>13. CASE Shows(e, va)
  <2>1. \A p \in Envs, vb \in Vas : InFork(p) => (Shows(p, vb)' <=> Shows(p, vb))
    BY <1>9, <1>10, <1>13
  <2> QED
    BY <1>2, <1>11, <1>12, <2>1, Unseen
<1>14. CASE ~Shows(e, va)
  <2>1. content'[pt'[Child(e)][va].frame] = content[pt[e][va].frame]
    BY <1>1, <1>2, <1>3, <1>5, <1>7, <1>14
  <2>2. Private!Copy(Child(e), va)
    BY <1>2, <1>3, <1>9, <1>10, <1>11, <1>12, <1>14, <2>1, SeenCopied
  <2> QED
    BY <1>1, <2>2
<1> QED
  BY <1>13, <1>14

\* A page that nobody may write is the child's as soon as it is mapped.
LEMMA ShareSeen ==
    ASSUME CowInv, CowInv', NEW e \in Envs, DupShared(e) \/ V0Share(e)
    PROVE  Private!Copy(Child(e), fork[e].pn)
<1> DEFINE loop == IF DupShared(e) THEN "map" ELSE "share"
           next == NextPage(fork[e], loop, IF DupShared(e) THEN "upcall" ELSE "start")
<1>1. PICK va, c, f : va = fork[e].pn /\ c = Child(e) /\ f = pt[e][va].frame
  OBVIOUS
<1>2. /\ state[e] = "alive" /\ fork[e].at = loop /\ pt[e][va].perm # "W"
      /\ fork' = [fork EXCEPT ![e] = next]
      /\ state' = state /\ content' = content
  BY <1>1 DEF DupShared, V0Share, Forks, Runs
<1>3. /\ va \in Vas /\ c \in Envs /\ c # e /\ f \in Frames /\ InFork(e)
      /\ pt[c][va].perm = "none"
      /\ \A d \in Envs : d # e /\ InFork(d) => Child(d) # c /\ Child(d) # e
  BY <1>1, <1>2, PageFacts
<1>4. pt' = [pt EXCEPT ![c][va] = [frame |-> f, perm |-> "RO"]]
  <2>1. CASE DupShared(e)
    <3>1. pt[e][va] = [frame |-> f, perm |-> "RO"]
      BY <1>1, <1>3, <2>1 DEF DupShared, TypeOK
    <3> QED
      BY <1>1, <2>1, <3>1 DEF DupShared, Child
  <2>2. CASE V0Share(e)
    BY <1>1, <2>2 DEF V0Share, Child
  <2> QED
    BY <2>1, <2>2
<1>5. next.child = fork[e].child /\ next.pn = va + 1 /\ next.at \in {"map", "share", "upcall", "start"}
  BY <1>1, <1>3, NextPageFacts DEF TypeOK, ForkRecords
<1> HIDE DEF next, loop
<1>6. /\ \A d \in Envs, x \in Vas :
            pt'[d][x] = IF d = c /\ x = va THEN [frame |-> f, perm |-> "RO"] ELSE pt[d][x]
      /\ \A d \in Envs : fork'[d] = IF d = e THEN next ELSE fork[d]
  BY <1>2, <1>3, <1>4 DEF TypeOK
<1>7. fork'[e].at \in {"map", "share", "upcall", "start"} /\ Child(e)' = c
  BY <1>1, <1>5, <1>6 DEF Child
<1>8. ~Shows(e, va)
  BY <1>1, <1>3 DEF Shows
<1>9. Shows(e, va)' /\ content'[pt'[Child(e)][va].frame] = content[pt[e][va].frame]
  <2>1. pt'[c][va].perm = "RO" /\ pt'[c][va].frame = f /\ pt'[e][va].perm # "W"
    BY <1>2, <1>3, <1>6
  <2> QED
    BY <1>1, <1>2, <1>7, <2>1 DEF Shows
<1>10. ASSUME NEW p \in Envs, NEW vb \in Vas, InFork(p), p # e \/ vb # va
       PROVE  Shows(p, vb)' <=> Shows(p, vb)
  <2>1. Child(p) \in Envs /\ p # c /\ (p = e \/ Child(p) # c)
    BY <1>1, <1>3, <1>10 DEF ForkInv, ForkOK, StateInv, StateOK, InFork, NotForking
  <2>2. pt'[p][vb] = pt[p][vb] /\ pt'[Child(p)][vb] = pt[Child(p)][vb]
    BY <1>1, <1>6, <1>10, <2>1
  <2>3. CASE p = e
    BY <1>1, <1>7, <1>10, <2>2, <2>3 DEF Shows
  <2>4. CASE p # e
    <3>1. fork'[p] = fork[p] /\ Child(p)' = Child(p)
      BY <1>6, <2>4 DEF Child
    <3> QED
      BY <2>2, <3>1 DEF Shows
  <2> QED
    BY <2>3, <2>4
<1>11. \A d \in Envs, vb \in Vas : Has(d, vb) => content'[pt'[d][vb].frame] = content[pt[d][vb].frame]
  <2>1. ~Has(c, va)
    <3>1. state[c] # "alive" /\ \A p \in Envs : InFork(p) /\ Child(p) = c => ~Shows(p, va)
      BY <1>1, <1>3, <1>8 DEF ForkInv, ForkOK
    <3> QED
      BY <1>3, <3>1, HasFacts DEF HasIs
  <2> QED
    BY <1>2, <1>6, <2>1
<1>12. \A p \in Envs : fork'[p].child = fork[p].child /\ (InFork(p)' <=> InFork(p))
  BY <1>3, <1>5, <1>6 DEF InFork
<1>13. Private!Copy(Child(e), va)
  BY <1>2, <1>3, <1>8, <1>9, <1>10, <1>11, <1>12, SeenCopied
<1> QED
  BY <1>1, <1>13

LEMMA BeginSeen ==
    ASSUME CowInv, CowInv', NEW e \in Envs, NEW child \in Envs,
           ForkBegin(e, child) \/ ForkV0Begin(e, child)
    PROVE  Private!Fork(e, child)
<1>1. PICK at \in {"map", "share"} :
          /\ state[e] = "alive" /\ fork[e] = NotForking /\ state[child] = "free"
          /\ state' = [state EXCEPT ![child] = "building"]
          /\ fork' = [fork EXCEPT ![e] = [child |-> child, pn |-> 1, at |-> at]]
          /\ pt' = pt /\ content' = content
  BY DEF ForkBegin, ForkV0Begin, Runs
<1>2. /\ \A d \in Envs : /\ state'[d] = IF d = child THEN "building" ELSE state[d]
                         /\ d # e => fork'[d] = fork[d]
      /\ fork'[e].child = child /\ fork'[e].at = at /\ e # child
  BY <1>1 DEF TypeOK
<1>3. /\ \A va \in Vas : pt[child][va].perm = "none" /\ pt[child][va] = Unmapped
      /\ ~InFork(e) /\ fork[e].child = NoEnv
      /\ \A p \in Envs : fork[p].child # child
  <2>1. \A va \in Vas : pt[child][va].perm = "none" /\ pt[child][va].frame = NoFrame
    BY <1>1 DEF StateInv, StateOK
  <2>2. \A va \in Vas : pt[child][va] = [frame |-> pt[child][va].frame, perm |-> pt[child][va].perm]
    BY DEF TypeOK
  <2>3. \A p \in Envs : fork[p].child # child
    BY <1>1, CowAssumption DEF ForkInv, ForkOK, InFork, Child, NotForking
  <2> QED
    BY <1>1, <2>1, <2>2, <2>3 DEF Unmapped, InFork, NotForking
<1>4. BuilderIs /\ BuilderIs' /\ HasIs /\ HasIs' /\ MemIs /\ MemIs'
  BY Views
<1>5. builder'[child] = e /\ InFork(e)' /\ Child(e)' = child
  <2>1. InFork(e)' /\ Child(e)' = child
    BY <1>2 DEF InFork, Child
  <2> QED
    BY <1>4, <2>1 DEF BuilderIs
<1>6. ASSUME NEW d \in Envs, d # child PROVE builder'[d] = builder[d]
  <2>1. CASE \E p \in Envs : fork[p].child = d
    <3>1. PICK p \in Envs : fork[p].child = d
      BY <2>1
    <3>2. p # e /\ InFork(p) /\ Child(p) = d
      BY <1>3, <3>1, CowAssumption, OneBuilder DEF Child
    <3>3. InFork(p)' /\ Child(p)' = d
      BY <1>2, <3>2 DEF InFork, Child
    <3> QED
      BY <1>4, <3>2, <3>3 DEF BuilderIs
  <2>2. CASE \A p \in Envs : fork[p].child # d
    BY <1>2, <1>4, <1>6, <2>2 DEF BuilderIs
  <2> QED
    BY <2>1, <2>2
<1>7. builder' = [builder EXCEPT ![child] = e]
  <2>1. builder = [d \in Envs |-> builder[d]] /\ builder' = [d \in Envs |-> builder'[d]]
    BY DEF builder
  <2>2. [builder EXCEPT ![child] = e] = [d \in Envs |-> IF d = child THEN e ELSE builder[d]]
    BY <2>1
  <2>3. builder' = [d \in Envs |-> IF d = child THEN e ELSE builder[d]]
    BY <1>5, <1>6, <2>1
  <2> QED
    BY <2>2, <2>3
<1>8. ASSUME NEW p \in Envs, NEW va \in Vas, p # e
      PROVE  /\ InFork(p)' <=> InFork(p)
             /\ Child(p)' = Child(p)
             /\ Shows(p, va)' <=> Shows(p, va)
  BY <1>1, <1>2, <1>8 DEF InFork, Child, Shows
<1>9. ASSUME NEW d \in Envs, NEW va \in Vas PROVE Has(d, va)' <=> Has(d, va)
  <2>1. CASE d = child
    <3>1. ~Has(d, va) /\ ~Has(d, va)'
      BY <1>1, <1>3, <2>1 DEF Has
    <3> QED
      BY <3>1
  <2>2. CASE d # child
    <3>1. state'[d] = state[d] /\ ~InFork(e) /\ Child(e)' # d
      BY <1>2, <1>3, <1>5, <2>2
    <3>2. (\E p \in Envs : InFork(p)' /\ Child(p)' = d /\ Shows(p, va)')
          <=> \E p \in Envs : InFork(p) /\ Child(p) = d /\ Shows(p, va)
      BY <1>8, <3>1
    <3> QED
      BY <1>4, <3>1, <3>2 DEF HasIs
  <2> QED
    BY <2>1, <2>2
<1>10. mem' = mem
  BY <1>1, <1>9 DEF mem
<1> QED
  BY <1>1, <1>7, <1>10 DEF Private!Fork

\* The child is started when it has all its pages.
LEMMA EndSeen ==
    ASSUME CowInv, CowInv', NEW e \in Envs, ForkEnd(e)
    PROVE  Private!Start(Child(e))
<1>1. PICK c : c = Child(e)
  OBVIOUS
<1>2. /\ state[e] = "alive" /\ fork[e].at = "start" /\ InFork(e)
      /\ state' = [state EXCEPT ![c] = "alive"]
      /\ fork' = [fork EXCEPT ![e] = NotForking]
      /\ pt' = pt /\ content' = content
  BY <1>1 DEF ForkEnd, Forks, Runs, Child, InFork
<1>3. /\ c \in Envs /\ state[c] = "building" /\ fork[e].pn = Stack + 1
      /\ \A d \in Envs : fork[d].child = c => d = e
      /\ \A va \in Vas : pt[c][va].perm # "none"
  <2>1. Stack \in Nat /\ Vas = 1 .. Stack
    BY CowAssumption DEF Stack, Vas
  <2> QED
    BY <1>1, <1>2, <2>1 DEF ForkInv, ForkOK
<1>4. /\ \A d \in Envs : /\ state'[d] = IF d = c THEN "alive" ELSE state[d]
                         /\ d # e => fork'[d] = fork[d]
      /\ fork'[e].child = NoEnv /\ ~InFork(e)'
  BY <1>2, <1>3 DEF TypeOK, NotForking, InFork
<1>5. BuilderIs /\ BuilderIs' /\ HasIs /\ HasIs' /\ MemIs /\ MemIs'
  BY Views
<1>6. ASSUME NEW va \in Vas PROVE Has(c, va) /\ mem[c][va] # Undefined
  <2>1. Shows(e, va)
    <3>1. fork[e].pn # va
      BY <1>3, CowAssumption DEF Vas, Stack
    <3>2. pt[e][va].perm = "W" => pt[e][va].frame # pt[c][va].frame
      BY <1>1, <1>2, <1>3 DEF Alone
    <3> QED
      BY <1>1, <1>3, <3>1, <3>2 DEF Shows
  <2>2. Has(c, va)
    BY <1>1, <1>2, <1>3, <1>5, <2>1 DEF HasIs
  <2>3. pt[c][va].frame \in Frames
    BY <1>3 DEF StateInv, StateOK, TypeOK
  <2>4. content[pt[c][va].frame] # Undefined
    BY <2>3, CowAssumption DEF TypeOK
  <2> QED
    BY <1>3, <1>5, <2>2, <2>4 DEF MemIs
<1>7. builder'[c] = c
  BY <1>3, <1>4, <1>5, CowAssumption DEF BuilderIs
<1>8. ASSUME NEW d \in Envs, d # c PROVE builder'[d] = builder[d]
  <2>1. CASE \E p \in Envs : fork[p].child = d
    <3>1. PICK p \in Envs : fork[p].child = d
      BY <2>1
    <3>2. p # e /\ InFork(p) /\ Child(p) = d
      BY <1>1, <1>8, <3>1, OneBuilder DEF Child
    <3>3. InFork(p)' /\ Child(p)' = d
      BY <1>4, <3>2 DEF InFork, Child
    <3> QED
      BY <1>5, <3>2, <3>3 DEF BuilderIs
  <2>2. CASE \A p \in Envs : fork[p].child # d
    <3>1. \A p \in Envs : fork'[p].child # d
      BY <1>4, <2>2, CowAssumption
    <3> QED
      BY <1>5, <2>2, <3>1 DEF BuilderIs
  <2> QED
    BY <2>1, <2>2
<1>9. builder' = [builder EXCEPT ![c] = c]
  <2>1. builder = [d \in Envs |-> builder[d]] /\ builder' = [d \in Envs |-> builder'[d]]
    BY DEF builder
  <2>2. [builder EXCEPT ![c] = c] = [d \in Envs |-> IF d = c THEN c ELSE builder[d]]
    BY <2>1
  <2>3. builder' = [d \in Envs |-> IF d = c THEN c ELSE builder[d]]
    BY <1>7, <1>8, <2>1
  <2> QED
    BY <2>2, <2>3
<1>10. ASSUME NEW p \in Envs, NEW va \in Vas, p # e
       PROVE  /\ InFork(p)' <=> InFork(p)
              /\ Child(p)' = Child(p)
              /\ Shows(p, va)' <=> Shows(p, va)
  BY <1>2, <1>4, <1>10 DEF InFork, Child, Shows
<1>11. ASSUME NEW d \in Envs, NEW va \in Vas PROVE Has(d, va)' <=> Has(d, va)
  <2>1. CASE d = c
    BY <1>4, <1>5, <1>6, <2>1 DEF HasIs
  <2>2. CASE d # c
    <3>1. state'[d] = state[d] /\ ~InFork(e)' /\ Child(e) # d
      BY <1>1, <1>4, <2>2
    <3>2. (\E p \in Envs : InFork(p)' /\ Child(p)' = d /\ Shows(p, va)')
          <=> \E p \in Envs : InFork(p) /\ Child(p) = d /\ Shows(p, va)
      BY <1>10, <3>1
    <3> QED
      BY <1>5, <3>1, <3>2 DEF HasIs
  <2> QED
    BY <2>1, <2>2
<1>12. mem' = mem
  BY <1>2, <1>11 DEF mem
<1>13. Private!Start(c)
  BY <1>2, <1>3, <1>6, <1>9, <1>12 DEF Private!Start
<1> QED
  BY <1>1, <1>13

\* What an environment had is gone, and what it had given to its child.
LEMMA KilledSeen ==
    ASSUME CowInv, CowInv', NEW e \in Envs, state[e] = "alive", Killed(e)
    PROVE  Private!Exit(e)
<1>1. /\ \A d \in Envs : /\ state'[d] = IF d = e THEN "free" ELSE state[d]
                         /\ fork'[d] = IF d = e THEN NotForking ELSE fork[d]
      /\ \A d \in Envs, va \in Vas : pt'[d][va] = IF d = e THEN Unmapped ELSE pt[d][va]
      /\ content' = content /\ state' = [state EXCEPT ![e] = "free"]
  BY DEF Killed, TypeOK
<1>2. BuilderIs /\ BuilderIs' /\ HasIs /\ HasIs' /\ MemIs /\ MemIs'
  BY Views
<1>3. \A p \in Envs : fork[p].child # e /\ fork'[p].child # e
  BY <1>1, CowAssumption DEF ForkInv, ForkOK, InFork, Child, NotForking
<1>4. builder[e] = e /\ builder'[e] = e
  BY <1>2, <1>3 DEF BuilderIs
<1>5. fork'[e].child = NoEnv /\ ~InFork(e)'
  BY <1>1 DEF NotForking, InFork
<1>6. ASSUME NEW p \in Envs, p # e
      PROVE  /\ InFork(p)' <=> InFork(p)
             /\ Child(p)' = Child(p)
             /\ \A va \in Vas : InFork(p) => (Shows(p, va)' <=> Shows(p, va))
  <2>1. fork'[p] = fork[p] /\ \A va \in Vas : pt'[p][va] = pt[p][va]
    BY <1>1, <1>6
  <2>2. InFork(p) => \A va \in Vas : pt'[Child(p)][va] = pt[Child(p)][va]
    BY <1>1, <1>3 DEF ForkInv, ForkOK, Child
  <2> QED
    BY <2>1, <2>2 DEF InFork, Child, Shows
<1>7. ASSUME NEW d \in Envs
      PROVE  /\ builder'[d] = IF builder[d] = e THEN d ELSE builder[d]
             /\ \A va \in Vas : mem'[d][va] = IF builder[d] = e THEN Undefined ELSE mem[d][va]
  <2>1. CASE d = e
    <3>1. \A va \in Vas : ~Has(d, va)'
      BY <1>1, <2>1 DEF Has
    <3> QED
      BY <1>2, <1>4, <2>1, <3>1 DEF MemIs
  <2>2. CASE d # e /\ fork[e].child = d
    <3>1. InFork(e) /\ Child(e) = d /\ \A p \in Envs : fork[p].child = d => p = e
      BY <2>2, OneBuilder DEF Child
    <3>2. builder[d] = e
      BY <1>2, <3>1 DEF BuilderIs
    <3>3. \A p \in Envs : fork'[p].child # d
      BY <1>1, <1>5, <3>1, CowAssumption
    <3>4. builder'[d] = d
      BY <1>2, <3>3 DEF BuilderIs
    <3>5. state'[d] # "alive"
      BY <1>1, <2>2, <3>1 DEF ForkInv, ForkOK
    <3>6. \A va \in Vas : ~Has(d, va)'
      BY <1>2, <3>3, <3>5 DEF HasIs, Child
    <3> QED
      BY <1>2, <3>2, <3>4, <3>6 DEF MemIs
  <2>3. CASE d # e /\ fork[e].child # d
    <3>1. builder[d] # e /\ builder'[d] = builder[d]
      <4>1. CASE \E p \in Envs : fork[p].child = d
        <5>1. PICK p \in Envs : fork[p].child = d
          BY <4>1
        <5>2. p # e /\ InFork(p) /\ Child(p) = d
          BY <2>3, <5>1, OneBuilder DEF Child
        <5> QED
          BY <1>2, <1>6, <5>2 DEF BuilderIs
      <4>2. CASE \A p \in Envs : fork[p].child # d
        <5>1. \A p \in Envs : fork'[p].child # d
          BY <1>1, <1>5, <4>2, CowAssumption
        <5> QED
          BY <1>2, <2>3, <4>2, <5>1 DEF BuilderIs
      <4> QED
        BY <4>1, <4>2
    <3>2. ASSUME NEW va \in Vas PROVE Has(d, va)' <=> Has(d, va)
      <4>1. (\E p \in Envs : InFork(p)' /\ Child(p)' = d /\ Shows(p, va)')
            <=> \E p \in Envs : InFork(p) /\ Child(p) = d /\ Shows(p, va)
        BY <1>5, <1>6, <2>3 DEF Child
      <4> QED
        BY <1>1, <1>2, <2>3, <4>1 DEF HasIs
    <3>3. \A va \in Vas : mem'[d][va] = mem[d][va]
      BY <1>1, <1>2, <2>3, <3>2 DEF MemIs
    <3> QED
      BY <3>1, <3>3
  <2> QED
    BY <2>1, <2>2, <2>3
<1>8. builder' = [d \in Envs |-> IF builder[d] = e THEN d ELSE builder[d]]
  BY <1>7 DEF builder
<1>9. mem' = [d \in Envs |-> IF builder[d] = e THEN [va \in Vas |-> Undefined] ELSE mem[d]]
  <2>1. mem' = [d \in Envs |-> [va \in Vas |-> mem'[d][va]]]
    BY DEF mem
  <2>2. \A d \in Envs : mem[d] = [va \in Vas |-> mem[d][va]]
    BY DEF mem
  <2> QED
    BY <1>7, <2>1, <2>2
<1> QED
  BY <1>1, <1>8, <1>9 DEF Private!Exit

LEMMA InitSeen == Init => Private!Init
<1> SUFFICES ASSUME Init PROVE Private!Init
  OBVIOUS
<1>1. PICK first \in Envs, frame \in [Vas -> Frames] :
    /\ state = [e \in Envs |-> IF e = first THEN "alive" ELSE "free"]
    /\ pt = [e \in Envs |-> [va \in Vas |->
                IF e = first THEN [frame |-> frame[va], perm |-> IF va = Text THEN "RO" ELSE "W"]
                ELSE Unmapped]]
    /\ \E v \in Written : content = [f \in Frames |-> IF \E va \in Vas : frame[va] = f THEN v ELSE Zero]
    /\ fork = [e \in Envs |-> NotForking]
  BY DEF Init
<1>2. PICK v \in Written : content = [f \in Frames |-> IF \E va \in Vas : frame[va] = f THEN v ELSE Zero]
  BY <1>1
<1>3. \A va \in Vas : content[pt[first][va].frame] = v
  BY <1>1, <1>2
<1>4. CowInv /\ BuilderIs /\ HasIs /\ MemIs
  BY CowInit, BuilderFacts, HasFacts, MemFacts
<1>5. \A p \in Envs : fork[p].child = NoEnv /\ ~InFork(p)
  BY <1>1 DEF NotForking, InFork
<1>6. builder = [f \in Envs |-> f]
  BY <1>4, <1>5, CowAssumption DEF BuilderIs, builder
<1>7. \A e \in Envs, va \in Vas : Has(e, va) <=> e = first
  BY <1>1, <1>4, <1>5 DEF HasIs
<1> DEFINE page == [va \in Vas |-> v]
<1>8. mem = [f \in Envs |-> IF f = first THEN page ELSE [va \in Vas |-> Undefined]]
  BY <1>3, <1>7 DEF mem
<1>9. page \in [Vas -> Written]
  OBVIOUS
<1> HIDE DEF page
<1> QED
  BY <1>1, <1>6, <1>8, <1>9 DEF Private!Init

LEMMA StepSeen == CowInv /\ CowInv' /\ [Next]_vars => [Private!Next]_Private!vars
<1> SUFFICES ASSUME CowInv, CowInv', [Next]_vars PROVE Private!Next \/ UNCHANGED Private!vars
  OBVIOUS
<1>1. CASE UNCHANGED vars
  <2>1. state' = state /\ fork' = fork /\ pt' = pt /\ content' = content
    BY <1>1 DEF vars
  <2> QED
    BY <2>1, Unseen DEF InFork, Shows, Child
<1>2. CASE Next
  <2>1. PICK e \in Envs : Step(e)
    BY <1>2 DEF Next
  <2>2. CASE \E va \in Vas, v \in Written : Write(e, va, v)
    <3>1. PICK va \in Vas, v \in Written : Write(e, va, v)
      BY <2>2
    <3>2. Private!Write(e, va, v)
      BY <3>1, WriteSeen
    <3> QED
      BY <3>2 DEF Private!Next
  <2>3. CASE \E va \in Vas : WriteFault(e, va)
    <3>1. CASE upcall[e]
      BY <2>3, <3>1, FaultUnseen
    <3>2. CASE ~upcall[e]
      <4>1. state[e] = "alive" /\ Killed(e)
        BY <2>3, <3>2 DEF WriteFault, Writes, Runs
      <4>2. Private!Exit(e)
        BY <4>1, KilledSeen
      <4> QED
        BY <4>2 DEF Private!Next
    <3> QED
      BY <3>1, <3>2
  <2>4. CASE FaultAlloc(e) \/ FaultCopy(e) \/ FaultMap(e) \/ FaultUnmap(e)
    BY <2>4, FaultUnseen
  <2>5. CASE \E child \in Envs : ForkBegin(e, child) \/ ForkV0Begin(e, child)
    <3>1. PICK child \in Envs : ForkBegin(e, child) \/ ForkV0Begin(e, child)
      BY <2>5
    <3>2. Private!Fork(e, child)
      BY <3>1, BeginSeen
    <3> QED
      BY <3>2 DEF Private!Next
  <2>6. ASSUME Private!Copy(Child(e), fork[e].pn), state[e] = "alive",
               fork[e].at \notin {"idle", "upcall", "start"}
        PROVE  Private!Next
    <3>1. Child(e) \in Envs /\ fork[e].pn \in Vas
      BY <2>6, WhileCopying
    <3> QED
      BY <2>6, <3>1 DEF Private!Next
  <2>7. CASE V0Step(e)
    <3>1. CASE V0Alloc(e) \/ V0Map(e) \/ V0Unmap(e)
      BY <3>1, V0Unseen
    <3>2. CASE V0Copy(e)
      BY <2>6, <3>2, V0CopySeen DEF V0Copy, Forks, Runs
    <3>3. CASE V0Share(e)
      BY <2>6, <3>3, ShareSeen DEF V0Share, Forks, Runs
    <3> QED
      BY <2>7, <3>1, <3>2, <3>3 DEF V0Step
  <2>8. CASE DupCow(e)
    <3>1. fork[e].at \in {"map", "remap"} /\ state[e] = "alive"
      BY <2>8 DEF DupCow, Forks, Runs
    <3> QED
      BY <2>6, <2>8, <3>1, DupCowMapSeen, DupCowRemapSeen
  <2>9. CASE DupShared(e)
    BY <2>6, <2>9, ShareSeen DEF DupShared, Forks, Runs
  <2>10. CASE ForkUpcall(e)
    BY <2>10, UpcallUnseen
  <2>11. CASE ForkEnd(e)
    <3>1. Private!Start(Child(e)) /\ Child(e) \in Envs
      BY <2>11, EndSeen DEF ForkEnd, Forks, ForkInv, ForkOK, InFork
    <3> QED
      BY <3>1 DEF Private!Next
  <2>12. CASE Exit(e)
    <3>1. Private!Exit(e)
      BY <2>12, KilledSeen DEF Exit
    <3> QED
      BY <3>1 DEF Private!Next
  <2> QED
    BY <2>1, <2>2, <2>3, <2>4, <2>5, <2>7, <2>8, <2>9, <2>10, <2>11, <2>12 DEF Step
<1> QED
  BY <1>1, <1>2

\* fork() and fork_v0() give every environment a memory of its own: a child
\* starts with copies of its parent's pages, each taken at one moment of the
\* call, and no write of one is ever read by another, whatever is shared and
\* whoever copies it when (fork, fork_v0, duppage, pgfault).
THEOREM ForkGivesPrivateMemory == Spec => PrivateSpec
<1>1. Init => Private!Init
  BY InitSeen
<1>2. CowInv /\ CowInv' /\ [Next]_vars => [Private!Next]_Private!vars
  BY StepSeen
<1> QED
  BY <1>1, <1>2, CowInvHolds, PTL DEF Spec, PrivateSpec, Private!Spec
==============================================================================
