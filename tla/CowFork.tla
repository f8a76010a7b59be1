-------------------------------- MODULE CowFork -------------------------------
(***************************************************************************)
(* fork() of the user library (lib/fork.c), copy-on-write, and its         *)
(* forerunner fork_v0(), which copies.  The parent duplicates its page     *)
(* table into the child one system call at a time, while it goes on        *)
(* writing its own stack and while its relatives write and copy the pages  *)
(* they share with it.  The page-fault handler is user code too: three     *)
(* system calls and a copy.                                                *)
(*                                                                         *)
(* What the system calls do to page tables is module Memory's; here a      *)
(* frame is free when no page table holds it.  Any environment may be      *)
(* killed between two steps (which is also what its panics amount to: a    *)
(* call that finds no memory).                                             *)
(***************************************************************************)
EXTENDS Naturals, FiniteSets

CONSTANTS Envs,      \* slots of envs[]
          Frames,    \* physical pages
          Values,    \* what a page may contain
          Zero,      \* what page_alloc(ALLOC_ZERO) returns, and no program has
          NData,     \* pages of data, between the text and the stack
          NoEnv, NoFrame, Undefined

ASSUME CowAssumption == /\ NData \in Nat
                        /\ Zero \in Values /\ Undefined \notin Values
                        /\ NoEnv \notin Envs /\ NoFrame \notin Frames

Vas == 1 .. NData + 2          \* pages below UTOP, the exception stack apart
Text == 1                      \* a page of the program's text
Stack == NData + 2             \* the page at USTACKTOP - PGSIZE
NoVa == 0

Perms == {"none", "RO", "COW", "W"}
Unmapped == [frame |-> NoFrame, perm |-> "none"]

VARIABLES
    version,  \* which of the two the programs call: "fork" or "fork_v0"
    state,    \* "free", "building" (after sys_exofork()), "alive"
    pt,       \* the page table of each environment
    temp,     \* what it maps at PFTEMP (pgfault) and UTEMP (fork_v0)
    content,  \* what each physical page contains
    fork,     \* where it is in fork(): the child, the page number, the step
    fault,    \* where it is in pgfault(): the page and the step
    upcall    \* whether env_pgfault_upcall is set

vars == <<version, state, pt, temp, content, fork, fault, upcall>>

Written == Values \ {Zero}   \* no page of a program is blank

NotForking == [child |-> NoEnv, pn |-> 1, at |-> "idle"]
NotFaulting == [va |-> NoVa, at |-> "idle"]

NoTemp == [pftemp |-> NoFrame, utemp |-> NoFrame]
Temps == {temp[e].pftemp : e \in Envs} \cup {temp[e].utemp : e \in Envs}
FreeFrames == Frames \ ({pt[e][va].frame : e \in Envs, va \in Vas} \cup Temps)

\* The first environment of i386_init().
Init == \E first \in Envs, frame \in [Vas -> Frames] :
    /\ \A va, vb \in Vas : frame[va] = frame[vb] => va = vb
    /\ version \in {"fork", "fork_v0"}
    /\ state = [e \in Envs |-> IF e = first THEN "alive" ELSE "free"]
    /\ pt = [e \in Envs |-> [va \in Vas |->
                IF e = first THEN [frame |-> frame[va], perm |-> IF va = Text THEN "RO" ELSE "W"]
                ELSE Unmapped]]
    /\ temp = [e \in Envs |-> NoTemp]
    /\ \E v \in Written : content = [f \in Frames |-> IF \E va \in Vas : frame[va] = f THEN v ELSE Zero]
    /\ fork = [e \in Envs |-> NotForking]
    /\ fault = [e \in Envs |-> NotFaulting]
    /\ upcall = [e \in Envs |-> FALSE]

-----------------------------------------------------------------------------
(* User code outside the handler: programs write, and fork() writes its    *)
(* own stack.                                                              *)

Runs(e) == state[e] = "alive" /\ fault[e] = NotFaulting
Writes(e, va) == Runs(e) /\ (fork[e] = NotForking \/ va = Stack)

Write(e, va, v) == /\ Writes(e, va) /\ pt[e][va].perm = "W"
                   /\ content' = [content EXCEPT ![pt[e][va].frame] = v]
                   /\ UNCHANGED <<state, pt, temp, fork, fault, upcall>>

\* env_free(): by exit(), panic(), sys_env_destroy() or a fault.
Killed(e) == /\ state' = [state EXCEPT ![e] = "free"]
             /\ pt' = [pt EXCEPT ![e] = [va \in Vas |-> Unmapped]]
             /\ temp' = [temp EXCEPT ![e] = NoTemp]
             /\ fork' = [fork EXCEPT ![e] = NotForking]
             /\ fault' = [fault EXCEPT ![e] = NotFaulting]
             /\ UNCHANGED <<content, upcall>>

Exit(e) == state[e] = "alive" /\ Killed(e)

\* A write to a page that is not writable enters pgfault(), or kills without
\* an upcall.  Read-only pages are copied like copy-on-write ones: of the test
\* that should panic, (err & FEC_WR) & !(pte & PTE_COW), the bits never meet.
WriteFault(e, va) ==
    /\ Writes(e, va) /\ pt[e][va].perm \in {"RO", "COW"}
    /\ IF upcall[e] THEN /\ fault' = [fault EXCEPT ![e] = [va |-> va, at |-> "alloc"]]
                         /\ UNCHANGED <<state, pt, temp, content, fork, upcall>>
                    ELSE Killed(e)

-----------------------------------------------------------------------------
(* pgfault(), on the exception stack.                                      *)

FaultGoto(e, l) == fault' = [fault EXCEPT ![e].at = l]

\* sys_page_alloc(0, PFTEMP, ...).
FaultAlloc(e) == \E f \in FreeFrames :
    /\ fault[e].at = "alloc"
    /\ temp' = [temp EXCEPT ![e].pftemp = f]
    /\ content' = [content EXCEPT ![f] = Zero]
    /\ FaultGoto(e, "copy")
    /\ UNCHANGED <<state, pt, fork, upcall>>

\* Mutant of FaultCopy: no memmove().
FaultCopyForgotten(e) == /\ fault[e].at = "copy"
                         /\ FaultGoto(e, "map")
                         /\ UNCHANGED <<state, pt, temp, content, fork, upcall>>

\* memmove(PFTEMP, addr, PGSIZE).
FaultCopy(e) == /\ fault[e].at = "copy"
                /\ content' = [content EXCEPT ![temp[e].pftemp] = content[pt[e][fault[e].va].frame]]
                /\ FaultGoto(e, "map")
                /\ UNCHANGED <<state, pt, temp, fork, upcall>>

\* sys_page_map(0, PFTEMP, 0, addr, W).
FaultMap(e) == /\ fault[e].at = "map"
               /\ pt' = [pt EXCEPT ![e][fault[e].va] = [frame |-> temp[e].pftemp, perm |-> "W"]]
               /\ FaultGoto(e, "unmap")
               /\ UNCHANGED <<state, temp, content, fork, upcall>>

\* sys_page_unmap(0, PFTEMP), and the write is tried again.
FaultUnmap(e) == /\ fault[e].at = "unmap"
                 /\ temp' = [temp EXCEPT ![e].pftemp = NoFrame]
                 /\ fault' = [fault EXCEPT ![e] = NotFaulting]
                 /\ UNCHANGED <<state, pt, content, fork, upcall>>

-----------------------------------------------------------------------------
(* fork().                                                                 *)

\* set_pgfault_handler() and sys_exofork().
ForkBegin(e, child) ==
    /\ version = "fork"
    /\ Runs(e) /\ fork[e] = NotForking /\ state[child] = "free"
    /\ state' = [state EXCEPT ![child] = "building"]
    /\ upcall' = [upcall EXCEPT ![e] = TRUE, ![child] = FALSE]
    /\ fork' = [fork EXCEPT ![e] = [child |-> child, pn |-> 1, at |-> "map"]]
    /\ UNCHANGED <<pt, temp, content, fault>>

Forks(e, at) == Runs(e) /\ fork[e].at = at
NextPage(f, loop, after) == [f EXCEPT !.pn = @ + 1, !.at = IF f.pn = Stack THEN after ELSE loop]

\* Mutant of DupTarget: duppage() changes its own mapping first.
DupTargetSwapped(e) == IF fork[e].at = "map" THEN e ELSE fork[e].child

\* duppage() maps a writable page copy-on-write twice: in the child, then in
\* the parent.
DupTarget(e) == IF fork[e].at = "map" THEN fork[e].child ELSE e

DupCow(e) ==
    LET va == fork[e].pn IN
    /\ Forks(e, "map") \/ Forks(e, "remap")
    /\ pt[e][va].perm \in {"W", "COW"}
    /\ pt' = [pt EXCEPT ![DupTarget(e)][va] = [frame |-> pt[e][va].frame, perm |-> "COW"]]
    /\ fork' = [fork EXCEPT ![e] = IF @.at = "map" THEN [@ EXCEPT !.at = "remap"]
                                   ELSE NextPage(@, "map", "upcall")]
    /\ UNCHANGED <<state, temp, content, fault, upcall>>

\* ... and shares a read-only one.
DupShared(e) ==
    LET va == fork[e].pn IN
    /\ Forks(e, "map")
    /\ pt[e][va].perm = "RO"
    /\ pt' = [pt EXCEPT ![fork[e].child][va] = pt[e][va]]
    /\ fork' = [fork EXCEPT ![e] = NextPage(@, "map", "upcall")]
    /\ UNCHANGED <<state, temp, content, fault, upcall>>

\* The child's exception stack and sys_env_set_pgfault_upcall().
ForkUpcall(e) == /\ Forks(e, "upcall")
                 /\ upcall' = [upcall EXCEPT ![fork[e].child] = TRUE]
                 /\ fork' = [fork EXCEPT ![e].at = "start"]
                 /\ UNCHANGED <<state, pt, temp, content, fault>>

\* sys_env_set_status(child, ENV_RUNNABLE).
ForkEnd(e) == /\ Forks(e, "start")
              /\ state' = [state EXCEPT ![fork[e].child] = "alive"]
              /\ fork' = [fork EXCEPT ![e] = NotForking]
              /\ UNCHANGED <<pt, temp, content, fault, upcall>>

-----------------------------------------------------------------------------
(* fork_v0().                                                              *)

ForkV0Begin(e, child) ==
    /\ version = "fork_v0"
    /\ Runs(e) /\ fork[e] = NotForking /\ state[child] = "free"
    /\ state' = [state EXCEPT ![child] = "building"]
    /\ upcall' = [upcall EXCEPT ![child] = FALSE]
    /\ fork' = [fork EXCEPT ![e] = [child |-> child, pn |-> 1, at |-> "share"]]
    /\ UNCHANGED <<pt, temp, content, fault>>

\* dup_or_share() of a page that is not writable.
V0Share(e) ==
    LET va == fork[e].pn IN
    /\ Forks(e, "share") /\ pt[e][va].perm # "W"
    /\ pt' = [pt EXCEPT ![fork[e].child][va] = [frame |-> pt[e][va].frame, perm |-> "RO"]]
    /\ fork' = [fork EXCEPT ![e] = NextPage(@, "share", "start")]
    /\ UNCHANGED <<state, temp, content, fault, upcall>>

\* A writable one: sys_page_alloc() in the child,
V0Alloc(e) == \E f \in FreeFrames :
    LET va == fork[e].pn IN
    /\ Forks(e, "share") /\ pt[e][va].perm = "W"
    /\ pt' = [pt EXCEPT ![fork[e].child][va] = [frame |-> f, perm |-> "W"]]
    /\ content' = [content EXCEPT ![f] = Zero]
    /\ fork' = [fork EXCEPT ![e].at = "utemp"]
    /\ UNCHANGED <<state, temp, fault, upcall>>

\* sys_page_map() of the child's page at UTEMP,
V0Map(e) == /\ Forks(e, "utemp")
            /\ temp' = [temp EXCEPT ![e].utemp = pt[fork[e].child][fork[e].pn].frame]
            /\ fork' = [fork EXCEPT ![e].at = "copy"]
            /\ UNCHANGED <<state, pt, content, fault, upcall>>

\* memmove(), and
V0Copy(e) == /\ Forks(e, "copy")
             /\ content' = [content EXCEPT ![temp[e].utemp] = content[pt[e][fork[e].pn].frame]]
             /\ fork' = [fork EXCEPT ![e].at = "unmap"]
             /\ UNCHANGED <<state, pt, temp, fault, upcall>>

\* sys_page_unmap().
V0Unmap(e) == /\ Forks(e, "unmap")
              /\ temp' = [temp EXCEPT ![e].utemp = NoFrame]
              /\ fork' = [fork EXCEPT ![e] = NextPage(@, "share", "start")]
              /\ UNCHANGED <<state, pt, content, fault, upcall>>

V0Step(e) == V0Share(e) \/ V0Alloc(e) \/ V0Map(e) \/ V0Copy(e) \/ V0Unmap(e)

-----------------------------------------------------------------------------
Step(e) == \/ \E va \in Vas, v \in Written : Write(e, va, v)
           \/ \E va \in Vas : WriteFault(e, va)
           \/ FaultAlloc(e) \/ FaultCopy(e) \/ FaultMap(e) \/ FaultUnmap(e)
           \/ \E child \in Envs : ForkBegin(e, child) \/ ForkV0Begin(e, child)
           \/ V0Step(e)
           \/ DupCow(e) \/ DupShared(e) \/ ForkUpcall(e) \/ ForkEnd(e)
           \/ Exit(e)

Next == UNCHANGED version /\ \E e \in Envs : Step(e)
Spec == Init /\ [][Next]_vars

-----------------------------------------------------------------------------
TypeOK == /\ version \in {"fork", "fork_v0"}
          /\ state \in [Envs -> {"free", "building", "alive"}]
          /\ pt \in [Envs -> [Vas -> [frame : Frames \cup {NoFrame}, perm : Perms]]]
          /\ temp \in [Envs -> [pftemp : Frames \cup {NoFrame}, utemp : Frames \cup {NoFrame}]]
          /\ content \in [Frames -> Values]
          /\ fork \in [Envs -> [child : Envs \cup {NoEnv}, pn : 1 .. Stack + 1,
                                at : {"idle", "map", "remap", "share", "utemp", "copy", "unmap",
                                      "upcall", "start"}]]
          /\ fault \in [Envs -> [va : Vas \cup {NoVa},
                                 at : {"idle", "alloc", "copy", "map", "unmap"}]]
          /\ upcall \in [Envs -> BOOLEAN]

Mappings(f) == {x \in Envs \X Vas : pt[x[1]][x[2]].frame = f}

\* A page somebody may write is nobody else's, at any moment a program can
\* observe: the only other mapping is the one duppage() has just made in the
\* child it is building (duppage maps the child before it gives up its own
\* write access; pgfault never makes a shared page writable).
WritableAlone == \A e \in Envs, va \in Vas : pt[e][va].perm = "W" =>
    \A x \in Mappings(pt[e][va].frame) : \/ x = <<e, va>>
                                         \/ /\ x = <<fork[e].child, va>>
                                            /\ fork[e].at = "remap" /\ fork[e].pn = va

\* An environment with copy-on-write pages has the handler that copies them
\* (fork gives the child its upcall before it starts it).
CowHasHandler == \A e \in Envs :
    state[e] = "alive" /\ (\E va \in Vas : pt[e][va].perm = "COW") => upcall[e]

\* The page at PFTEMP is only there while pgfault() works on it, and is its
\* own; the page at UTEMP only while fork_v0() copies, and is the child's.  So
\* two faults of relatives never share it, and memory does not pile up.
TempInHandler == \A e \in Envs :
    /\ temp[e].pftemp # NoFrame =>
          /\ \A d \in Envs : temp[d].pftemp = temp[e].pftemp => d = e
          /\ \/ fault[e].at \in {"copy", "map"} /\ Mappings(temp[e].pftemp) = {}
             \/ fault[e].at = "unmap" /\ Mappings(temp[e].pftemp) = {<<e, fault[e].va>>}
    /\ temp[e].utemp # NoFrame =>
          /\ fork[e].at \in {"copy", "unmap"}
          /\ Mappings(temp[e].utemp) = {<<fork[e].child, fork[e].pn>>}

\* Sharing is safe at every moment: nobody writes what another maps, who has
\* shared pages can copy them, and the copies in the making are one's own.
SharingSafe == TypeOK /\ WritableAlone /\ CowHasHandler /\ TempInHandler

builder == [c \in Envs |-> IF \E e \in Envs : fork[e].child = c
                           THEN CHOOSE e \in Envs : fork[e].child = c ELSE c]

\* What an environment reads.  The child under construction has a page from
\* the moment its parent can no longer write it, or has copied it.
Given(e, va) == LET parent == builder[e] IN
    /\ parent # e
    /\ fork[parent].pn = va => fork[parent].at \notin {"utemp", "copy"}
    /\ pt[parent][va].perm = "W" => pt[parent][va].frame # pt[e][va].frame

Has(e, va) == pt[e][va] # Unmapped /\ (state[e] = "building" => Given(e, va))

mem == [e \in Envs |-> [va \in Vas |->
          IF Has(e, va) THEN content[pt[e][va].frame] ELSE Undefined]]

Private == INSTANCE PrivateMemory WITH Values <- Written

\* Whatever is shared, and whoever copies it when, every environment sees a
\* private memory, and a child starts with copies of its parent's pages; a
\* blank page never shows (fork, fork_v0, pgfault).
PrivateSpec == Private!Spec
===============================================================================
