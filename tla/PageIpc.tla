------------------------------- MODULE PageIpc --------------------------------
(***************************************************************************)
(* Sending pages by IPC (sys_ipc_recv and sys_ipc_try_send of              *)
(* kern/syscall.c) on top of Memory.  The send maps a page in two steps    *)
(* inside the receiver, checks its source last, and reads a page table     *)
(* entry it may not have found.  Values, senders and statuses are in       *)
(* module Kernel.  As in Memory, no page is mapped 2^16 times.             *)
(***************************************************************************)
EXTENDS Memory

VARIABLES
    recving,   \* env_ipc_recving; an environment that receives is blocked
    dstva,     \* env_ipc_dstva: NoVa is address 0, "no page" for the sender
    ipc_perm,  \* env_ipc_perm
    panicked   \* the kernel has panicked

ipcVars == <<recving, dstva, ipc_perm, panicked>>
allVars == <<vars, ipcVars>>

NoVa == 0
Perm(w) == IF w THEN "W" ELSE "R"

IpcInit == /\ Init
           /\ recving = [e \in Envs |-> FALSE]
           /\ dstva = [e \in Envs |-> NoVa]
           /\ ipc_perm = [e \in Envs |-> "none"]
           /\ panicked = FALSE

-----------------------------------------------------------------------------
\* An environment that may make a system call.
Calls(e) == ~panicked /\ e \in Alive /\ ~recving[e]

\* The calls of Memory; env_alloc() lowers the flag of the slot it takes.
Map(e) == Calls(e) /\ MapCall(e) /\ UNCHANGED ipcVars

Exofork(e, child) == /\ Calls(e) /\ SysExofork(e, child)
                     /\ recving' = [recving EXCEPT ![child] = FALSE]
                     /\ UNCHANGED <<dstva, ipc_perm, panicked>>

Free(e) == ~panicked /\ EnvFree(e) /\ UNCHANGED ipcVars

\* sys_ipc_recv() with an address it accepts.
SysIpcRecv(e, va) == /\ Calls(e)
                     /\ recving' = [recving EXCEPT ![e] = TRUE]
                     /\ dstva' = [dstva EXCEPT ![e] = va]
                     /\ UNCHANGED <<vars, ipc_perm, panicked>>

\* The first tests of sys_ipc_try_send().
MaySend(e, f) == Calls(e) /\ f \in Alive /\ recving[f]

\* Its end: f has its message.
Sent(f, perm) == /\ recving' = [recving EXCEPT ![f] = FALSE]
                 /\ ipc_perm' = [ipc_perm EXCEPT ![f] = perm]
                 /\ UNCHANGED <<parent, dstva, panicked>>

\* No page is sent (srcva >= UTOP).
SendValue(e, f) == MaySend(e, f) /\ Sent(f, "none") /\ UNCHANGED m

\* Whether the test on srcpte may let a send through.  Without a page at srcva
\* page_lookup() has not set srcpte, which may then point at anything.
SrcPteAllows(e, srcva, w) == m.pte[e][srcva] # Absent => (w => m.pte[e][srcva].w)

\* A page is sent but not wanted: env_ipc_perm keeps what it was.
SendPageUnwanted(e, f, srcva, w) ==
    /\ MaySend(e, f) /\ dstva[f] = NoVa
    /\ SrcPteAllows(e, srcva, w)
    /\ Sent(f, ipc_perm[f]) /\ UNCHANGED m

\* Mutant of IpcPageMap: the sender's page is not mapped over the new one.
IpcPageMapForgotten(n, e, srcva, f, va, w) == EnvPageAlloc(n, f, va, w)

\* env_page_alloc() puts a new page at f's dstva, then env_page_map() the
\* sender's; the second step is not reached without memory for the first.
IpcPageMap(n, e, srcva, f, va, w) ==
    LET alloc == EnvPageAlloc(n, f, va, w)
        pte == alloc.pte[e][srcva]
    IN  IF RoomFor(n, f, va) /\ MayMap(pte, w) THEN PageInsert(alloc, f, pte.page, va, PlainPerm(w))
        ELSE alloc

\* A page is sent and wanted.  Without memory, or without a page at srcva, the
\* send fails, but f's memory has changed.
SendPage(e, f, srcva, w) ==
    /\ MaySend(e, f) /\ dstva[f] # NoVa
    /\ SrcPteAllows(e, srcva, w)
    /\ m' = IpcPageMap(m, e, srcva, f, dstva[f], w)
    /\ IF RoomFor(m, f, dstva[f]) /\ MayMap(m.pte[e][srcva], w)
       THEN Sent(f, Perm(w))
       ELSE UNCHANGED <<parent, ipcVars>>

\* The kernel follows the srcpte that page_lookup() has not set.
SendPanics(e, f, srcva) == /\ MaySend(e, f) /\ m.pte[e][srcva] = Absent
                           /\ panicked' = TRUE
                           /\ UNCHANGED <<vars, recving, dstva, ipc_perm>>

\* The count of the page at srcva, if there is one, does not wrap.
CountableAt(e, srcva) == m.pte[e][srcva] # Absent => Countable(m, m.pte[e][srcva].page)

SysIpcTrySend(e, f) ==
    \/ SendValue(e, f)
    \/ \E srcva \in Vas, w \in BOOLEAN :
          \/ CountableAt(e, srcva) /\ SendPage(e, f, srcva, w)
          \/ SendPageUnwanted(e, f, srcva, w)
    \/ \E srcva \in Vas : SendPanics(e, f, srcva)

IpcNext == \E e \in Envs : \/ Map(e) \/ Free(e)
                           \/ \E f \in Envs : Exofork(e, f) \/ SysIpcTrySend(e, f)
                           \/ \E va \in Vas \cup {NoVa} : SysIpcRecv(e, va)

IpcSpec == IpcInit /\ [][IpcNext]_allVars

-----------------------------------------------------------------------------
IpcTypeOK == /\ TypeOK
             /\ recving \in [Envs -> BOOLEAN]
             /\ dstva \in [Envs -> Vas \cup {NoVa}]
             /\ ipc_perm \in [Envs -> {"none", "R", "W"}]
             /\ panicked \in BOOLEAN

\* Every page is accounted for whatever call of MapCall or send fails half-way:
\* the counts are those of its uses, what is free is used by nobody, and the
\* page tables are their environment's own, nobody's memory, and there where
\* they are needed.
PagesAccountedFor == /\ IpcTypeOK /\ RefCountsRight /\ FreeMeansUnused
                     /\ TablesPrivate /\ MappedUnderTable

Wakes(f) == recving[f] /\ ~recving'[f] /\ f \in Alive

\* A receiver that asked for a page and is told a permission maps, where it
\* asked for it, a page that another environment maps with at least that
\* permission: the sender's page, not the one allocated on the way
\* (sys_ipc_try_send).
PageDelivered == [][\A f \in Envs :
    Wakes(f) /\ dstva[f] # NoVa /\ ipc_perm'[f] # "none" =>
        LET got == m'.pte[f][dstva[f]] IN
        /\ got # Absent /\ Perm(got.w) = ipc_perm'[f]
        /\ \E e \in Envs \ {f}, va \in Vas :
              m.pte[e][va].page = got.page /\ (got.w => m.pte[e][va].w)]_allVars
=============================================================================
