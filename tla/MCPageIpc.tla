------------------------------ MODULE MCPageIpc -------------------------------
(* Tlb, and with it PageIpc and Memory, for TLC.  No environment and no CPU   *)
(* is special; nor is a page: View leaves out their names and keeps what each *)
(* is used for, which is the same for two states that differ in the names.    *)
EXTENDS Tlb

Symmetry == Permutations(Envs) \cup Permutations(Cpus)

Uses(p) == <<m.pp_ref[p], {i \in DOMAIN m.page_free_list : m.page_free_list[i] = p},
             Directories(p), TablesIn(p),
             {<<e, va, w>> \in Envs \X Vas \X BOOLEAN : m.pte[e][va] = [page |-> p, w |-> w]},
             {<<c, va, w>> \in Cpus \X Vas \X BOOLEAN : tlb[c][va] = [page |-> p, w |-> w]}>>

View == <<[u \in {Uses(p) : p \in Pages} |-> Cardinality({p \in Pages : Uses(p) = u})],
          parent, ipcVars, curenv, cr3, remote, started, zombies>>
=============================================================================
