--------------------------------- MODULE Stabs ---------------------------------
(***************************************************************************)
(* kern/kdebug.c: the search of the table of stabs for the function and    *)
(* the line of an instruction, as functions of the table.  The table is    *)
(* indexed from 0; a stab is [n_type, n_value, n_desc].                    *)
(***************************************************************************)
EXTENDS Integers, Sequences, FiniteSets, FiniteSetsExt

\* The rightmost stab of a type in stabs[l .. m], or l - 1.
FindType(stabs, m, l, type) == Max({l - 1} \cup {i \in l .. m : stabs[i].n_type = type})

\* One turn of the loop of stab_binsearch().
Halve(stabs, s, type) ==
    LET true_m == (s.l + s.r) \div 2
        m == FindType(stabs, true_m, s.l, type)
        t == [s EXCEPT !.any = TRUE]
    IN  CASE m < s.l -> [s EXCEPT !.l = true_m + 1]
          [] m >= s.l /\ stabs[m].n_value < s.addr -> [t EXCEPT !.left = m, !.l = true_m + 1]
          [] m >= s.l /\ stabs[m].n_value > s.addr -> [t EXCEPT !.right = m - 1, !.r = m - 1]
          [] OTHER -> [t EXCEPT !.left = m, !.l = m, !.addr = @ + 1]

Turn(stabs, s, type) == IF s.l <= s.r THEN Halve(stabs, s, type) ELSE s

\* The loop, which has ended after two turns for each stab at most: one that
\* leaves l and r as they are has found addr, and the next one does not.
Search(stabs, s, type) ==
    LET turns == 2 * (s.r - s.l + 1)
        after[k \in 0 .. turns] == IF k = 0 THEN s ELSE Turn(stabs, after[k - 1], type)
    IN  after[turns]

\* stab_binsearch(): *region_left and *region_right after it.
stab_binsearch(stabs, left, right, type, addr) ==
    LET s == Search(stabs, [l |-> left, r |-> right, left |-> left, right |-> right,
                            addr |-> addr, any |-> FALSE], type)
        last == FindType(stabs, s.right, s.left + 1, type)
    IN  IF s.any THEN <<last, s.right>> ELSE <<s.left, s.left - 1>>

\* What it promises when some stab of the type is not above addr: the last of
\* them, and the place before the next one.  When one is at addr and the next
\* at addr + 1 it is the next that is found, because addr has been counted up.
Promised(stabs, left, right, type, addr) ==
    LET ofType == {i \in left .. right : stabs[i].n_type = type}
        below == {i \in ofType : stabs[i].n_value <= addr}
        above == {i \in ofType : stabs[i].n_value > addr}
    IN  below # {} /\ ~ {addr, addr + 1} \subseteq {stabs[i].n_value : i \in ofType} =>
            stab_binsearch(stabs, left, right, type, addr) =
                <<Max(below), IF above = {} THEN right ELSE Min(above) - 1>>

-----------------------------------------------------------------------------
\* The rightmost of stabs[file .. line] that names a source file, or file - 1.
FindSource(stabs, line, file) ==
    LET names(i) == stabs[i].n_type = "SOL" \/ (stabs[i].n_type = "SO" /\ stabs[i].n_value # 0)
    IN  Max({file - 1} \cup {i \in file .. line : names(i)})

\* The lines of a function are counted from its start.
Offset(stabs, fun, addr) == IF fun[1] <= fun[2] THEN addr - stabs[fun[1]].n_value ELSE addr

\* debuginfo_eip(), for a table of n stabs that is in place; line -1 stands
\* for no information, 0 for an instruction without a line.
debuginfo_eip(stabs, n, addr) ==
    LET file == stab_binsearch(stabs, 0, n - 1, "SO", addr)
        fun == stab_binsearch(stabs, file[1], file[2], "FUN", addr)
        within == IF fun[1] <= fun[2] THEN fun ELSE file
        line == stab_binsearch(stabs, within[1], within[2], "SLINE", Offset(stabs, fun, addr))
        params == {i \in fun[1] + 1 .. fun[2] - 1 :
                        \A j \in fun[1] + 1 .. i : stabs[j].n_type = "PSYM"}
    IN  [line |-> CASE file[1] = 0 -> -1
                    [] file[1] # 0 /\ line[1] <= line[2] -> stabs[line[1]].n_desc
                    [] OTHER -> 0,
         fn_addr |-> IF fun[1] <= fun[2] THEN stabs[fun[1]].n_value ELSE addr,
         source |-> FindSource(stabs, line[1], file[1]),
         narg |-> Cardinality(params)]

\* A table as a compiler makes it, of one source file between two others: two
\* functions, of one and of no parameters, with two lines each, the second of
\* which is from a header.
Stab(type, value, desc) == [n_type |-> type, n_value |-> value, n_desc |-> desc]
Compiled(start, first, second, end) ==
    LET table == << Stab("HDR", 0, 0), Stab("SO", 0, 0), Stab("FUN", 0, 0), Stab("SLINE", 0, 9), Stab("SO", start, 0),
                    Stab("FUN", start, 0), Stab("PSYM", 8, 0), Stab("SLINE", 0, 1), Stab("SLINE", first, 2),
                    Stab("FUN", second, 0), Stab("SLINE", 0, 3), Stab("SOL", 0, 0), Stab("SLINE", first, 4),
                    Stab("SO", end, 0) >>
    IN  [i \in 0 .. Len(table) - 1 |-> table[i + 1]]

\* Every instruction of the file is given its function, its line, and the
\* source and parameters of that function.
Located(start, first, second, end, addr) ==
    LET info == debuginfo_eip(Compiled(start, first, second, end), 14, addr)
        late == addr >= second
        past == addr >= (IF late THEN second ELSE start) + first
    IN  info = [line |-> IF late THEN IF past THEN 4 ELSE 3 ELSE IF past THEN 2 ELSE 1,
                fn_addr |-> IF late THEN second ELSE start,
                source |-> IF late /\ past THEN 11 ELSE 4,
                narg |-> IF late THEN 0 ELSE 1]
=============================================================================
