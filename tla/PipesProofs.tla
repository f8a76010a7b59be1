------------------------------ MODULE PipesProofs ------------------------------
(***************************************************************************)
(* Proofs about processes that are joined by pipes, for any number of      *)
(* commands and of numbers, and pipes of any size.  Of a line of the shell *)
(* (LineInv): which ends each process has open at each place of its code,  *)
(* when the children of a manager live, and that none is made twice.  Of   *)
(* the sieve (SieveInv): the same of its chain, and what is on the way in  *)
(* each pipe, given the last number that each process has taken.           *)
(***************************************************************************)
EXTENDS MCPipes, Integers, FiniteSetTheorems, TLAPS

\* A set of natural numbers that is not empty has a least one.
LEMMA LeastExists ==
    ASSUME NEW S, S \subseteq Nat, S # {}
    PROVE  \E i \in S : \A j \in S : i <= j
<1>1. PICK s \in S : TRUE
  OBVIOUS
<1> DEFINE R == StrictSubsetOrdering(0 .. s)
           T == {0 .. k : k \in S \cap (0 .. s)}
<1>2. IsWellFoundedOn(R, FiniteSubsetsOf(0 .. s))
  BY FS_StrictSubsetOrderingWellFounded
<1>3. T \subseteq FiniteSubsetsOf(0 .. s) /\ T # {}
  <2>1. \A k \in S \cap (0 .. s) : IsFiniteSet(0 .. k) /\ 0 .. k \subseteq 0 .. s
    BY FS_Interval
  <2> QED
    BY <1>1, <2>1 DEF FiniteSubsetsOf
<1>4. PICK x \in T : \A y \in T : <<y, x>> \notin R
  <2> HIDE DEF R, T
  <2> QED BY <1>2, <1>3, WFMin
<1>5. PICK k \in S \cap (0 .. s) : x = 0 .. k
  OBVIOUS
<1>6. ASSUME NEW j \in S, j < k PROVE FALSE
  <2>1. 0 .. j \in T /\ 0 .. j \subseteq 0 .. k /\ 0 .. k \subseteq 0 .. s
    BY <1>5, <1>6
  <2>2. 0 .. j # 0 .. k
    <3>1. k \in 0 .. k /\ k \notin 0 .. j
      BY <1>5, <1>6
    <3> QED BY <3>1
  <2>3. <<0 .. j, 0 .. k>> \in R
    BY <2>1, <2>2 DEF StrictSubsetOrdering
  <2> QED
    BY <1>4, <1>5, <2>1, <2>3
<1> QED
  BY <1>5, <1>6

-----------------------------------------------------------------------------
(* The line of the shell.                                                  *)

\* A manager has its own pipe, or will.
Forking == {"left", "right", "close"}
\* It has yet to fork its right child, and its left one.
Young == {"forked", "pipe", "left", "right"}
Younger == {"forked", "pipe", "left"}

LineTypeOK ==
    /\ pc \in [Procs -> {"none", "forked", "pipe", "left", "right", "close", "wait left", "wait right",
                         "exit", "zombie", "runs"}]
    /\ \A i \in 1 .. N : pc[C(i)] \in {"none", "forked", "runs", "zombie"}
    /\ \A i \in Pipes : pc[M(i)] # "runs"
    /\ readers \in [Pipes -> SUBSET Procs] /\ writers \in [Pipes -> SUBSET Procs]

\* The children of a manager live from its fork() to its waitpid().
ChildrenRight ==
    \A i \in Pipes :
        /\ pc[M(i)] \in Younger \cup {"none"} \/ <<i, "left">> \in failed => pc[C(i)] = "none"
        /\ pc[M(i)] \in Young \cup {"none"} \/ <<i, "right">> \in failed => pc[Right(i)] = "none"
        /\ pc[M(i)] = "wait right" => IF <<i, "left">> \in failed THEN pc[Right(i)] = "none" ELSE pc[C(i)] = "none"
        /\ pc[M(i)] \in {"exit", Done} => pc[C(i)] = "none" /\ pc[Right(i)] = "none"

\* A manager that has lived, or whose fork() has failed, is not made again:
\* none before it is to fork.
MadeOnce ==
    \A i \in Pipes :
        /\ pc[M(i)] # "none" \/ <<i, "left">> \in failed \/ <<i, "right">> \in failed =>
              \A j \in 1 .. i - 1 : pc[M(j)] \notin Young
        /\ <<i, "left">> \in failed => pc[M(i)] \notin Younger
        /\ <<i, "right">> \in failed => pc[M(i)] \notin Young

\* The pipes of which manager i, or command i, has ends open when it is at.
ManagerWrites(i, at, j) == (at \in Forking /\ j = i) \/ (at = "forked" /\ j = i - 1)
ManagerReads(i, at, j) == /\ at \notin {"none", Done}
                          /\ j = i - 1 \/ (at \in Forking /\ j = i) \/ (at = "forked" /\ j = i - 2)
CommandWrites(i, at, j) == /\ at \in {"forked", "runs"}
                           /\ j = i \/ (at = "forked" /\ i = N /\ j = N - 1)
CommandReads(i, at, j) == /\ at \in {"forked", "runs"}
                          /\ j = i - 1 \/ (at = "forked" /\ IF i = N THEN j = N - 2 ELSE j = i)

ManagerEnds(i) == /\ pc[M(i)] \in Forking => M(i) \in writers[i]
                  /\ \A j \in Pipes : /\ M(i) \in writers[j] => ManagerWrites(i, pc[M(i)], j)
                                      /\ M(i) \in readers[j] => ManagerReads(i, pc[M(i)], j)
CommandEnds(i) == /\ i \in Pipes /\ pc[C(i)] \in {"forked", "runs"} => C(i) \in writers[i]
                  /\ \A j \in Pipes : /\ C(i) \in writers[j] => CommandWrites(i, pc[C(i)], j)
                                      /\ C(i) \in readers[j] => CommandReads(i, pc[C(i)], j)
EndsRight == (\A i \in Pipes : ManagerEnds(i)) /\ (\A i \in 1 .. N : CommandEnds(i))

LineInv == LineTypeOK /\ ChildrenRight /\ MadeOnce /\ EndsRight

\* Managers and commands are told apart, and so are their names.
LEMMA Names ==
    /\ \A i, j : M(i) # C(j) /\ (M(i) = M(j) => i = j) /\ (C(i) = C(j) => i = j)
    /\ \A i \in Pipes : i \in 1 .. N /\ i \in Nat /\ i < N /\ i >= 1 /\ M(i) \in Procs /\ Right(i) \in Procs /\ Right(i) # M(i) /\ Right(i) # C(i)
    /\ \A i \in 1 .. N : C(i) \in Procs
    /\ \A i \in Pipes : (i = N - 1 /\ Right(i) = C(N)) \/ (i # N - 1 /\ i + 1 \in Pipes /\ Right(i) = M(i + 1))
    /\ \A p \in Procs : (\E i \in Pipes : p = M(i)) \/ (\E i \in 1 .. N : p = C(i))
    /\ N \in Nat /\ N > 1 /\ 1 \in Pipes /\ N \notin Pipes
<1>1. /\ \A i, j : M(i) # C(j) /\ (M(i) = M(j) => i = j) /\ (C(i) = C(j) => i = j)
  BY DEF M, C
<1>2. /\ \A i \in Pipes : i \in 1 .. N /\ i \in Nat /\ i < N /\ i >= 1 /\ M(i) \in Procs
      /\ \A i \in 1 .. N : C(i) \in Procs
      /\ \A i \in Pipes : i # N - 1 => i + 1 \in Pipes
      /\ N \in Nat /\ N > 1 /\ 1 \in Pipes /\ N \notin Pipes
  BY PipeAssumption DEF Pipes, Procs, Managers, Commands
<1>3. \A p \in Procs : (\E i \in Pipes : p = M(i)) \/ (\E i \in 1 .. N : p = C(i))
  BY DEF Procs, Managers, Commands
<1>4. \A i \in Pipes : (i = N - 1 /\ Right(i) = C(N)) \/ (i # N - 1 /\ i + 1 \in Pipes /\ Right(i) = M(i + 1))
  <2> TAKE i \in Pipes
  <2>1. CASE i = N - 1
    BY <2>1 DEF Right
  <2>2. CASE i # N - 1
    BY <1>2, <2>2 DEF Right
  <2> QED
    BY <2>1, <2>2
<1>5. N \in 1 .. N
  BY <1>2
<1>6. \A i \in Pipes : Right(i) \in Procs /\ Right(i) # M(i) /\ Right(i) # C(i)
  <2> TAKE i \in Pipes
  <2>1. i \in Nat /\ i # i + 1 /\ i # N
    BY <1>2
  <2> QED
    BY <1>1, <1>2, <1>4, <1>5, <2>1
<1> QED
  BY <1>1, <1>2, <1>3, <1>4, <1>6

\* A process that stays where it is, and has no end more and does not lose the
\* one that it writes.
LEMMA ManagerEndsKept ==
    ASSUME NEW i \in Pipes, ManagerEnds(i), pc'[M(i)] = pc[M(i)],
           pc[M(i)] \in Forking /\ M(i) \in writers[i] => M(i) \in writers'[i],
           \A j \in Pipes : /\ M(i) \in writers'[j] => M(i) \in writers[j]
                            /\ M(i) \in readers'[j] => M(i) \in readers[j]
    PROVE  ManagerEnds(i)'
BY DEF ManagerEnds

LEMMA CommandEndsKept ==
    ASSUME NEW i \in 1 .. N, CommandEnds(i), pc'[C(i)] = pc[C(i)],
           i \in Pipes /\ pc[C(i)] # "none" /\ C(i) \in writers[i] => C(i) \in writers'[i],
           \A j \in Pipes : /\ C(i) \in writers'[j] => C(i) \in writers[j]
                            /\ C(i) \in readers'[j] => C(i) \in readers[j]
    PROVE  CommandEnds(i)'
BY DEF CommandEnds

\* One that has no end at all, and is not where it should.
LEMMA NoEnds ==
    ASSUME NEW p, \A j \in Pipes : p \notin readers'[j] /\ p \notin writers'[j]
    PROVE  /\ \A i \in Pipes : p = M(i) /\ pc'[p] \notin Forking => ManagerEnds(i)'
           /\ \A i \in 1 .. N : p = C(i) /\ pc'[p] \notin {"forked", "runs"} => CommandEnds(i)'
BY DEF ManagerEnds, CommandEnds

LEMMA LineStarts == Init => LineInv
<1> SUFFICES ASSUME Init PROVE LineInv
  OBVIOUS
<1>1. /\ \A p \in Procs : pc[p] = IF p = M(1) THEN "pipe" ELSE "none"
      /\ failed = {} /\ \A i \in Pipes : readers[i] = {} /\ writers[i] = {}
  BY DEF Init
<1>2. LineTypeOK
  BY <1>1, Names DEF LineTypeOK, Init
<1>3. ChildrenRight
  <2>1. \A i \in Pipes : pc[C(i)] = "none" /\ pc[M(i)] \in {"pipe", "none"} /\ pc[Right(i)] = "none"
    <3> TAKE i \in Pipes
    <3>1. Right(i) # M(1)
      BY Names
    <3> QED
      BY <1>1, <3>1, Names
  <2> QED
    BY <2>1, <1>1 DEF ChildrenRight, Done, Young, Younger
<1>4. MadeOnce
  <2>1. \A i \in Pipes : pc[M(i)] # "none" => i = 1
    BY <1>1, Names
  <2> QED
    BY <1>1, <2>1, Names DEF MadeOnce
<1>5. EndsRight
  <2>1. \A i \in Pipes : pc[M(i)] \notin Forking
    BY <1>1, Names DEF Forking
  <2>2. \A i \in 1 .. N : pc[C(i)] = "none"
    BY <1>1, Names
  <2> QED
    BY <1>1, <2>1, <2>2 DEF EndsRight, ManagerEnds, CommandEnds
<1> QED
  BY <1>2, <1>3, <1>4, <1>5 DEF LineInv
\* Managers grow older.
LEMMA StillMadeOnce ==
    ASSUME MadeOnce, failed' = failed,
           \A j \in Pipes : /\ pc'[M(j)] # "none" => pc[M(j)] # "none"
                            /\ pc'[M(j)] \in Young => pc[M(j)] \in Young
                            /\ pc'[M(j)] \in Younger => pc[M(j)] \in Younger
    PROVE  MadeOnce'
<1>1. \A j \in Pipes : \A k \in 1 .. j - 1 : k \in Pipes
  BY Names DEF Pipes
<1> QED
  BY <1>1 DEF MadeOnce

-----------------------------------------------------------------------------
\* A process ends: its children have, and it leaves its ends.
LEMMA LineExits ==
    ASSUME LineInv, NEW p \in Procs, Exits(p), pc[p] \in {"pipe", "exit", "runs"}
    PROVE  LineInv'
<1>1. /\ \A q \in Procs : pc'[q] = IF q = p THEN "zombie" ELSE pc[q]
      /\ pc' \in [Procs -> {"none", "forked", "pipe", "left", "right", "close", "wait left", "wait right",
                            "exit", "zombie", "runs"}]
      /\ failed' = failed
      /\ readers' \in [Pipes -> SUBSET Procs] /\ writers' \in [Pipes -> SUBSET Procs]
      /\ \A j \in Pipes : readers'[j] = readers[j] \ {p} /\ writers'[j] = writers[j] \ {p}
  BY DEF LineInv, LineTypeOK, Exits, Leaves, Done
<1>2. LineTypeOK'
  BY <1>1, Names DEF LineTypeOK, LineInv
<1>3. \A j \in Pipes : /\ pc'[M(j)] = IF M(j) = p THEN "zombie" ELSE pc[M(j)]
                       /\ pc'[C(j)] = IF C(j) = p THEN "zombie" ELSE pc[C(j)]
                       /\ pc'[Right(j)] = IF Right(j) = p THEN "zombie" ELSE pc[Right(j)]
  BY <1>1, Names
<1>4. ChildrenRight'
  <2>1. \A q \in Procs : pc[q] = "none" => pc'[q] = "none"
    BY <1>1
  <2>2. \A j \in Pipes : pc'[M(j)] = "zombie" => pc[M(j)] \in {"pipe", "exit", "zombie"}
    BY <1>3 DEF LineInv, LineTypeOK
  <2>3. \A j \in Pipes : pc'[M(j)] # "zombie" => pc'[M(j)] = pc[M(j)]
    BY <1>3
  <2>4. ASSUME NEW j \in Pipes
        PROVE  /\ pc[C(j)] = "none" => pc'[C(j)] = "none"
               /\ pc[Right(j)] = "none" => pc'[Right(j)] = "none"
    BY <2>1, Names
  <2>5. ChildrenRight
    BY DEF LineInv
  <2> QED
    BY <1>1, <2>2, <2>3, <2>4, <2>5 DEF ChildrenRight, Young, Younger, Done
<1>5. MadeOnce'
  <2>1. \A j \in Pipes : (pc'[M(j)] = "zombie" /\ pc[M(j)] # "none") \/ pc'[M(j)] = pc[M(j)]
    BY <1>3
  <2> QED
    BY <1>1, <2>1, StillMadeOnce DEF LineInv, Young, Younger
<1>6. EndsRight'
  <2>1. \A j \in Pipes : p \notin readers'[j] /\ p \notin writers'[j]
    BY <1>1
  <2>2. pc'[p] \notin Forking \cup {"forked", "runs"}
    BY <1>1 DEF Forking
  <2>3. ASSUME NEW i \in Pipes PROVE ManagerEnds(i)'
    <3>1. CASE M(i) = p
      BY <2>1, <2>2, <3>1, NoEnds
    <3>2. CASE M(i) # p
      BY <1>1, <3>2, ManagerEndsKept, Names DEF LineInv, EndsRight
    <3> QED
      BY <3>1, <3>2
  <2>4. ASSUME NEW i \in 1 .. N PROVE CommandEnds(i)'
    <3>1. CASE C(i) = p
      BY <2>1, <2>2, <3>1, NoEnds
    <3>2. CASE C(i) # p
      BY <1>1, <3>2, CommandEndsKept, Names DEF LineInv, EndsRight
    <3> QED
      BY <3>1, <3>2
  <2> QED
    BY <2>3, <2>4 DEF EndsRight
<1> QED
  BY <1>2, <1>4, <1>5, <1>6 DEF LineInv

LEMMA LineMakesPipe ==
    ASSUME LineInv, NEW i \in Pipes, MakePipe(i)
    PROVE  LineInv'
<1>1. /\ pc[M(i)] = "pipe" /\ pc'[M(i)] = "left" /\ failed' = failed
      /\ \A q \in Procs : q # M(i) => pc'[q] = pc[q]
      /\ readers' \in [Pipes -> SUBSET Procs] /\ writers' \in [Pipes -> SUBSET Procs]
      /\ \A j \in Pipes : /\ readers'[j] = IF j = i THEN {M(i)} ELSE readers[j]
                          /\ writers'[j] = IF j = i THEN {M(i)} ELSE writers[j]
  BY Names DEF LineInv, LineTypeOK, MakePipe
<1>2. LineTypeOK'
  <2>1. pc' \in [Procs -> {"none", "forked", "pipe", "left", "right", "close", "wait left", "wait right",
                           "exit", "zombie", "runs"}]
    BY DEF LineInv, LineTypeOK, MakePipe
  <2> QED
    BY <1>1, <2>1, Names, ZenonT(40) DEF LineTypeOK, LineInv
<1>3. /\ \A j \in Pipes : /\ j # i => pc'[M(j)] = pc[M(j)]
                          /\ pc'[C(j)] = pc[C(j)]
                          /\ pc[Right(j)] = "none" => pc'[Right(j)] = "none"
      /\ \A j \in 1 .. N : pc'[C(j)] = pc[C(j)]
  BY <1>1, Names
<1>4. ChildrenRight'
  BY <1>1, <1>3, ZenonT(40) DEF ChildrenRight, LineInv, Young, Younger, Done
<1>5. MadeOnce'
  BY <1>1, <1>3, StillMadeOnce DEF LineInv, Young, Younger
<1>6. EndsRight'
  <2>1. pc[C(i)] = "none"
    BY <1>1 DEF LineInv, ChildrenRight, Younger
  <2>2. ASSUME NEW k \in Pipes PROVE ManagerEnds(k)'
    <3>1. CASE k = i
      BY <1>1, <3>1 DEF ManagerEnds, ManagerWrites, ManagerReads, Forking, Done, LineInv, EndsRight
    <3>2. CASE k # i
      <4>1. M(k) # M(i)
        BY <3>2, Names
      <4> QED
        BY <1>1, <1>3, <3>2, <4>1, ManagerEndsKept DEF LineInv, EndsRight
    <3> QED
      BY <3>1, <3>2
  <2>3. ASSUME NEW k \in 1 .. N PROVE CommandEnds(k)'
    <3>1. C(k) # M(i)
      BY Names
    <3> QED
      BY <1>1, <1>3, <2>1, <3>1, CommandEndsKept DEF LineInv, EndsRight
  <2> QED
    BY <2>2, <2>3 DEF EndsRight
<1> QED
  BY <1>2, <1>4, <1>5, <1>6 DEF LineInv

\* The manager forks, and its child has its ends.
LEMMA LineForksLeft ==
    ASSUME LineInv, NEW i \in Pipes, Forks(i, "left", C(i), "right")
    PROVE  LineInv'
<1>1. /\ pc[M(i)] = "left" /\ pc'[M(i)] = "right" /\ pc'[C(i)] = "forked" /\ failed' = failed
      /\ \A q \in Procs : q # M(i) /\ q # C(i) => pc'[q] = pc[q]
      /\ pc' \in [Procs -> {"none", "forked", "pipe", "left", "right", "close", "wait left", "wait right",
                           "exit", "zombie", "runs"}]
      /\ readers' \in [Pipes -> SUBSET Procs] /\ writers' \in [Pipes -> SUBSET Procs]
      /\ \A j \in Pipes : /\ readers'[j] = IF M(i) \in readers[j] THEN readers[j] \cup {C(i)} ELSE readers[j]
                          /\ writers'[j] = IF M(i) \in writers[j] THEN writers[j] \cup {C(i)} ELSE writers[j]
  <2>1. M(i) \in Procs /\ C(i) \in Procs /\ M(i) # C(i)
    BY Names
  <2>2. /\ pc[M(i)] = "left" /\ pc' = [pc EXCEPT ![M(i)] = "right", ![C(i)] = "forked"] /\ failed' = failed
    BY DEF Forks
  <2>3. /\ readers' = [j \in Pipes |-> IF M(i) \in readers[j] THEN readers[j] \cup {C(i)} ELSE readers[j]]
        /\ writers' = [j \in Pipes |-> IF M(i) \in writers[j] THEN writers[j] \cup {C(i)} ELSE writers[j]]
    BY DEF Forks, Joins
  <2>4. LineTypeOK
    BY DEF LineInv
  <2>5. readers' \in [Pipes -> SUBSET Procs] /\ writers' \in [Pipes -> SUBSET Procs]
    BY <2>1, <2>3, <2>4 DEF LineTypeOK
  <2> QED
    BY <2>1, <2>2, <2>3, <2>4, <2>5 DEF LineTypeOK
<1>2. LineTypeOK'
  <2>1. ASSUME NEW j \in 1 .. N PROVE C(j) # M(i) /\ (C(j) = C(i) \/ pc'[C(j)] = pc[C(j)])
    <3>1. C(j) \in Procs /\ C(j) # M(i)
      BY Names
    <3> QED
      BY <1>1, <3>1
  <2>2. ASSUME NEW j \in Pipes PROVE M(j) # C(i) /\ (M(j) = M(i) \/ pc'[M(j)] = pc[M(j)])
    <3>1. M(j) \in Procs /\ M(j) # C(i)
      BY Names
    <3> QED
      BY <1>1, <3>1
  <2> QED
    BY <1>1, <2>1, <2>2 DEF LineTypeOK, LineInv
<1>3. /\ \A j \in Pipes : /\ j # i => pc'[M(j)] = pc[M(j)] /\ pc'[C(j)] = pc[C(j)]
                          /\ pc[Right(j)] = "none" => pc'[Right(j)] = "none"
      /\ \A j \in 1 .. N : j # i => pc'[C(j)] = pc[C(j)]
  <2>1. \A j \in Pipes : Right(j) # C(i)
    <3> TAKE j \in Pipes
    <3>1. C(i) # C(N)
      BY Names
    <3> QED
      BY <3>1, Names
  <2>2. ASSUME NEW j \in Pipes, j # i
        PROVE  M(j) \in Procs /\ M(j) # C(i) /\ M(j) # M(i) /\ C(j) \in Procs /\ C(j) # C(i) /\ C(j) # M(i)
    BY <2>2, Names
  <2>3. ASSUME NEW j \in 1 .. N, j # i PROVE C(j) \in Procs /\ C(j) # C(i) /\ C(j) # M(i)
    BY <2>3, Names
  <2>4. \A j \in Pipes : Right(j) \in Procs /\ pc[M(i)] # "none"
    BY <1>1, Names
  <2> QED
    BY <1>1, <2>1, <2>2, <2>3, <2>4
<1>4. ChildrenRight'
  BY <1>1, <1>3, ZenonT(40) DEF ChildrenRight, LineInv, Young, Younger, Done, MadeOnce
<1>5. MadeOnce'
  BY <1>1, <1>3, StillMadeOnce DEF LineInv, Young, Younger
<1>6. EndsRight'
  <2>1. pc[C(i)] = "none" /\ i \in 1 .. N /\ i # N
    BY <1>1, Names DEF LineInv, ChildrenRight, Younger
  <2>10. \A q \in Procs, j \in Pipes :
            q # C(i) => (q \in writers'[j] <=> q \in writers[j]) /\ (q \in readers'[j] <=> q \in readers[j])
    BY <1>1, ZenonT(40)
  <2>2. ASSUME NEW k \in Pipes PROVE ManagerEnds(k)'
    <3>1. M(k) # C(i) /\ M(k) \in Procs
      BY Names
    <3>2. CASE k = i
      BY <1>1, <3>1, <3>2 DEF ManagerEnds, ManagerWrites, ManagerReads, Forking, Done, LineInv, EndsRight
    <3>3. CASE k # i
      <4>1. ManagerEnds(k) /\ pc'[M(k)] = pc[M(k)]
        BY <1>3, <3>3 DEF LineInv, EndsRight
      <4>2. \A j \in Pipes :
               (M(k) \in writers'[j] <=> M(k) \in writers[j]) /\ (M(k) \in readers'[j] <=> M(k) \in readers[j])
        BY <2>10, <3>1
      <4> QED
        BY <4>1, <4>2, ManagerEndsKept
    <3> QED
      BY <3>2, <3>3
  <2>3. ASSUME NEW k \in 1 .. N PROVE CommandEnds(k)'
    <3>1. CASE k = i
      <4>1. \A j \in Pipes : C(i) \notin writers[j] /\ C(i) \notin readers[j]
        BY <2>1 DEF LineInv, EndsRight, CommandEnds, CommandWrites, CommandReads
      <4>2. /\ M(i) \in writers[i]
            /\ \A j \in Pipes : (M(i) \in writers[j] => j = i) /\ (M(i) \in readers[j] => j \in {i, i - 1})
        BY <1>1 DEF LineInv, EndsRight, ManagerEnds, ManagerWrites, ManagerReads, Forking
      <4> QED
        BY <1>1, <2>1, <3>1, <4>1, <4>2 DEF CommandEnds, CommandWrites, CommandReads
    <3>2. CASE k # i
      <4>1. C(k) # C(i) /\ C(k) \in Procs
        BY <3>2, Names
      <4> QED
        <5>1. CommandEnds(k) /\ pc'[C(k)] = pc[C(k)]
          BY <1>3, <3>2 DEF LineInv, EndsRight
        <5>2. \A j \in Pipes :
                 (C(k) \in writers'[j] <=> C(k) \in writers[j]) /\ (C(k) \in readers'[j] <=> C(k) \in readers[j])
          BY <2>10, <4>1
        <5> QED
          BY <5>1, <5>2, CommandEndsKept
    <3> QED
      BY <3>1, <3>2
  <2> QED
    BY <2>2, <2>3 DEF EndsRight
<1> QED
  BY <1>2, <1>4, <1>5, <1>6 DEF LineInv

LEMMA LineForksRight ==
    ASSUME LineInv, NEW i \in Pipes, Forks(i, "right", Right(i), "close")
    PROVE  LineInv'
<1> DEFINE child == Right(i)
<1>0. /\ M(i) \in Procs /\ child \in Procs /\ M(i) # child /\ child # C(i)
      /\ LineTypeOK /\ ChildrenRight /\ MadeOnce /\ EndsRight
  BY Names DEF LineInv
<1>1. /\ pc[M(i)] = "right" /\ pc'[M(i)] = "close" /\ pc'[child] = "forked" /\ failed' = failed
      /\ pc[child] = "none"
      /\ \A q \in Procs : q # M(i) /\ q # child => pc'[q] = pc[q]
      /\ pc' \in [Procs -> {"none", "forked", "pipe", "left", "right", "close", "wait left", "wait right",
                           "exit", "zombie", "runs"}]
      /\ readers' \in [Pipes -> SUBSET Procs] /\ writers' \in [Pipes -> SUBSET Procs]
      /\ \A j \in Pipes : /\ readers'[j] = IF M(i) \in readers[j] THEN readers[j] \cup {child} ELSE readers[j]
                          /\ writers'[j] = IF M(i) \in writers[j] THEN writers[j] \cup {child} ELSE writers[j]
  <2>1. /\ pc[M(i)] = "right" /\ pc' = [pc EXCEPT ![M(i)] = "close", ![child] = "forked"] /\ failed' = failed
    BY DEF Forks
  <2>2. /\ readers' = [j \in Pipes |-> IF M(i) \in readers[j] THEN readers[j] \cup {child} ELSE readers[j]]
        /\ writers' = [j \in Pipes |-> IF M(i) \in writers[j] THEN writers[j] \cup {child} ELSE writers[j]]
    BY DEF Forks, Joins
  <2>3. pc[child] = "none"
    BY <1>0, <2>1 DEF ChildrenRight, Young
  <2> HIDE DEF child
  <2>4. readers' \in [Pipes -> SUBSET Procs] /\ writers' \in [Pipes -> SUBSET Procs]
    BY <1>0, <2>2 DEF LineTypeOK
  <2> QED
    BY <1>0, <2>1, <2>2, <2>3, <2>4 DEF LineTypeOK
<1>10. N \in Nat /\ \A k \in Pipes : k \in Nat /\ k >= 1 /\ k < N
  BY Names
<1>2. \A j \in Pipes : M(j) = M(i) \/ M(j) = child \/ pc'[M(j)] = pc[M(j)]
  BY <1>1, Names
<1>3. \A j \in 1 .. N : C(j) # M(i) /\ (C(j) = child \/ pc'[C(j)] = pc[C(j)])
  <2> TAKE j \in 1 .. N
  <2>1. C(j) \in Procs /\ C(j) # M(i)
    BY Names
  <2> QED
    BY <1>1, <2>1
<1>4. LineTypeOK'
  BY <1>0, <1>1, <1>2, <1>3 DEF LineTypeOK
\* Of its ancestors none is to fork any more, and none of those that it may
\* have has lived.
<1>5. MadeOnce'
  <2>1. \A j \in Pipes : j < i => pc[M(j)] \notin Young
    <3>1. \A j \in Pipes : j < i => j \in 1 .. i - 1
      BY <1>10
    <3> QED
      BY <1>0, <1>1, <3>1 DEF MadeOnce
  <2>2. \A k \in Pipes : k > i => pc[M(k)] = "none" /\ <<k, "left">> \notin failed /\ <<k, "right">> \notin failed
    <3> TAKE k \in Pipes
    <3>1. k > i => i \in 1 .. k - 1
      BY DEF Pipes
    <3> QED
      BY <1>0, <1>1, <3>1 DEF MadeOnce, Young
  <2>3. \A j \in Pipes : child = M(j) => j = i + 1 /\ j > i
    <3> TAKE j \in Pipes
    <3>1. j \in Nat /\ i \in Nat
      BY Names
    <3> QED
      BY <3>1, Names
  <2>4. \A j \in Pipes : M(j) = M(i) => j = i
    BY Names
  <2>5. \A k \in Pipes : pc'[M(k)] # "none" /\ k # i => k = i + 1 \/ pc[M(k)] # "none"
    BY <1>1, <1>2, <2>3, <2>4
  <2>6. \A k \in Pipes : k <= i => pc'[M(k)] \notin Young
    <3> TAKE k \in Pipes
    <3>1. CASE k = i
      BY <1>1, <3>1 DEF Young
    <3>2. CASE k # i /\ k <= i
      <4>1. k < i /\ M(k) # M(i) /\ M(k) # child
        BY <1>10, <2>3, <2>4, <3>2
      <4> HIDE DEF child
      <4> QED
        BY <1>2, <2>1, <4>1
    <3> QED
      BY <3>1, <3>2
  <2>7. ASSUME NEW k \in Pipes, pc'[M(k)] # "none" \/ <<k, "left">> \in failed \/ <<k, "right">> \in failed,
               NEW j \in 1 .. k - 1
        PROVE  pc'[M(j)] \notin Young
    <3>1. k \in Nat /\ i \in Nat /\ j \in Pipes /\ j \in Nat
      BY Names DEF Pipes
    <3>2. k <= i + 1
      BY <2>2, <2>5, <2>7, <3>1
    <3> QED
      BY <2>6, <3>1, <3>2
  <2>8. ASSUME NEW k \in Pipes, <<k, "left">> \in failed PROVE pc'[M(k)] \notin Younger
    <3>1. ~(k > i) /\ k \in Nat /\ i \in Nat
      BY <1>10, <2>2, <2>8, Zenon
    <3> QED
      BY <2>6, <3>1 DEF Young, Younger
  <2>9. ASSUME NEW k \in Pipes, <<k, "right">> \in failed PROVE pc'[M(k)] \notin Young
    <3>1. ~(k > i) /\ k \in Nat /\ i \in Nat
      BY <1>10, <2>2, <2>9, Zenon
    <3> QED
      BY <2>6, <3>1
  <2> QED
    BY <1>1, <2>7, <2>8, <2>9 DEF MadeOnce
<1>6. ChildrenRight'
  <2>1. ASSUME NEW j \in Pipes
        PROVE  /\ pc'[C(j)] = pc[C(j)]
               /\ j # i /\ pc[Right(j)] = "none" => pc'[Right(j)] = "none"
               /\ j # i => pc'[M(j)] = pc[M(j)] \/ (pc[M(j)] = "none" /\ pc'[M(j)] = "forked")
    <3>1. C(j) # child /\ C(j) # M(i) /\ C(j) \in Procs
      <4>1. j # N
        BY <1>10
      <4>2. C(j) # C(N)
        BY <4>1, Names
      <4> QED
        BY <4>2, Names
    <3>2. j # i => Right(j) # child
      <4>1. j \in Nat /\ i \in Nat /\ (j # i => j + 1 # i + 1)
        BY <1>10
      <4> QED
        BY <4>1, Names
    <3>3. Right(j) \in Procs /\ M(j) \in Procs /\ (j # i => M(j) # M(i)) /\ pc[M(i)] # "none"
      BY <1>1, Names
    <3> HIDE DEF child
    <3> QED
      BY <1>1, <3>1, <3>2, <3>3
  <2>2. /\ <<i, "right">> \notin failed /\ pc'[C(i)] = pc[C(i)]
    BY <1>0, <1>1, <2>1 DEF MadeOnce, Young
  <2>3. ASSUME NEW j \in Pipes, j # i
        PROVE  /\ pc'[M(j)] \in Younger \cup {"none"} \/ <<j, "left">> \in failed => pc'[C(j)] = "none"
               /\ pc'[M(j)] \in Young \cup {"none"} \/ <<j, "right">> \in failed => pc'[Right(j)] = "none"
               /\ pc'[M(j)] = "wait right" => IF <<j, "left">> \in failed THEN pc'[Right(j)] = "none" ELSE pc'[C(j)] = "none"
               /\ pc'[M(j)] \in {"exit", Done} => pc'[C(j)] = "none" /\ pc'[Right(j)] = "none"
    BY <1>0, <2>1, <2>3 DEF ChildrenRight, Young, Younger, Done
  <2>4. <<i, "left">> \in failed => pc'[C(i)] = "none"
    BY <1>0, <2>2 DEF ChildrenRight
  <2> HIDE DEF child
  <2> QED
    BY <1>1, <2>2, <2>3, <2>4 DEF ChildrenRight, Young, Younger, Done
<1>7. EndsRight'
  <2>1. \A j \in Pipes : child \notin writers[j] /\ child \notin readers[j]
    <3>1. (\E k \in Pipes : child = M(k)) \/ (child = C(N) /\ N \in 1 .. N)
      BY Names
    <3> HIDE DEF child
    <3> QED
      <4>1. ASSUME NEW k \in Pipes, child = M(k) PROVE \A j \in Pipes : child \notin writers[j] /\ child \notin readers[j]
        <5>1. ManagerEnds(k) /\ pc[M(k)] = "none"
          BY <1>0, <1>1, <4>1 DEF EndsRight
        <5> QED
          BY <4>1, <5>1 DEF ManagerEnds, ManagerWrites, ManagerReads, Forking
      <4>2. ASSUME child = C(N), N \in 1 .. N PROVE \A j \in Pipes : child \notin writers[j] /\ child \notin readers[j]
        <5>1. CommandEnds(N) /\ pc[C(N)] = "none"
          BY <1>0, <1>1, <4>2 DEF EndsRight
        <5> QED
          BY <4>2, <5>1 DEF CommandEnds, CommandWrites, CommandReads
      <4> QED
        BY <3>1, <4>1, <4>2
  <2>2. /\ \A j \in Pipes : (M(i) \in writers[j] => j = i) /\ (M(i) \in readers[j] => j \in {i, i - 1})
        /\ M(i) \in writers[i]
    BY <1>0, <1>1 DEF EndsRight, ManagerEnds, ManagerWrites, ManagerReads, Forking
  <2> HIDE DEF child
  <2>3. \A q \in Procs, j \in Pipes :
            q # child => (q \in writers'[j] <=> q \in writers[j]) /\ (q \in readers'[j] <=> q \in readers[j])
    <3> TAKE q \in Procs, j \in Pipes
    <3>1. /\ readers'[j] = IF M(i) \in readers[j] THEN readers[j] \cup {child} ELSE readers[j]
          /\ writers'[j] = IF M(i) \in writers[j] THEN writers[j] \cup {child} ELSE writers[j]
      BY <1>1
    <3> QED
      BY <3>1
  <2>4. \A j \in Pipes : (child \in writers'[j] => j = i) /\ (child \in readers'[j] => j \in {i, i - 1})
    BY <1>1, <2>1, <2>2
  <2>5. ASSUME NEW k \in Pipes PROVE ManagerEnds(k)'
    <3>1. M(k) \in Procs
      BY Names
    <3>2. CASE M(k) = child
      <4>1. i = k - 1 /\ i - 1 = k - 2
        <5>1. k = i + 1
          BY <3>2, Names DEF child
        <5> QED
          BY <1>10, <5>1
      <4> QED
        BY <1>1, <2>4, <3>2, <4>1 DEF ManagerEnds, ManagerWrites, ManagerReads, Forking, Done
    <3>3. CASE M(k) = M(i)
      <4>1. k = i /\ M(i) # child
        BY <1>0, <3>3, Names DEF child
      <4> QED
        BY <1>0, <1>1, <2>2, <2>3, <4>1 DEF ManagerEnds, ManagerWrites, ManagerReads, Forking, Done
    <3>4. CASE M(k) # child /\ M(k) # M(i)
      <4>1. ManagerEnds(k) /\ pc'[M(k)] = pc[M(k)]
        BY <1>0, <1>2, <3>4 DEF EndsRight
      <4>2. \A j \in Pipes :
               (M(k) \in writers'[j] <=> M(k) \in writers[j]) /\ (M(k) \in readers'[j] <=> M(k) \in readers[j])
        BY <2>3, <3>1, <3>4
      <4> QED
        BY <4>1, <4>2, ManagerEndsKept
    <3> QED
      BY <3>2, <3>3, <3>4
  <2>6. ASSUME NEW k \in 1 .. N PROVE CommandEnds(k)'
    <3>1. C(k) \in Procs
      BY Names
    <3>2. CASE C(k) = child
      <4>1. k = N /\ i = k - 1 /\ i - 1 = N - 2
        <5>1. k = N /\ i = N - 1
          BY <3>2, Names DEF child
        <5> QED
          BY <1>10, <5>1
      <4>2. k \notin Pipes
        BY <4>1, Names
      <4> QED
        BY <1>1, <2>4, <3>2, <4>1, <4>2 DEF CommandEnds, CommandWrites, CommandReads
    <3>3. CASE C(k) # child
      <4>1. CommandEnds(k) /\ pc'[C(k)] = pc[C(k)]
        BY <1>0, <1>3, <3>3 DEF EndsRight
      <4>2. \A j \in Pipes :
               (C(k) \in writers'[j] <=> C(k) \in writers[j]) /\ (C(k) \in readers'[j] <=> C(k) \in readers[j])
        BY <2>3, <3>1, <3>3
      <4> QED
        BY <4>1, <4>2, CommandEndsKept
    <3> QED
      BY <3>2, <3>3
  <2> QED
    BY <2>5, <2>6 DEF EndsRight
<1> QED
  BY <1>4, <1>5, <1>6, <1>7 DEF LineInv

\* The ends stay as they are: the manager is still to use its own or not, and
\* what has ended holds none.
LEMMA EndsStay ==
    ASSUME EndsRight, LineTypeOK, NEW i \in Pipes, readers' = readers, writers' = writers,
           pc[M(i)] \in Forking <=> pc'[M(i)] \in Forking,
           {pc[M(i)], pc'[M(i)]} \cap {"none", "forked", Done} = {},
           \A q \in Procs : q = M(i) \/ pc'[q] = pc[q] \/ (pc[q] = Done /\ pc'[q] = "none")
    PROVE  EndsRight'
<1>1. ASSUME NEW k \in Pipes PROVE ManagerEnds(k)'
  <2>1. ManagerEnds(k) /\ M(k) \in Procs
    BY Names DEF EndsRight
  <2>2. CASE M(k) = M(i)
    <3>1. k = i
      BY <2>2, Names
    <3> QED
      BY <2>1, <3>1 DEF ManagerEnds, ManagerWrites, ManagerReads
  <2>3. CASE pc'[M(k)] = pc[M(k)]
    BY <2>1, <2>3 DEF ManagerEnds
  <2>4. CASE pc[M(k)] = Done /\ pc'[M(k)] = "none"
    BY <2>1, <2>4 DEF ManagerEnds, ManagerWrites, ManagerReads, Forking, Done
  <2> QED
    BY <2>1, <2>2, <2>3, <2>4
<1>2. ASSUME NEW k \in 1 .. N PROVE CommandEnds(k)'
  <2>1. CommandEnds(k) /\ C(k) \in Procs /\ C(k) # M(i)
    BY Names DEF EndsRight
  <2>2. CASE pc'[C(k)] = pc[C(k)]
    BY <2>1, <2>2 DEF CommandEnds
  <2>3. CASE pc[C(k)] = Done /\ pc'[C(k)] = "none"
    BY <2>1, <2>3 DEF CommandEnds, CommandWrites, CommandReads, Done
  <2> QED
    BY <2>1, <2>2, <2>3
<1> QED
  BY <1>1, <1>2 DEF EndsRight

\* fork() fails.
LEMMA LineForkFails ==
    ASSUME LineInv, NEW i \in Pipes,
           ForkFails(i, "left", "right") \/ ForkFails(i, "right", "close")
    PROVE  LineInv'
<1>0. LineTypeOK /\ ChildrenRight /\ MadeOnce /\ EndsRight /\ M(i) \in Procs
  BY Names DEF LineInv
<1> DEFINE at == pc[M(i)]
           next == IF at = "left" THEN "right" ELSE "close"
<1>1. /\ at \in {"left", "right"} /\ pc' = [pc EXCEPT ![M(i)] = next]
      /\ failed' = failed \cup {<<i, at>>} /\ readers' = readers /\ writers' = writers
  BY DEF ForkFails
<1>2. pc'[M(i)] = next /\ \A q \in Procs : q # M(i) => pc'[q] = pc[q]
  BY <1>0, <1>1 DEF LineTypeOK
<1>3. /\ \A j \in Pipes : /\ j # i => pc'[M(j)] = pc[M(j)]
                          /\ pc'[C(j)] = pc[C(j)]
                          /\ pc[Right(j)] = "none" => pc'[Right(j)] = "none"
      /\ \A j \in 1 .. N : pc'[C(j)] = pc[C(j)]
  BY <1>1, <1>2, Names
<1>4. \A j \in Pipes : /\ <<j, "left">> \in failed' <=> <<j, "left">> \in failed \/ (j = i /\ at = "left")
                       /\ <<j, "right">> \in failed' <=> <<j, "right">> \in failed \/ (j = i /\ at = "right")
  BY <1>1
<1>5. LineTypeOK'
  <2>1. \A j \in Pipes : pc'[M(j)] # "runs"
    BY <1>0, <1>1, <1>2, <1>3, ZenonT(40) DEF LineTypeOK
  <2>2. pc' \in [Procs -> {"none", "forked", "pipe", "left", "right", "close", "wait left", "wait right",
                           "exit", "zombie", "runs"}]
    BY <1>0, <1>1 DEF LineTypeOK
  <2> QED
    BY <1>0, <1>1, <1>3, <2>1, <2>2 DEF LineTypeOK
<1>6. (at = "left" /\ next = "right") \/ (at = "right" /\ next = "close")
  BY <1>1
<1> HIDE DEF next
<1>7. ChildrenRight'
  <2>1. ASSUME NEW j \in Pipes, j # i
        PROVE  /\ pc'[M(j)] = pc[M(j)]
               /\ <<j, "left">> \in failed' <=> <<j, "left">> \in failed
               /\ <<j, "right">> \in failed' <=> <<j, "right">> \in failed
    BY <1>3, <1>4, <2>1
  <2>2. /\ at \in Young /\ pc[Right(i)] = "none" /\ pc'[Right(i)] = "none"
        /\ pc'[M(i)] \in Younger \cup {"none"} \/ <<i, "left">> \in failed' => pc'[C(i)] = "none"
        /\ pc'[M(i)] \notin {"wait right", "exit", Done}
    <3>1. at \in Young /\ pc[Right(i)] = "none" /\ pc'[Right(i)] = "none"
      BY <1>0, <1>3, <1>6 DEF ChildrenRight, Young
    <3>2. pc'[M(i)] \notin {"wait right", "exit", Done}
      BY <1>2, <1>6 DEF Done
    <3>3. CASE at = "left"
      <4>1. pc[C(i)] = "none"
        BY <1>0, <3>3 DEF ChildrenRight, Younger
      <4> QED
        BY <1>3, <3>1, <3>2, <4>1
    <3>4. CASE at = "right"
      <4>1. pc'[M(i)] = "close" /\ (<<i, "left">> \in failed' => <<i, "left">> \in failed)
        BY <1>2, <1>4, <1>6, <3>4
      <4>2. <<i, "left">> \in failed => pc[C(i)] = "none"
        BY <1>0 DEF ChildrenRight
      <4> QED
        BY <1>3, <3>1, <3>2, <4>1, <4>2 DEF Younger
    <3> QED
      BY <1>6, <3>3, <3>4
  <2> HIDE DEF at
  <2> QED
    BY <1>0, <1>3, <2>1, <2>2 DEF ChildrenRight
<1>8. MadeOnce'
  <2>1. \A j \in Pipes : /\ pc'[M(j)] # "none" => pc[M(j)] # "none"
                         /\ pc'[M(j)] \in Young => pc[M(j)] \in Young
                         /\ pc'[M(j)] \in Younger => pc[M(j)] \in Younger
    BY <1>1, <1>2, <1>3, <1>6 DEF Young, Younger
  <2>2. \A j \in Pipes : \A k \in 1 .. j - 1 : k \in Pipes
    BY Names DEF Pipes
  <2>3. at # "none" /\ (at = "left" => pc'[M(i)] \notin Younger) /\ (at = "right" => pc'[M(i)] \notin Young)
    BY <1>2, <1>6 DEF Young, Younger
  <2> QED
    BY <1>0, <1>4, <2>1, <2>2, <2>3 DEF MadeOnce
<1>9. EndsRight'
  BY <1>0, <1>1, <1>2, <1>6, EndsStay DEF Forking, Done
<1> QED
  BY <1>5, <1>7, <1>8, <1>9 DEF LineInv

\* Both ends of its pipe.
LEMMA LineCloses ==
    ASSUME LineInv, NEW i \in Pipes, Close(i)
    PROVE  LineInv'
<1>0. LineTypeOK /\ ChildrenRight /\ MadeOnce /\ EndsRight /\ M(i) \in Procs
  BY Names DEF LineInv
<1>1. /\ pc[M(i)] = "close" /\ pc' = [pc EXCEPT ![M(i)] = "wait left"] /\ failed' = failed
      /\ readers' = [readers EXCEPT ![i] = @ \ {M(i)}] /\ writers' = [writers EXCEPT ![i] = @ \ {M(i)}]
  BY DEF Close
<1>2. /\ pc'[M(i)] = "wait left" /\ \A q \in Procs : q # M(i) => pc'[q] = pc[q]
      /\ readers' \in [Pipes -> SUBSET Procs] /\ writers' \in [Pipes -> SUBSET Procs]
      /\ \A j \in Pipes : /\ readers'[j] = IF j = i THEN readers[j] \ {M(i)} ELSE readers[j]
                          /\ writers'[j] = IF j = i THEN writers[j] \ {M(i)} ELSE writers[j]
  BY <1>0, <1>1 DEF LineTypeOK
<1>3. /\ \A j \in Pipes : /\ j # i => pc'[M(j)] = pc[M(j)]
                          /\ pc'[C(j)] = pc[C(j)]
                          /\ pc[Right(j)] = "none" => pc'[Right(j)] = "none"
      /\ \A j \in 1 .. N : pc'[C(j)] = pc[C(j)]
  <2>1. ASSUME NEW j \in Pipes PROVE /\ M(j) \in Procs /\ C(j) \in Procs /\ Right(j) \in Procs
                                     /\ C(j) # M(i) /\ (j # i => M(j) # M(i)) /\ pc[M(i)] # "none"
    BY <1>1, Names
  <2>2. ASSUME NEW j \in 1 .. N PROVE C(j) \in Procs /\ C(j) # M(i)
    BY Names
  <2> QED
    BY <1>2, <2>1, <2>2
<1>5. LineTypeOK'
  <2>1. \A j \in Pipes : pc'[M(j)] # "runs"
    BY <1>0, <1>2, <1>3 DEF LineTypeOK
  <2>2. pc' \in [Procs -> {"none", "forked", "pipe", "left", "right", "close", "wait left", "wait right",
                           "exit", "zombie", "runs"}]
    BY <1>0, <1>1 DEF LineTypeOK
  <2> QED
    BY <1>0, <1>2, <1>3, <2>1, <2>2 DEF LineTypeOK
<1>6. ChildrenRight'
  BY <1>0, <1>1, <1>2, <1>3, ZenonT(40) DEF ChildrenRight, Young, Younger, Done
<1>7. MadeOnce'
  BY <1>0, <1>1, <1>2, <1>3, StillMadeOnce DEF Young, Younger
<1>8. EndsRight'
  <2>1. \A q \in Procs, j \in Pipes :
            q # M(i) => (q \in writers'[j] <=> q \in writers[j]) /\ (q \in readers'[j] <=> q \in readers[j])
    BY <1>2
  <2>2. ASSUME NEW k \in Pipes PROVE ManagerEnds(k)'
    <3>1. M(k) \in Procs /\ ManagerEnds(k)
      BY <1>0, Names DEF EndsRight
    <3>2. CASE k = i
      <4>1. \A j \in Pipes : /\ M(i) \notin writers'[j]
                             /\ M(i) \in readers'[j] => M(i) \in readers[j] /\ j # i
        BY <1>1, <1>2, <3>1, <3>2 DEF ManagerEnds, ManagerWrites, Forking
      <4> QED
        BY <1>1, <1>2, <3>1, <3>2, <4>1 DEF ManagerEnds, ManagerReads, Forking, Done
    <3>3. CASE k # i
      <4>1. M(k) # M(i) /\ pc'[M(k)] = pc[M(k)]
        BY <1>3, <3>3, Names
      <4>2. \A j \in Pipes :
               (M(k) \in writers'[j] <=> M(k) \in writers[j]) /\ (M(k) \in readers'[j] <=> M(k) \in readers[j])
        BY <2>1, <3>1, <4>1
      <4> QED
        BY <3>1, <4>1, <4>2, ManagerEndsKept
    <3> QED
      BY <3>2, <3>3
  <2>3. ASSUME NEW k \in 1 .. N PROVE CommandEnds(k)'
    <3>1. C(k) \in Procs /\ CommandEnds(k) /\ C(k) # M(i)
      BY <1>0, Names DEF EndsRight
    <3>2. \A j \in Pipes :
             (C(k) \in writers'[j] <=> C(k) \in writers[j]) /\ (C(k) \in readers'[j] <=> C(k) \in readers[j])
      BY <2>1, <3>1
    <3> QED
      BY <1>3, <3>1, <3>2, CommandEndsKept
  <2> QED
    BY <2>2, <2>3 DEF EndsRight
<1> QED
  BY <1>5, <1>6, <1>7, <1>8 DEF LineInv

\* A child, or what is left of it, is gone.
LEMMA LineWaits ==
    ASSUME LineInv, NEW i \in Pipes, WaitLeft(i) \/ WaitRight(i)
    PROVE  LineInv'
<1>0. LineTypeOK /\ ChildrenRight /\ MadeOnce /\ EndsRight /\ M(i) \in Procs /\ C(i) \in Procs /\ Right(i) \in Procs
      /\ M(i) # C(i) /\ M(i) # Right(i)
  BY Names DEF LineInv
<1> DEFINE at == pc[M(i)]
           next == IF at = "wait left" THEN "wait right" ELSE "exit"
           child == IF at = "wait left" THEN IF <<i, "left">> \in failed THEN Right(i) ELSE C(i)
                    ELSE IF <<i, "right">> \in failed THEN C(i) ELSE Right(i)
<1>1. /\ at \in {"wait left", "wait right"} /\ pc[child] \in {"none", "zombie"}
      /\ pc' = IF pc[child] = "zombie" THEN [pc EXCEPT ![M(i)] = next, ![child] = "none"]
                                       ELSE [pc EXCEPT ![M(i)] = next]
      /\ failed' = failed /\ readers' = readers /\ writers' = writers
  <2>1. CASE WaitLeft(i)
    BY <2>1 DEF WaitLeft, Gone, Reaps, Done
  <2>2. CASE WaitRight(i)
    BY <2>2 DEF WaitRight, Gone, Reaps, Done
  <2> QED
    BY <2>1, <2>2
<1>2. child \in {C(i), Right(i)} /\ child \in Procs /\ M(i) # child
  BY <1>0
<1>3. next \in {"wait right", "exit"}
  OBVIOUS
<1> HIDE DEF child, next
<1>4. /\ pc'[M(i)] = next /\ pc'[child] = "none"
      /\ \A q \in Procs : q # M(i) /\ q # child => pc'[q] = pc[q]
      /\ pc' \in [Procs -> {"none", "forked", "pipe", "left", "right", "close", "wait left", "wait right",
                            "exit", "zombie", "runs"}]
  BY <1>0, <1>1, <1>2, <1>3 DEF LineTypeOK
<1>5. \A q \in Procs : q = M(i) \/ pc'[q] = pc[q] \/ (pc[q] = "zombie" /\ pc'[q] = "none")
  BY <1>1, <1>4
<1>6. /\ \A j \in Pipes : /\ j # i => pc'[M(j)] = pc[M(j)] \/ (pc[M(j)] = "zombie" /\ pc'[M(j)] = "none")
                          /\ pc'[C(j)] = pc[C(j)] \/ (pc[C(j)] = "zombie" /\ pc'[C(j)] = "none")
                          /\ pc[Right(j)] = "none" => pc'[Right(j)] = "none"
      /\ \A j \in 1 .. N : pc'[C(j)] = pc[C(j)] \/ pc'[C(j)] = "none"
  <2>1. ASSUME NEW j \in Pipes PROVE /\ M(j) \in Procs /\ C(j) \in Procs /\ Right(j) \in Procs
                                     /\ C(j) # M(i) /\ (j # i => M(j) # M(i)) /\ at # "none"
    BY <1>1, Names
  <2>2. ASSUME NEW j \in 1 .. N PROVE C(j) \in Procs /\ C(j) # M(i)
    BY Names
  <2> QED
    BY <1>5, <2>1, <2>2
<1>7. LineTypeOK'
  <2>1. \A j \in Pipes : pc'[M(j)] # "runs"
    BY <1>0, <1>3, <1>4, <1>6 DEF LineTypeOK
  <2> QED
    BY <1>0, <1>1, <1>4, <1>6, <2>1 DEF LineTypeOK
<1>8. ChildrenRight'
  <2>1. ASSUME NEW j \in Pipes, j # i
        PROVE  /\ pc'[M(j)] \in Younger \cup {"none"} \/ <<j, "left">> \in failed => pc'[C(j)] = "none"
               /\ pc'[M(j)] \in Young \cup {"none"} \/ <<j, "right">> \in failed => pc'[Right(j)] = "none"
               /\ pc'[M(j)] = "wait right" => IF <<j, "left">> \in failed THEN pc'[Right(j)] = "none" ELSE pc'[C(j)] = "none"
               /\ pc'[M(j)] \in {"exit", Done} => pc'[C(j)] = "none" /\ pc'[Right(j)] = "none"
    BY <1>0, <1>6, <2>1 DEF ChildrenRight, Done
  <2>2. /\ pc[C(i)] = "none" => pc'[C(i)] = "none"
        /\ pc[Right(i)] = "none" => pc'[Right(i)] = "none"
    BY <1>6
  <2>3. CASE at = "wait left"
    <3>1. next = "wait right" /\ child = IF <<i, "left">> \in failed THEN Right(i) ELSE C(i)
      BY <2>3 DEF next, child
    <3> QED
      BY <1>0, <1>1, <1>4, <2>1, <2>2, <3>1, ZenonT(40) DEF ChildrenRight, Young, Younger, Done
  <2>4. CASE at = "wait right"
    <3>1. next = "exit" /\ child = IF <<i, "right">> \in failed THEN C(i) ELSE Right(i)
      BY <2>4 DEF next, child
    <3>2. pc'[C(i)] = "none" /\ pc'[Right(i)] = "none"
      BY <1>0, <1>4, <2>2, <2>4, <3>1 DEF ChildrenRight
    <3> QED
      BY <1>0, <1>1, <1>4, <2>1, <3>1, <3>2, ZenonT(40) DEF ChildrenRight, Young, Younger, Done
  <2> QED
    BY <1>1, <2>3, <2>4
<1>9. MadeOnce'
  <2>1. \A j \in Pipes : pc'[M(j)] \in {pc[M(j)], "none"} \/ (j = i /\ at # "none" /\ pc'[M(j)] \notin Young)
    BY <1>1, <1>3, <1>4, <1>6 DEF Young
  <2> QED
    BY <1>0, <1>1, <2>1, StillMadeOnce DEF Young, Younger
<1>10. EndsRight'
  <2>1. /\ at \notin Forking /\ pc'[M(i)] \notin Forking
        /\ {at, pc'[M(i)]} \cap {"none", "forked", Done} = {}
    BY <1>1, <1>3, <1>4 DEF Forking, Done
  <2>2. \A q \in Procs : q = M(i) \/ pc'[q] = pc[q] \/ (pc[q] = Done /\ pc'[q] = "none")
    BY <1>5 DEF Done
  <2> QED
    BY <1>0, <1>1, <2>1, <2>2, EndsStay
<1> QED
  BY <1>7, <1>8, <1>9, <1>10 DEF LineInv

\* The left child keeps the end that it writes, and what its manager reads.
LEMMA LineLeftChild ==
    ASSUME LineInv, NEW i \in Pipes, Hijo1(i)
    PROVE  LineInv'
<1>0. LineTypeOK /\ ChildrenRight /\ MadeOnce /\ EndsRight /\ C(i) \in Procs /\ i \in 1 .. N /\ i # N
  BY Names DEF LineInv
<1>1. /\ pc[C(i)] = "forked" /\ pc' = [pc EXCEPT ![C(i)] = "runs"] /\ failed' = failed
      /\ readers' = [readers EXCEPT ![i] = @ \ {C(i)}] /\ writers' = writers
  BY DEF Hijo1
<1>2. /\ pc'[C(i)] = "runs" /\ \A q \in Procs : q # C(i) => pc'[q] = pc[q]
      /\ readers' \in [Pipes -> SUBSET Procs]
      /\ \A j \in Pipes : readers'[j] = IF j = i THEN readers[j] \ {C(i)} ELSE readers[j]
  BY <1>0, <1>1 DEF LineTypeOK
<1>3. /\ \A j \in Pipes : /\ pc'[M(j)] = pc[M(j)]
                          /\ pc[C(j)] = "none" => pc'[C(j)] = "none"
                          /\ pc[Right(j)] = "none" => pc'[Right(j)] = "none"
      /\ \A j \in 1 .. N : j # i => pc'[C(j)] = pc[C(j)]
  <2>1. ASSUME NEW j \in Pipes PROVE /\ M(j) \in Procs /\ C(j) \in Procs /\ Right(j) \in Procs
                                     /\ M(j) # C(i) /\ pc[C(i)] # "none"
    BY <1>1, Names
  <2>2. ASSUME NEW j \in 1 .. N, j # i PROVE C(j) \in Procs /\ C(j) # C(i)
    BY <2>2, Names
  <2> QED
    BY <1>2, <2>1, <2>2
<1>4. LineTypeOK'
  <2>1. pc' \in [Procs -> {"none", "forked", "pipe", "left", "right", "close", "wait left", "wait right",
                           "exit", "zombie", "runs"}]
    BY <1>0, <1>1 DEF LineTypeOK
  <2>2. \A j \in 1 .. N : pc'[C(j)] \in {"none", "forked", "runs", "zombie"}
    BY <1>0, <1>2, <1>3 DEF LineTypeOK
  <2>3. /\ \A j \in Pipes : pc'[M(j)] # "runs"
        /\ readers' \in [Pipes -> SUBSET Procs] /\ writers' \in [Pipes -> SUBSET Procs]
    BY <1>0, <1>1, <1>2, <1>3, ZenonT(40) DEF LineTypeOK
  <2> QED
    BY <2>1, <2>2, <2>3 DEF LineTypeOK
<1>5. ChildrenRight'
  BY <1>0, <1>1, <1>3 DEF ChildrenRight
<1>6. MadeOnce'
  BY <1>0, <1>1, <1>3, StillMadeOnce
<1>7. EndsRight'
  <2>1. \A q \in Procs, j \in Pipes :
            q # C(i) => (q \in writers'[j] <=> q \in writers[j]) /\ (q \in readers'[j] <=> q \in readers[j])
    BY <1>1, <1>2
  <2>2. ASSUME NEW k \in Pipes PROVE ManagerEnds(k)'
    <3>1. M(k) \in Procs /\ ManagerEnds(k) /\ M(k) # C(i)
      BY <1>0, Names DEF EndsRight
    <3>2. \A j \in Pipes :
             (M(k) \in writers'[j] <=> M(k) \in writers[j]) /\ (M(k) \in readers'[j] <=> M(k) \in readers[j])
      BY <2>1, <3>1
    <3> QED
      BY <1>3, <3>1, <3>2, ManagerEndsKept
  <2>3. ASSUME NEW k \in 1 .. N PROVE CommandEnds(k)'
    <3>1. C(k) \in Procs /\ CommandEnds(k)
      BY <1>0, Names DEF EndsRight
    <3>2. CASE k = i
      <4>1. \A j \in Pipes : /\ C(i) \in writers'[j] => j = i
                             /\ C(i) \in readers'[j] => j = i - 1
        BY <1>0, <1>1, <1>2, <3>1, <3>2 DEF CommandEnds, CommandWrites, CommandReads
      <4> QED
        BY <1>1, <1>2, <3>1, <3>2, <4>1 DEF CommandEnds, CommandWrites, CommandReads
    <3>3. CASE k # i
      <4>1. C(k) # C(i) /\ pc'[C(k)] = pc[C(k)]
        BY <1>3, <3>3, Names
      <4>2. \A j \in Pipes :
               (C(k) \in writers'[j] <=> C(k) \in writers[j]) /\ (C(k) \in readers'[j] <=> C(k) \in readers[j])
        BY <2>1, <3>1, <4>1
      <4> QED
        BY <3>1, <4>1, <4>2, CommandEndsKept
    <3> QED
      BY <3>2, <3>3
  <2> QED
    BY <2>2, <2>3 DEF EndsRight
<1> QED
  BY <1>4, <1>5, <1>6, <1>7 DEF LineInv

\* The right child keeps the end that it reads, and nothing of its manager's
\* input.
LEMMA LineRightChild ==
    ASSUME LineInv, NEW i \in Pipes, Hijo2(i)
    PROVE  LineInv'
<1> DEFINE child == Right(i)
           next == IF child \in Managers THEN "pipe" ELSE "runs"
<1>0. /\ LineTypeOK /\ ChildrenRight /\ MadeOnce /\ EndsRight /\ child \in Procs
      /\ N \in Nat /\ N > 1 /\ \A k \in Pipes : k \in Nat /\ k >= 1 /\ k < N
  BY Names DEF LineInv
<1>1. /\ pc[child] = "forked" /\ pc' = [pc EXCEPT ![child] = next] /\ failed' = failed
      /\ writers' = [writers EXCEPT ![i] = @ \ {child}]
      /\ readers' = [j \in Pipes |-> IF j = i THEN readers[j] ELSE readers[j] \ {child}]
  BY DEF Hijo2
<1>2. /\ \A k \in Pipes : child = M(k) => next = "pipe" /\ k = i + 1
      /\ \A k \in 1 .. N : child = C(k) => next = "runs" /\ k = N /\ i = N - 1
      /\ next \in {"pipe", "runs"}
  BY Names DEF Managers
<1> HIDE DEF child, next
<1>3. /\ pc'[child] = next /\ \A q \in Procs : q # child => pc'[q] = pc[q]
      /\ readers' \in [Pipes -> SUBSET Procs] /\ writers' \in [Pipes -> SUBSET Procs]
      /\ \A j \in Pipes : /\ writers'[j] = IF j = i THEN writers[j] \ {child} ELSE writers[j]
                          /\ readers'[j] = IF j = i THEN readers[j] ELSE readers[j] \ {child}
      /\ pc' \in [Procs -> {"none", "forked", "pipe", "left", "right", "close", "wait left", "wait right",
                            "exit", "zombie", "runs"}]
  BY <1>0, <1>1, <1>2 DEF LineTypeOK
<1>4. /\ \A j \in Pipes : /\ pc[C(j)] = "none" => pc'[C(j)] = "none"
                          /\ pc[Right(j)] = "none" => pc'[Right(j)] = "none"
                          /\ pc'[M(j)] = pc[M(j)] \/ (M(j) = child /\ pc[M(j)] = "forked" /\ pc'[M(j)] = "pipe")
      /\ \A j \in 1 .. N : pc'[C(j)] = pc[C(j)] \/ (C(j) = child /\ pc'[C(j)] = "runs")
  <2>1. ASSUME NEW j \in Pipes PROVE M(j) \in Procs /\ C(j) \in Procs /\ Right(j) \in Procs
    BY Names
  <2>2. ASSUME NEW j \in 1 .. N PROVE C(j) \in Procs
    BY Names
  <2> QED
    BY <1>1, <1>2, <1>3, <2>1, <2>2
<1>5. LineTypeOK'
  <2>1. \A j \in Pipes : pc'[M(j)] # "runs"
    BY <1>0, <1>4 DEF LineTypeOK
  <2>2. \A j \in 1 .. N : pc'[C(j)] \in {"none", "forked", "runs", "zombie"}
    BY <1>0, <1>4 DEF LineTypeOK
  <2> QED
    BY <1>3, <2>1, <2>2 DEF LineTypeOK
<1>6. ChildrenRight'
  <2>1. \A j \in Pipes : /\ pc'[M(j)] \in Younger \cup {"none"} => pc[M(j)] \in Younger \cup {"none"}
                         /\ pc'[M(j)] \in Young \cup {"none"} => pc[M(j)] \in Young \cup {"none"}
                         /\ pc'[M(j)] \in {"wait right", "exit", Done} => pc[M(j)] = pc'[M(j)]
    BY <1>4 DEF Young, Younger, Done
  <2> QED
    BY <1>0, <1>1, <1>4, <2>1, ZenonT(40) DEF ChildrenRight
<1>7. MadeOnce'
  BY <1>0, <1>1, <1>4, StillMadeOnce DEF Young, Younger
<1>8. EndsRight'
  <2>1. \A q \in Procs, j \in Pipes :
            q # child => (q \in writers'[j] <=> q \in writers[j]) /\ (q \in readers'[j] <=> q \in readers[j])
    BY <1>3
  <2>2. \A j \in Pipes : /\ child \in writers'[j] => child \in writers[j] /\ j # i
                         /\ child \in readers'[j] => j = i
    BY <1>3
  <2>3. ASSUME NEW k \in Pipes PROVE ManagerEnds(k)'
    <3>1. M(k) \in Procs /\ ManagerEnds(k)
      BY <1>0, Names DEF EndsRight
    <3>2. CASE M(k) = child
      <4>1. pc'[M(k)] = "pipe" /\ pc[M(k)] = "forked" /\ i = k - 1
        <5>1. pc'[M(k)] = next /\ pc[M(k)] = "forked"
          BY <1>1, <1>3, <3>2
        <5>2. next = "pipe" /\ k = i + 1
          BY <1>2, <3>2
        <5> QED
          BY <1>0, <5>1, <5>2
      <4>2. \A j \in Pipes : child \notin writers'[j]
        BY <2>2, <3>1, <3>2, <4>1 DEF ManagerEnds, ManagerWrites, Forking
      <4> QED
        BY <2>2, <3>2, <4>1, <4>2 DEF ManagerEnds, ManagerReads, Forking, Done
    <3>3. CASE M(k) # child
      <4>1. pc'[M(k)] = pc[M(k)]
        BY <1>4, <3>3
      <4>2. \A j \in Pipes :
               (M(k) \in writers'[j] <=> M(k) \in writers[j]) /\ (M(k) \in readers'[j] <=> M(k) \in readers[j])
        BY <2>1, <3>1, <3>3
      <4> QED
        BY <3>1, <4>1, <4>2, ManagerEndsKept
    <3> QED
      BY <3>2, <3>3
  <2>4. ASSUME NEW k \in 1 .. N PROVE CommandEnds(k)'
    <3>1. C(k) \in Procs /\ CommandEnds(k)
      BY <1>0, Names DEF EndsRight
    <3>2. CASE C(k) = child
      <4>1. pc'[C(k)] = "runs" /\ k = N /\ i = k - 1 /\ k \notin Pipes
        BY <1>2, <1>3, <3>2, Names
      <4>2. \A j \in Pipes : child \in writers[j] => j = i
        <5>1. \A j \in Pipes : j # k
          BY <4>1
        <5> QED
          BY <3>1, <3>2, <4>1, <5>1 DEF CommandEnds, CommandWrites
      <4> QED
        BY <2>2, <3>2, <4>1, <4>2 DEF CommandEnds, CommandReads
    <3>3. CASE C(k) # child
      <4>1. pc'[C(k)] = pc[C(k)]
        BY <1>4, <3>3
      <4>2. \A j \in Pipes :
               (C(k) \in writers'[j] <=> C(k) \in writers[j]) /\ (C(k) \in readers'[j] <=> C(k) \in readers[j])
        BY <2>1, <3>1, <3>3
      <4> QED
        BY <3>1, <4>1, <4>2, CommandEndsKept
    <3> QED
      BY <3>2, <3>3
  <2> QED
    BY <2>3, <2>4 DEF EndsRight
<1> QED
  BY <1>5, <1>6, <1>7, <1>8 DEF LineInv

LEMMA LineSteps == LineInv /\ [Next]_vars => LineInv'
<1> SUFFICES ASSUME LineInv, [Next]_vars PROVE LineInv'
  OBVIOUS
<1>1. ASSUME UNCHANGED <<pc, failed, readers, writers>> PROVE LineInv'
  BY <1>1 DEF LineInv, LineTypeOK, ChildrenRight, MadeOnce, EndsRight, ManagerEnds, CommandEnds
<1>2. ASSUME NEW i \in Pipes, Manager(i) PROVE LineInv'
  <2>1. M(i) \in Procs
    BY Names
  <2>2. CASE MakePipe(i)
    BY <2>2, LineMakesPipe
  <2>3. CASE PipeFails(i) \/ ManagerExit(i)
    BY <2>1, <2>3, LineExits DEF PipeFails, ManagerExit
  <2>4. CASE ForkLeft(i)
    BY <2>4, LineForksLeft, LineForkFails DEF ForkLeft
  <2>5. CASE ForkRight(i)
    BY <2>5, LineForksRight, LineForkFails DEF ForkRight
  <2>6. CASE Close(i)
    BY <2>6, LineCloses
  <2>7. CASE WaitLeft(i) \/ WaitRight(i)
    BY <2>7, LineWaits
  <2> QED
    BY <1>2, <2>2, <2>3, <2>4, <2>5, <2>6, <2>7 DEF Manager
<1>3. ASSUME NEW i \in Pipes, Hijo1(i) \/ Hijo2(i) PROVE LineInv'
  BY <1>3, LineLeftChild, LineRightChild
<1>4. ASSUME NEW i \in 1 .. N, CommandWrite(i) \/ CommandRead(i) PROVE LineInv'
  BY <1>1, <1>4 DEF CommandWrite, CommandRead
<1>5. ASSUME NEW i \in 1 .. N, CommandExit(i) PROVE LineInv'
  <2>1. C(i) \in Procs
    BY Names
  <2> QED
    BY <1>5, <2>1, LineExits DEF CommandExit, Runs
<1>6. CASE Ended \/ UNCHANGED vars
  BY <1>1, <1>6 DEF Ended, vars
<1> QED
  BY <1>2, <1>3, <1>4, <1>5, <1>6 DEF Next

\* A process that is left has a parent: a manager that still waits.
LEMMA LineLeavesNothing == LineInv => NothingLeft
<1> SUFFICES ASSUME LineInv PROVE NothingLeft
  OBVIOUS
<1>0. /\ ChildrenRight /\ EndsRight /\ N \in Nat
      /\ \A k \in Pipes : k \in Nat /\ k >= 1 /\ k < N /\ k \in 1 .. N
  BY Names DEF LineInv
<1>1. ASSUME pc[M(1)] = Done PROVE \A p \in Procs \ {M(1)} : pc[p] = "none"
  <2> DEFINE Left == {i \in Pipes : i # 1 /\ pc[M(i)] # "none"}
  <2>1. \A i \in Pipes : pc[M(i)] \in {"none", Done} => pc[C(i)] = "none" /\ pc[Right(i)] = "none"
    BY <1>0 DEF ChildrenRight, Young, Younger
  <2>2. Left = {}
    <3> SUFFICES ASSUME Left # {} PROVE FALSE
      OBVIOUS
    <3>1. PICK i \in Left : \A j \in Left : i <= j
      <4>1. Left \subseteq Nat
        BY <1>0
      <4> HIDE DEF Left
      <4> QED
        BY <4>1, LeastExists
    <3>2. i \in Pipes /\ i # 1 /\ pc[M(i)] # "none" /\ i - 1 \in Pipes /\ ~(i <= i - 1) /\ i - 1 # N - 1 /\ (i - 1) + 1 = i
      BY <1>0, <3>1 DEF Pipes
    <3>3. Right(i - 1) = M(i)
      BY <3>2, Names
    <3>4. pc[M(i - 1)] \in {"none", Done}
      BY <1>1, <3>1, <3>2
    <3> QED
      BY <2>1, <3>2, <3>3, <3>4
  <2>3. \A i \in Pipes : pc[M(i)] \in {"none", Done} /\ (i # 1 => pc[M(i)] = "none")
    BY <1>1, <2>2
  <2>4. ASSUME NEW i \in 1 .. N PROVE pc[C(i)] = "none"
    <3>1. CASE i \in Pipes
      BY <2>1, <2>3, <3>1
    <3>2. CASE i \notin Pipes
      <4>1. i = N /\ N - 1 \in Pipes
        BY <1>0, <3>2, Names DEF Pipes
      <4>2. Right(N - 1) = C(N)
        BY <4>1, Names
      <4> QED
        BY <2>1, <2>3, <4>1, <4>2
    <3> QED
      BY <3>1, <3>2
  <2> QED
    BY <2>3, <2>4, Names
<1>2. ASSUME NEW i \in 1 .. N, Runs(i)
      PROVE  /\ {j \in Pipes : C(i) \in writers[j]} = {i} \cap Pipes
             /\ {j \in Pipes : C(i) \in readers[j]} \subseteq {i - 1}
  <2>1. CommandEnds(i) /\ pc[C(i)] = "runs"
    BY <1>0, <1>2 DEF EndsRight, Runs
  <2> QED
    BY <2>1 DEF CommandEnds, CommandWrites, CommandReads
<1> QED
  BY <1>1, <1>2 DEF NothingLeft, AllWaitedFor, NoLeaks

\* Whatever the length of the line, the room in its pipes and what its commands
\* do, and whichever pipe() or fork() fails: a command that runs has its own
\* ends and no others, and when the shell is told that the line has ended no
\* process of it is left (exec_cmd).
THEOREM LineLeavesNoProcess == Spec => []NothingLeft
<1>1. Spec => []LineInv
  BY LineStarts, LineSteps, PTL DEF Spec
<1> QED
  BY <1>1, LineLeavesNothing, PTL

-----------------------------------------------------------------------------
(* The sieve.                                                              *)

Top == Max(Ns)

\* Where a process has no prime yet, no child yet, and where it has one.
Entering == {"none", "child", "receive", "first"}
Childless == Entering \cup {"pipe", "fork"}
Parents == {"parent", "send", "read", "write", "wait"}
\* It has its input open, or its output.
Reading == {"child", "receive", "first", "pipe", "fork", "parent", "read", "write"}
Sending == {"fork", "parent", "send", "read", "write"}

\* What processes 1 to k let through.
Sifted(k, x) == \A j \in 1 .. k : x % prime[j] # 0

Lists(s, S) == /\ s \in Seq(Nat)
               /\ \A i, j \in 1 .. Len(s) : i < j => s[i] < s[j]
               /\ \A x : x \in S <=> \E i \in 1 .. Len(s) : s[i] = x

SieveTypes ==
    /\ n \in Ns /\ terminal \in BOOLEAN /\ broken \in BOOLEAN
    /\ doing \in [Sieves -> Childless \cup Parents \cup Over]
    /\ prime \in [Sieves -> Nat] /\ num \in [Sieves -> Nat]
    /\ rd \in [Links -> SUBSET Sieves] /\ wr \in [Links -> SUBSET Sieves]
    /\ link \in [Links -> Seq(Nat)] /\ stdout \in [Sieves -> Seq(Nat)]
    /\ output \in Seq(Nat)
    /\ \A i \in Links : Len(link[i]) <= Room

\* Who has forked has a child, and process 0 has nothing to read.
ChainRight ==
    /\ doing[0] \notin Entering \cup {"read"}
    /\ \A k \in Sieves : k # 0 => doing[k] # "send"
    /\ \A k \in Sieves : k + 1 \in Sieves =>
          /\ doing[k] \in Childless => doing[k + 1] = "none"
          /\ doing[k] \in Parents => doing[k + 1] # "none"

\* Which ends process k has open when it is at.
MayWrite(k, at, i) == (at \in Sending /\ i = k + 1) \/ (at \in {"child", "receive"} /\ i = k)
MayRead(k, at, i) == \/ at \in Reading /\ i = k
                     \/ at \in {"fork", "parent"} /\ i = k + 1
                     \/ at = "child" /\ i = k - 1
PipeEnds(k) ==
    /\ \A i \in Links : (k \in wr[i] => MayWrite(k, doing[k], i)) /\ (k \in rd[i] => MayRead(k, doing[k], i))
    /\ doing[k] \in Sending => k \in wr[k + 1]
    /\ doing[k] = "fork" => k \in rd[k + 1]
    /\ k # 0 /\ doing[k] \in Reading => k \in rd[k]

\* t is the last number that each process has taken, 1 if none.  What has a
\* prime has the next one, and what is not greater has been sifted.
HasPrime(k) == k # 0 /\ prime[k] # 1
PrimeRight(t, k) ==
    /\ prime[k] >= 1 /\ prime[k] <= t[k] /\ t[k] <= n
    /\ k # 0 => (prime[k] = 1 <=> t[k] = 1)
    /\ k # 0 /\ doing[k] \in Entering => prime[k] = 1
    /\ k # 0 /\ doing[k] \in {"pipe", "fork"} \cup Parents => prime[k] # 1
    /\ HasPrime(k) => prime[k] > k /\ Prime(prime[k]) /\ \A y \in 2 .. prime[k] : ~Sifted(k, y)
OrderRight(t) ==
    /\ \A i, j \in Sieves : i < j => t[j] <= t[i]
    /\ \A i, j \in Sieves : 0 < i /\ i < j /\ prime[j] # 1 => prime[i] # 1 /\ prime[i] < prime[j]
    /\ \A j \in Sieves : j > 1 /\ doing[j] # "none" => prime[j - 1] # 1

\* A number that process k has taken and let through is in its output, but
\* for the one that it is to write or was killed for.
Writing(k) == doing[k] \in {"write", "killed"}
WritesRight(t, k) == Writing(k) => /\ num[k] = t[k] /\ t[k] > 1 /\ Sifted(k, t[k])
                                   /\ k + 1 \in Sieves => t[k + 1] < t[k]
InFlow(t, k) == {x \in t[k] + 1 .. t[k - 1] : Sifted(k - 1, x) /\ (Writing(k - 1) => x # t[k - 1])}

FlowRight(t) == /\ t \in [Sieves -> Nat] /\ t[0] = prime[0]
                /\ OrderRight(t)
                /\ \A k \in Sieves : PrimeRight(t, k) /\ WritesRight(t, k)
                /\ \A k \in 1 .. Top : Lists(link[k], InFlow(t, k))

\* Every prime found is printed, or will be; and nothing else.
Found == {prime[k] : k \in {j \in 1 .. Top : prime[j] # 1}}
PrintedRight ==
    /\ terminal => /\ \A k \in Sieves : stdout[k] = <<>>
                   /\ \A k \in 1 .. Top : prime[k] # 1 <=> k <= Len(output)
                   /\ \A i \in 1 .. Len(output) : i \in 1 .. Top /\ output[i] = prime[i]
    /\ \A i \in 1 .. Len(output) : output[i] \in Found
    /\ \A k \in Sieves : \A i \in 1 .. Len(stdout[k]) : stdout[k][i] \in Found
    /\ \A k \in 1 .. Top : HasPrime(k) =>
          \/ \E i \in 1 .. Len(output) : output[i] = prime[k]
          \/ doing[k] \notin Over /\ \E i \in 1 .. Len(stdout[k]) : stdout[k][i] = prime[k]
          \/ doing[k] = "killed"

\* While nothing has failed, who has seen the end of its input has taken all
\* there was, and ends after the one before it has closed and the one behind
\* it has ended.
Finished(k) == doing[k] \in {"wait", "exited"}
EndedRight(t) == ~broken =>
    /\ \A k \in Sieves : doing[k] \notin {"killed", "failed"}
    /\ \A k \in 1 .. Top : Finished(k) => link[k] = <<>> /\ Finished(k - 1)
    /\ \A k \in Sieves : Finished(k) => \A x \in 2 .. n : Sifted(k - 1, x) => x <= t[k]
    /\ \A k \in Sieves : k + 1 \in Sieves /\ doing[k] = "exited" /\ (k = 0 \/ HasPrime(k)) => doing[k + 1] = "exited"

SieveInv == /\ SieveTypes /\ ChainRight /\ NoneLeft /\ PrintedRight
            /\ \A k \in Sieves : PipeEnds(k)
            /\ \E t \in [Sieves -> Nat] : FlowRight(t) /\ EndedRight(t)
-----------------------------------------------------------------------------
(* Numbers.                                                                *)

\* What % and \div do with numbers that divide each other.
LEMMA SelfDivides == ASSUME NEW x \in Nat, x > 0 PROVE x % x = 0
OBVIOUS

LEMMA SmallRemains == ASSUME NEW x \in Nat, NEW p \in Nat, x < p PROVE x % p = x
OBVIOUS

LEMMA DivisorBelow == ASSUME NEW x \in Nat, NEW p \in Nat, x > 0, p > 0, x % p = 0 PROVE p <= x
BY SmallRemains

LEMMA Quotient == ASSUME NEW x \in Nat, NEW p \in Nat, p > 0, x % p = 0 PROVE \E q \in Nat : x = p * q
<1>1. x = p * (x \div p) + (x % p) /\ x \div p \in Int
  OBVIOUS
<1>2. x \div p >= 0
  OBVIOUS
<1> QED BY <1>1, <1>2

LEMMA Multiple == ASSUME NEW p \in Nat, p > 0, NEW q \in Nat PROVE (p * q) % p = 0
OBVIOUS

LEMMA Associates == ASSUME NEW a \in Nat, NEW b \in Nat, NEW c \in Nat PROVE (a * b) * c = a * (b * c) /\ b * c \in Nat
OBVIOUS

\* What divides a divisor of x divides x.
LEMMA DividesOn ==
    ASSUME NEW x \in Nat, NEW d \in Nat, NEW e \in Nat, d > 0, e > 0, x % d = 0, d % e = 0
    PROVE  x % e = 0
<1>1. PICK q \in Nat : x = d * q
  BY Quotient
<1>2. PICK r \in Nat : d = e * r
  BY Quotient
<1>3. x = e * (r * q) /\ r * q \in Nat
  BY <1>1, <1>2, Associates
<1> QED BY <1>3, Multiple

\* The greatest number of a set that is finite and not empty.
LEMMA GreatestExists ==
    ASSUME NEW S, IsFiniteSet(S), S \subseteq Nat, S # {}
    PROVE  Max(S) \in S /\ \A y \in S : y <= Max(S)
<1> DEFINE R == StrictSubsetOrdering(S)
           Above(x) == {y \in S : y > x}
           T == {Above(x) : x \in S}
<1>1. IsWellFoundedOn(R, FiniteSubsetsOf(S))
  BY FS_StrictSubsetOrderingWellFounded
<1>2. T \subseteq FiniteSubsetsOf(S) /\ T # {}
  <2>1. \A x \in S : Above(x) \subseteq S /\ IsFiniteSet(Above(x))
    BY FS_Subset
  <2> HIDE DEF Above
  <2> QED BY <2>1 DEF FiniteSubsetsOf
<1>3. PICK A \in T : \A B \in T : <<B, A>> \notin R
  <2> HIDE DEF R, T
  <2> QED BY <1>1, <1>2, WFMin
<1>4. PICK x \in S : A = Above(x)
  OBVIOUS
<1>5. ASSUME NEW y \in S, y > x PROVE FALSE
  <2>0. \A z \in S : z > y => z > x
    BY <1>5
  <2>1. Above(y) \in T /\ Above(y) \subseteq Above(x) /\ Above(x) \subseteq S
    BY <2>0
  <2>2. y \in Above(x) /\ y \notin Above(y)
    BY <1>5
  <2>3. Above(y) # Above(x)
    BY <2>2
  <2>4. <<Above(y), Above(x)>> \in R
    <3> HIDE DEF Above
    <3> QED BY <2>1, <2>3 DEF StrictSubsetOrdering
  <2> QED
    BY <1>3, <1>4, <2>1, <2>4
<1> HIDE DEF R, Above, T
<1>6. ASSUME NEW y \in S PROVE x >= y /\ y <= x
  <2>1. x \in Nat /\ y \in Nat
    OBVIOUS
  <2> QED
    BY <1>5, <2>1
<1> QED
  BY <1>6 DEF Max

-----------------------------------------------------------------------------
(* Sequences that list a set of numbers in order.                          *)

\* Sequences that list a set in order: their first number, the others, and one
\* number more.
LEMMA HeadAndTail ==
    ASSUME NEW s \in Seq(Nat), s # <<>>
    PROVE  Head(s) \in Nat /\ Tail(s) \in Seq(Nat) /\ Len(Tail(s)) = Len(s) - 1
<1>1. Len(s) \in Nat /\ Len(s) > 0 /\ Head(s) = s[1] /\ 1 \in 1 .. Len(s)
  OBVIOUS
<1>2. Head(s) \in Nat
  BY <1>1
<1> QED
  BY <1>1, <1>2

LEMMA ListsNone == ASSUME NEW s, NEW S, Lists(s, S) PROVE s = <<>> <=> S = {}
BY DEF Lists

LEMMA ListsHead ==
    ASSUME NEW s, NEW S, Lists(s, S), s # <<>>
    PROVE  /\ Head(s) \in S /\ Head(s) \in Nat /\ \A y \in S : y \in Nat /\ Head(s) <= y
           /\ Lists(Tail(s), S \ {Head(s)})
<1>1. s \in Seq(Nat) /\ Len(s) \in Nat /\ Len(s) > 0 /\ Head(s) = s[1] /\ 1 \in 1 .. Len(s)
  BY DEF Lists
<1>2. Head(s) \in S /\ Head(s) \in Nat
  BY <1>1 DEF Lists
<1>3. ASSUME NEW y \in S PROVE y \in Nat /\ Head(s) <= y
  <2>1. PICK i \in 1 .. Len(s) : s[i] = y
    BY DEF Lists
  <2>2. CASE i = 1
    BY <1>1, <2>1, <2>2
  <2>3. CASE i # 1
    BY <1>1, <2>1, <2>3 DEF Lists
  <2> QED
    BY <2>2, <2>3
<1>4. /\ Tail(s) \in Seq(Nat) /\ Len(Tail(s)) = Len(s) - 1
      /\ \A i \in 1 .. Len(Tail(s)) : Tail(s)[i] = s[i + 1] /\ i + 1 \in 1 .. Len(s)
  BY <1>1
<1>5. \A i, j \in 1 .. Len(Tail(s)) : i < j => Tail(s)[i] < Tail(s)[j]
  BY <1>1, <1>4 DEF Lists
<1>6. ASSUME NEW x \in S \ {Head(s)} PROVE \E i \in 1 .. Len(Tail(s)) : Tail(s)[i] = x
  <2>1. PICK i \in 1 .. Len(s) : s[i] = x
    BY <1>6 DEF Lists
  <2>2. i # 1
    BY <1>1, <1>6, <2>1
  <2>3. i - 1 \in 1 .. Len(Tail(s)) /\ Tail(s)[i - 1] = x
    BY <1>1, <1>4, <2>1, <2>2
  <2> QED
    BY <2>3
<1>7. ASSUME NEW i \in 1 .. Len(Tail(s)) PROVE Tail(s)[i] \in S \ {Head(s)}
  BY <1>1, <1>4 DEF Lists
<1> QED
  BY <1>2, <1>3, <1>4, <1>5, <1>6, <1>7 DEF Lists

LEMMA ListsAppend ==
    ASSUME NEW s, NEW S, Lists(s, S), NEW x \in Nat, \A y \in S : y < x
    PROVE  Lists(Append(s, x), S \cup {x})
<1> DEFINE r == Append(s, x)
<1>1. s \in Seq(Nat) /\ Len(s) \in Nat
  BY DEF Lists
<1>2. /\ r \in Seq(Nat) /\ Len(r) = Len(s) + 1 /\ r[Len(s) + 1] = x
      /\ \A i \in 1 .. Len(s) : r[i] = s[i]
  BY <1>1
<1> HIDE DEF r
<1>3. ASSUME NEW i \in 1 .. Len(r), NEW j \in 1 .. Len(r), i < j PROVE r[i] < r[j]
  <2>1. i \in 1 .. Len(s) /\ s[i] \in S
    BY <1>1, <1>2, <1>3, SMTT(30) DEF Lists
  <2>2. CASE j = Len(s) + 1
    BY <1>1, <1>2, <2>1, <2>2
  <2>3. CASE j # Len(s) + 1
    <3>1. j \in 1 .. Len(s)
      BY <1>1, <1>2, <2>3
    <3>2. s[i] < s[j]
      BY <1>3, <2>1, <3>1 DEF Lists
    <3> QED
      BY <1>2, <2>1, <3>1, <3>2
  <2> QED
    BY <2>2, <2>3
<1>4. ASSUME NEW y \in S \cup {x} PROVE \E i \in 1 .. Len(r) : r[i] = y
  <2>1. CASE y = x
    BY <1>1, <1>2, <2>1
  <2>2. CASE y # x
    <3>1. PICK i \in 1 .. Len(s) : s[i] = y
      BY <1>4, <2>2 DEF Lists
    <3> QED
      BY <1>1, <1>2, <3>1
  <2> QED
    BY <2>1, <2>2
<1>5. ASSUME NEW i \in 1 .. Len(r) PROVE r[i] \in S \cup {x}
  <2>1. CASE i = Len(s) + 1
    BY <1>2, <2>1
  <2>2. CASE i # Len(s) + 1
    BY <1>1, <1>2, <2>2, SMTT(30) DEF Lists
  <2> QED
    BY <2>1, <2>2
<1> QED
  BY <1>2, <1>3, <1>4, <1>5 DEF Lists, r

-----------------------------------------------------------------------------
(* The processes: types, the chain, and the ends of pipes.                 *)

\* The places of the chain.
LEMMA Bounds ==
    ASSUME SieveTypes
    PROVE  /\ Top \in Nat /\ n \in Nat /\ n >= 1 /\ n <= Top
           /\ Sieves = 0 .. Top /\ Links = 1 .. Top + 1 /\ 0 \in Sieves
<1>1. Ns # {} /\ n \in Ns /\ Ns \subseteq Nat \ {0} /\ IsFiniteSet(Ns)
  BY SieveAssumption DEF SieveTypes
<1>2. Top \in Ns /\ n <= Top
  BY <1>1, GreatestExists DEF Top
<1>3. Sieves = 0 .. Top /\ Links = 1 .. Top + 1
  BY DEF Sieves, Links, Top
<1> QED
  BY <1>1, <1>2, <1>3

\* A process with a prime has one behind it, or may have: its prime is greater
\* than its place.
LEMMA NextPlace ==
    ASSUME SieveInv, NEW k \in Sieves
    PROVE  /\ doing[k] \in {"pipe", "fork"} \cup Parents => k = 0 \/ HasPrime(k)
           /\ k = 0 \/ HasPrime(k) => k \in Nat /\ k + 1 \in Sieves /\ k + 1 \in Links
<1>1. PICK t \in [Sieves -> Nat] : FlowRight(t)
  BY DEF SieveInv
<1>2. PrimeRight(t, k) /\ SieveTypes /\ t[k] \in Nat /\ prime[k] \in Nat
  BY <1>1 DEF FlowRight, SieveInv, SieveTypes
<1>3. Top \in Nat /\ n \in Nat /\ n >= 1 /\ n <= Top /\ Sieves = 0 .. Top /\ Links = 1 .. Top + 1
  BY <1>2, Bounds
<1>4. doing[k] \in {"pipe", "fork"} \cup Parents => k = 0 \/ HasPrime(k)
  BY <1>2 DEF PrimeRight, HasPrime
<1>5. HasPrime(k) => k < Top
  BY <1>2, <1>3 DEF PrimeRight
<1> QED
  BY <1>3, <1>4, <1>5

\* Each step leaves every variable what it is to be.
LEMMA TypesKept ==
    ASSUME SieveInv, NEW k \in Sieves, SieveStep(k)
    PROVE  SieveTypes'
<1>1. /\ n \in Ns /\ terminal \in BOOLEAN /\ broken \in BOOLEAN
      /\ doing \in [Sieves -> Childless \cup Parents \cup Over]
      /\ prime \in [Sieves -> Nat] /\ num \in [Sieves -> Nat]
      /\ rd \in [Links -> SUBSET Sieves] /\ wr \in [Links -> SUBSET Sieves]
      /\ link \in [Links -> Seq(Nat)] /\ stdout \in [Sieves -> Seq(Nat)]
      /\ output \in Seq(Nat)
      /\ \A i \in Links : Len(link[i]) <= Room
      /\ Room \in Nat /\ Top \in Nat /\ n \in Nat /\ Sieves = 0 .. Top /\ Links = 1 .. Top + 1 /\ 0 \in Sieves
  BY Bounds, SieveAssumption DEF SieveInv, SieveTypes
<1>2. doing[k] \in {"pipe", "fork"} \cup Parents => k + 1 \in Sieves /\ k + 1 \in Links
  BY NextPlace
<1>3. \A at \in Childless \cup Parents \cup Over : Becomes(k, at) => doing' \in [Sieves -> Childless \cup Parents \cup Over]
  BY <1>1 DEF Becomes
<1>4. \A at \in Over : \A w \in Seq(Nat) : Ends(k, at, w) /\ broken' \in BOOLEAN => SieveTypes'
  <2> TAKE at \in Over
  <2> TAKE w \in Seq(Nat)
  <2> HAVE Ends(k, at, w) /\ broken' \in BOOLEAN
  <2>1. doing' \in [Sieves -> Childless \cup Parents \cup Over]
    BY <1>3 DEF Ends
  <2>2. rd' \in [Links -> SUBSET Sieves] /\ wr' \in [Links -> SUBSET Sieves]
    BY <1>1 DEF Ends
  <2>3. output' \in Seq(Nat) /\ stdout' \in [Sieves -> Seq(Nat)]
    BY <1>1 DEF Ends
  <2> QED
    BY <1>1, <2>1, <2>2, <2>3 DEF Ends, SieveTypes
<1>5. stdout[k] \in Seq(Nat) /\ <<>> \in Seq(Nat) /\ {"exited", "failed", "killed"} \subseteq Over
  BY <1>1 DEF Over
<1>6. CASE Pipe(k)
  <2>1. rd' \in [Links -> SUBSET Sieves] /\ wr' \in [Links -> SUBSET Sieves]
    BY <1>1, <1>6, ZenonT(40) DEF Pipe, Opened
  <2>2. doing' \in [Sieves -> Childless \cup Parents \cup Over]
    BY <1>3, <1>6 DEF Pipe, Childless
  <2> QED
    BY <1>1, <1>6, <2>1, <2>2 DEF Pipe, SieveTypes
<1>7. CASE Fork(k)
  <2>1. k + 1 \in Sieves
    BY <1>2, <1>7 DEF Fork
  <2>2. rd' \in [Links -> SUBSET Sieves] /\ wr' \in [Links -> SUBSET Sieves]
    BY <1>1, <1>7, <2>1, ZenonT(40) DEF Fork
  <2>3. doing' \in [Sieves -> Childless \cup Parents \cup Over]
    BY <1>1, <1>7, <2>1 DEF Fork, Childless, Entering, Parents
  <2>4. stdout' \in [Sieves -> Seq(Nat)]
    BY <1>1, <1>7, <2>1 DEF Fork
  <2> QED
    BY <1>1, <1>7, <2>2, <2>3, <2>4 DEF Fork, SieveTypes
<1>8. CASE CallFails(k)
  BY <1>4, <1>5, <1>8 DEF CallFails, ExitFails
<1>9. CASE Parent(k)
  <2>1. rd' \in [Links -> SUBSET Sieves]
    BY <1>1, <1>9 DEF Parent, Closed
  <2>2. doing' \in [Sieves -> Childless \cup Parents \cup Over]
    BY <1>3, <1>9 DEF Parent, Parents
  <2> QED
    BY <1>1, <1>9, <2>1, <2>2 DEF Parent, SieveTypes
<1>10. CASE Child(k)
  <2>1. rd' \in [Links -> SUBSET Sieves]
    BY <1>1, <1>10 DEF Child, Closed
  <2>2. doing' \in [Sieves -> Childless \cup Parents \cup Over]
    BY <1>3, <1>10 DEF Child, Childless, Entering
  <2> QED
    BY <1>1, <1>10, <2>1, <2>2 DEF Child, SieveTypes
<1>11. CASE Receive(k)
  <2>1. wr' \in [Links -> SUBSET Sieves]
    BY <1>1, <1>11 DEF Receive, Closed
  <2>2. doing' \in [Sieves -> Childless \cup Parents \cup Over]
    BY <1>3, <1>11 DEF Receive, Childless, Entering
  <2> QED
    BY <1>1, <1>11, <2>1, <2>2 DEF Receive, SieveTypes
<1>12. ASSUME k # 0, link[k] # <<>>, link' = [link EXCEPT ![k] = Tail(@)]
       PROVE  /\ Head(link[k]) \in Nat /\ link' \in [Links -> Seq(Nat)]
              /\ \A i \in Links : Len(link'[i]) <= Room
  <2>1. k \in Links /\ link[k] \in Seq(Nat) /\ Len(link[k]) <= Room
    BY <1>1, <1>12
  <2>2. Head(link[k]) \in Nat /\ Tail(link[k]) \in Seq(Nat) /\ Len(Tail(link[k])) <= Room
    <3>1. Head(link[k]) \in Nat /\ Tail(link[k]) \in Seq(Nat) /\ Len(Tail(link[k])) = Len(link[k]) - 1
      BY <1>12, <2>1, HeadAndTail
    <3>2. Len(link[k]) \in Nat /\ Room \in Nat
      BY <1>1, <2>1
    <3> QED
      BY <2>1, <3>1, <3>2
  <2>3. link' \in [Links -> Seq(Nat)]
    BY <1>1, <1>12, <2>2
  <2>4. \A i \in Links : link'[i] = IF i = k THEN Tail(link[k]) ELSE link[i]
    BY <1>1, <1>12
  <2> QED
    BY <1>1, <2>2, <2>3, <2>4
<1>13. k = 0 => doing[k] \notin {"first", "read"}
  BY DEF SieveInv, ChainRight, Entering
<1>14. CASE First(k)
  <2>1. Head(link[k]) \in Nat /\ link' \in [Links -> Seq(Nat)] /\ \A i \in Links : Len(link'[i]) <= Room
    BY <1>12, <1>13, <1>14 DEF First
  <2>2. doing' \in [Sieves -> Childless \cup Parents \cup Over]
    BY <1>3, <1>14 DEF First, Childless
  <2>3. prime' \in [Sieves -> Nat]
    BY <1>1, <1>14, <2>1 DEF First
  <2>4. output' \in Seq(Nat) /\ stdout' \in [Sieves -> Seq(Nat)]
    <3>1. CASE terminal
      <4>1. Append(output, Head(link[k])) \in Seq(Nat)
        BY <1>1, <2>1
      <4> QED
        BY <1>1, <1>14, <3>1, <4>1 DEF First
    <3>2. CASE ~terminal
      <4>1. Append(stdout[k], Head(link[k])) \in Seq(Nat)
        BY <1>5, <2>1
      <4> QED
        BY <1>1, <1>14, <3>2, <4>1 DEF First
    <3> QED
      BY <3>1, <3>2
  <2> QED
    BY <1>1, <1>14, <2>1, <2>2, <2>3, <2>4 DEF First, SieveTypes, ends
<1>15. CASE NoFirst(k)
  BY <1>1, <1>4, <1>5, <1>15 DEF NoFirst, Exit
<1>16. CASE Read(k)
  <2>1. Head(link[k]) \in Nat /\ link' \in [Links -> Seq(Nat)] /\ \A i \in Links : Len(link'[i]) <= Room
    BY <1>12, <1>13, <1>16 DEF Read
  <2>2. doing' \in [Sieves -> Childless \cup Parents \cup Over]
    BY <1>1, <1>3, <1>16 DEF Read, Parents
  <2>3. num' \in [Sieves -> Nat]
    BY <1>1, <1>16, <2>1 DEF Read
  <2> QED
    BY <1>1, <1>16, <2>1, <2>2, <2>3 DEF Read, SieveTypes, ends
<1>17. CASE Write(k)
  <2>1. k + 1 \in Links /\ num[k] \in Nat /\ link[k + 1] \in Seq(Nat)
    BY <1>1, <1>2, <1>17 DEF Write, Parents
  <2>2. Append(link[k + 1], num[k]) \in Seq(Nat) /\ Len(Append(link[k + 1], num[k])) <= Room
    BY <1>1, <1>17, <2>1 DEF Write
  <2>3. link' \in [Links -> Seq(Nat)] /\ \A i \in Links : Len(link'[i]) <= Room
    BY <1>1, <1>17, <2>1, <2>2 DEF Write
  <2>4. doing' \in [Sieves -> Childless \cup Parents \cup Over]
    BY <1>3, <1>17 DEF Write, Parents
  <2>5. num' \in [Sieves -> Nat]
    BY <1>1, <1>17 DEF Write
  <2> QED
    BY <1>1, <1>17, <2>3, <2>4, <2>5 DEF Write, SieveTypes, ends
<1>18. CASE WriteKilled(k)
  BY <1>1, <1>4, <1>5, <1>18 DEF WriteKilled, Killed
<1>19. CASE CloseEnds(k)
  <2>1. rd' \in [Links -> SUBSET Sieves] /\ wr' \in [Links -> SUBSET Sieves]
    BY <1>1, <1>19 DEF CloseEnds, Closed
  <2>2. doing' \in [Sieves -> Childless \cup Parents \cup Over]
    BY <1>3, <1>19 DEF CloseEnds, Parents
  <2> QED
    BY <1>1, <1>19, <2>1, <2>2 DEF CloseEnds, SieveTypes
<1>20. CASE Wait(k)
  BY <1>1, <1>4, <1>5, <1>20 DEF Wait, Exit
<1>21. CASE k = 0 /\ SendNumber
  <2>1. prime[0] + 1 \in Nat
    BY <1>1, SMTT(30)
  <2>2. prime' \in [Sieves -> Nat] /\ num' \in [Sieves -> Nat]
    BY <1>1, <1>21, <2>1 DEF SendNumber
  <2>3. doing' \in [Sieves -> Childless \cup Parents \cup Over]
    BY <1>3, <1>21 DEF SendNumber, Parents
  <2> QED
    BY <1>1, <1>21, <2>2, <2>3 DEF SendNumber, SieveTypes, ends
<1> QED
  BY <1>6, <1>7, <1>8, <1>9, <1>10, <1>11, <1>14, <1>15, <1>16, <1>17, <1>18, <1>19, <1>20, <1>21 DEF SieveStep

\* A process that goes on, to where its child or the lack of one allows.
LEMMA ChainMoves ==
    ASSUME SieveTypes, ChainRight, NoneLeft, NEW k \in Sieves, NEW at, Becomes(k, at),
           doing[k] \notin Over \cup {"none"}, at # "none",
           k = 0 => at \notin Entering \cup {"read"}, k # 0 => at # "send",
           k + 1 \in Sieves => /\ at \in Childless => doing[k + 1] = "none"
                               /\ at \in Parents => doing[k + 1] # "none"
                               /\ at = "exited" => doing[k + 1] \in Over \cup {"none"}
    PROVE  ChainRight' /\ NoneLeft'
<1>1. /\ \A j \in Sieves : doing'[j] = IF j = k THEN at ELSE doing[j]
      /\ Sieves = 0 .. Top /\ Top \in Nat /\ 0 \in Sieves
  BY Bounds DEF Becomes, SieveTypes
<1>2. doing'[0] \notin Entering \cup {"read"} /\ \A j \in Sieves : j # 0 => doing'[j] # "send"
  BY <1>1 DEF ChainRight
<1>3. ASSUME NEW j \in Sieves, j + 1 \in Sieves
      PROVE  /\ doing'[j] \in Childless => doing'[j + 1] = "none"
             /\ doing'[j] \in Parents => doing'[j + 1] # "none"
             /\ doing'[j] = "exited" => doing'[j + 1] \in Over \cup {"none"}
  <2>1. /\ doing[j] \in Childless => doing[j + 1] = "none"
        /\ doing[j] \in Parents => doing[j + 1] # "none"
        /\ doing[j] = "exited" => doing[j + 1] \in Over \cup {"none"}
    BY <1>3 DEF ChainRight, NoneLeft
  <2>2. CASE j = k
    <3>1. j # j + 1
      BY <1>1
    <3> QED
      BY <1>1, <1>3, <2>2, <3>1
  <2>3. CASE j + 1 = k
    <3>1. j # j + 1
      BY <1>1
    <3> QED
      BY <1>1, <1>3, <2>1, <2>3, <3>1
  <2>4. CASE j # k /\ j + 1 # k
    BY <1>1, <1>3, <2>1, <2>4
  <2> QED
    BY <2>2, <2>3, <2>4
<1> QED
  BY <1>2, <1>3 DEF ChainRight, NoneLeft

\* Who has forked has a child, whichever step is taken, and nobody leaves one behind.
LEMMA ChainKept ==
    ASSUME SieveInv, NEW k \in Sieves, SieveStep(k)
    PROVE  ChainRight' /\ NoneLeft'
<1>0. /\ SieveTypes /\ ChainRight /\ NoneLeft
      /\ doing \in [Sieves -> Childless \cup Parents \cup Over]
  BY DEF SieveInv, SieveTypes
<1>1. /\ SieveTypes /\ ChainRight /\ NoneLeft /\ k \in Nat
      /\ doing \in [Sieves -> Childless \cup Parents \cup Over] /\ Sieves = 0 .. Top /\ Top \in Nat
  BY <1>0, Bounds
<1>2. /\ k + 1 \in Sieves /\ doing[k] \in Childless => doing[k + 1] = "none"
      /\ k + 1 \in Sieves /\ doing[k] \in Parents => doing[k + 1] # "none"
      /\ doing[k] \in {"pipe", "fork"} \cup Parents => k + 1 \in Sieves
      /\ k = 0 => doing[k] \notin Entering \cup {"read"}
      /\ k # 0 => doing[k] # "send"
  BY <1>1, NextPlace DEF ChainRight
<1>3. ASSUME NEW at, Becomes(k, at), doing[k] \in Childless, doing[k] # "none", at \in Childless,
             at # "none", k = 0 => at \notin Entering
      PROVE  ChainRight' /\ NoneLeft'
  <2>1. doing[k] \notin Over \cup {"none"} /\ at # "read" /\ at # "send" /\ at \notin Parents /\ at # "exited"
    BY <1>3 DEF Childless, Entering, Over, Parents
  <2> QED
    BY <1>1, <1>2, <1>3, <2>1, ChainMoves
<1>4. ASSUME NEW at, Becomes(k, at), doing[k] \in Parents, at \in Parents,
             k = 0 => at # "read", k # 0 => at # "send"
      PROVE  ChainRight' /\ NoneLeft'
  <2>1. doing[k] \notin Over \cup {"none"} /\ at # "none" /\ at \notin Entering /\ at \notin Childless /\ at # "exited"
    BY <1>4 DEF Childless, Entering, Over, Parents
  <2> QED
    BY <1>1, <1>2, <1>4, <2>1, ChainMoves
<1>5. ASSUME NEW at \in Over, NEW w, Ends(k, at, w), doing[k] \notin Over \cup {"none"},
             at = "exited" /\ k + 1 \in Sieves => doing[k + 1] \in Over \cup {"none"}
      PROVE  ChainRight' /\ NoneLeft'
  <2>1. at # "none" /\ at # "read" /\ at # "send" /\ at \notin Entering /\ at \notin Childless /\ at \notin Parents
    BY <1>5 DEF Childless, Entering, Over, Parents
  <2> QED
    BY <1>1, <1>5, <2>1, ChainMoves DEF Ends
<1>6. CASE Pipe(k)
  BY <1>3, <1>6 DEF Pipe, Childless, Entering
<1>7. CASE Fork(k)
  <2>1. k + 1 \in Sieves /\ doing[k + 1] = "none" /\ k + 1 # 0 /\ k + 1 # k /\ doing[k] = "fork"
    BY <1>1, <1>2, <1>7 DEF Fork, Childless
  <2>2. \A j \in Sieves : doing'[j] = IF j = k + 1 THEN "child" ELSE IF j = k THEN "parent" ELSE doing[j]
    BY <1>1, <1>7, <2>1 DEF Fork
  <2>3. doing'[0] \notin Entering \cup {"read"} /\ \A j \in Sieves : j # 0 => doing'[j] # "send"
    BY <1>1, <2>1, <2>2 DEF ChainRight, Entering
  <2>4. ASSUME NEW j \in Sieves, j + 1 \in Sieves
        PROVE  /\ doing'[j] \in Childless => doing'[j + 1] = "none"
               /\ doing'[j] \in Parents => doing'[j + 1] # "none"
               /\ doing'[j] = "exited" => doing'[j + 1] \in Over \cup {"none"}
    <3>1. /\ doing[j] \in Childless => doing[j + 1] = "none"
          /\ doing[j] \in Parents => doing[j + 1] # "none"
          /\ doing[j] = "exited" => doing[j + 1] \in Over \cup {"none"}
      BY <1>1, <2>4 DEF ChainRight, NoneLeft
    <3>2. j \in Nat /\ j + 1 # j
      BY <1>1
    <3>3. CASE j = k
      BY <2>2, <2>4, <3>2, <3>3 DEF Childless, Entering, Parents
    <3>4. CASE j = k + 1
      <4>1. j + 1 # k
        BY <1>1, <3>4
      <4>2. doing[j + 1] = "none"
        BY <2>1, <3>1, <3>4 DEF Childless, Entering
      <4> QED
        BY <2>2, <2>4, <3>2, <3>4, <4>1, <4>2 DEF Childless, Entering, Parents
    <3>5. CASE j + 1 = k
      <4>1. doing[j] \notin Childless /\ doing[j] # "exited" /\ j # k /\ j # k + 1
        BY <1>1, <2>1, <3>1, <3>2, <3>5 DEF Over
      <4> QED
        BY <2>2, <2>4, <3>5, <4>1
    <3>6. CASE j # k /\ j # k + 1 /\ j + 1 # k
      BY <1>1, <2>2, <2>4, <3>1, <3>2, <3>6
    <3> QED
      BY <3>3, <3>4, <3>5, <3>6
  <2> QED
    BY <2>3, <2>4 DEF ChainRight, NoneLeft
<1>8. CASE CallFails(k)
  BY <1>5, <1>8 DEF CallFails, ExitFails, Over
<1>9. CASE Parent(k)
  BY <1>4, <1>9 DEF Parent, Parents
<1>10. CASE Child(k)
  BY <1>2, <1>3, <1>10 DEF Child, Childless, Entering
<1>11. CASE Receive(k)
  BY <1>2, <1>3, <1>11 DEF Receive, Childless, Entering
<1>12. CASE First(k)
  BY <1>3, <1>12 DEF First, Childless, Entering
<1>13. CASE NoFirst(k)
  BY <1>2, <1>5, <1>13 DEF NoFirst, Exit, Childless, Entering, Over
<1>14. CASE Read(k)
  <2>1. CASE UNCHANGED doing
    BY <1>1, <2>1 DEF ChainRight, NoneLeft
  <2>2. CASE Becomes(k, "write")
    BY <1>4, <1>14, <2>2 DEF Read, Parents
  <2> QED
    BY <1>14, <2>1, <2>2 DEF Read
<1>15. CASE Write(k)
  BY <1>4, <1>15 DEF Write, Parents
<1>16. CASE WriteKilled(k)
  BY <1>5, <1>16 DEF WriteKilled, Killed, Over
<1>17. CASE CloseEnds(k)
  BY <1>4, <1>17 DEF CloseEnds, Parents
<1>18. CASE Wait(k)
  BY <1>5, <1>18 DEF Wait, Exit, Over
<1>19. CASE k = 0 /\ SendNumber
  BY <1>4, <1>19 DEF SendNumber, Parents
<1> QED
  BY <1>6, <1>7, <1>8, <1>9, <1>10, <1>11, <1>12, <1>13, <1>14, <1>15, <1>16, <1>17, <1>18, <1>19 DEF SieveStep

\* A process that stays where it is and whose ends do.
LEMMA EndsKept ==
    ASSUME NEW j, PipeEnds(j), doing'[j] = doing[j],
           \A i \in Links : (j \in wr'[i] <=> j \in wr[i]) /\ (j \in rd'[i] <=> j \in rd[i]),
           j \in Sieves, SieveTypes
    PROVE  PipeEnds(j)'
<1>1. j + 1 \in Links /\ (j # 0 => j \in Links)
  BY Bounds
<1> QED
  BY <1>1 DEF PipeEnds

\* An end is open only where the code has a use for it, after every step too: what
\* a child inherits it closes before it goes on.
LEMMA PipeEndsKept ==
    ASSUME SieveInv, NEW k \in Sieves, SieveStep(k), NEW j \in Sieves
    PROVE  PipeEnds(j)'
<1>0. /\ SieveTypes /\ ChainRight /\ PipeEnds(j) /\ PipeEnds(k)
      /\ doing \in [Sieves -> Childless \cup Parents \cup Over]
      /\ rd \in [Links -> SUBSET Sieves] /\ wr \in [Links -> SUBSET Sieves]
  BY DEF SieveInv, SieveTypes
<1>1. /\ SieveTypes /\ ChainRight /\ j \in Nat /\ k \in Nat /\ PipeEnds(j) /\ PipeEnds(k)
      /\ doing \in [Sieves -> Childless \cup Parents \cup Over]
      /\ rd \in [Links -> SUBSET Sieves] /\ wr \in [Links -> SUBSET Sieves]
      /\ Top \in Nat /\ Sieves = 0 .. Top /\ Links = 1 .. Top + 1 /\ \A i \in Links : i \in Nat /\ i # 0
  BY <1>0, Bounds
<1>2. /\ k + 1 \in Links /\ (k # 0 => k \in Links) /\ k + 1 # k /\ k - 1 # k
      /\ k + 1 \in Sieves /\ doing[k] \in Childless => doing[k + 1] = "none"
      /\ doing[k] \in {"pipe", "fork"} => k + 1 \in Sieves
      /\ k = 0 => doing[k] \notin Entering \cup {"read"}
      /\ k # 0 => doing[k] # "send"
  BY <1>1, NextPlace DEF ChainRight
<1>3. \A at : Becomes(k, at) => \A l \in Sieves : doing'[l] = IF l = k THEN at ELSE doing[l]
  BY <1>1 DEF Becomes
<1>4. ASSUME NEW at \in Over, NEW w, Ends(k, at, w) PROVE PipeEnds(j)'
  <2>1. /\ \A i \in Links : rd'[i] = rd[i] \ {k} /\ wr'[i] = wr[i] \ {k}
        /\ \A l \in Sieves : doing'[l] = IF l = k THEN at ELSE doing[l]
    BY <1>3, <1>4 DEF Ends
  <2>2. CASE j = k
    BY <1>4, <2>1, <2>2 DEF PipeEnds, Over, Sending, Reading
  <2>3. CASE j # k
    BY <1>1, <2>1, <2>3, EndsKept
  <2> QED
    BY <2>2, <2>3
<1>5. ASSUME UNCHANGED ends, NEW at, Becomes(k, at) \/ UNCHANGED doing,
             Becomes(k, at) => /\ at \in Sending <=> doing[k] \in Sending
                               /\ at \in Reading <=> doing[k] \in Reading
                               /\ at \notin {"fork", "parent", "child", "receive"}
                               /\ doing[k] \notin {"fork", "parent", "child", "receive"}
      PROVE  PipeEnds(j)'
  <2>1. \A i \in Links : rd'[i] = rd[i] /\ wr'[i] = wr[i]
    BY <1>5 DEF ends
  <2>2. CASE j = k /\ Becomes(k, at)
    <3>1. doing'[k] = at
      BY <1>3, <2>2
    <3> QED
      BY <1>1, <1>2, <1>5, <2>1, <2>2, <3>1 DEF PipeEnds, MayWrite, MayRead
  <2>3. CASE j # k \/ UNCHANGED doing
    <3>1. doing'[j] = doing[j]
      BY <1>3, <1>5, <2>3
    <3> QED
      BY <1>1, <2>1, <3>1, EndsKept
  <2> QED
    BY <1>5, <2>2, <2>3
<1>6. CASE Pipe(k)
  <2>1. /\ \A i \in Links : /\ rd'[i] = IF i = k + 1 THEN rd[i] \cup {k} ELSE rd[i]
                            /\ wr'[i] = IF i = k + 1 THEN wr[i] \cup {k} ELSE wr[i]
        /\ \A l \in Sieves : doing'[l] = IF l = k THEN "fork" ELSE doing[l]
    BY <1>1, <1>3, <1>6 DEF Pipe, Opened
  <2>2. CASE j = k
    BY <1>1, <1>2, <1>6, <2>1, <2>2, ZenonT(40) DEF Pipe, PipeEnds, MayWrite, MayRead, Sending, Reading
  <2>3. CASE j # k
    <3>1. \A i \in Links : (j \in wr'[i] <=> j \in wr[i]) /\ (j \in rd'[i] <=> j \in rd[i])
      BY <2>1, <2>3
    <3> QED
      BY <1>1, <2>1, <2>3, <3>1, EndsKept
  <2> QED
    BY <2>2, <2>3
<1>7. CASE Fork(k)
  <2>1. k + 1 \in Sieves /\ doing[k] = "fork" /\ doing[k + 1] = "none"
    BY <1>2, <1>7 DEF Fork, Childless
  <2>2. /\ \A i \in Links : /\ rd'[i] = IF k \in rd[i] THEN rd[i] \cup {k + 1} ELSE rd[i]
                            /\ wr'[i] = IF k \in wr[i] THEN wr[i] \cup {k + 1} ELSE wr[i]
        /\ \A l \in Sieves : doing'[l] = IF l = k + 1 THEN "child" ELSE IF l = k THEN "parent" ELSE doing[l]
    BY <1>1, <1>2, <1>7, <2>1 DEF Fork
  <2>3. CASE j = k
    BY <1>1, <1>2, <2>1, <2>2, <2>3 DEF PipeEnds, MayWrite, MayRead, Sending, Reading
  <2>4. CASE j = k + 1
    <3>1. \A i \in Links : k + 1 \notin rd[i] /\ k + 1 \notin wr[i]
      BY <1>1, <2>1, <2>4 DEF PipeEnds, MayWrite, MayRead, Sending, Reading
    <3>2. \A i \in Links : (k + 1 \in rd'[i] <=> k \in rd[i]) /\ (k + 1 \in wr'[i] <=> k \in wr[i])
      BY <2>2, <3>1
    <3>3. \A i \in Links : (k \in wr[i] => i = k + 1) /\ (k \in rd[i] => i = k \/ i = k + 1)
      BY <1>1, <2>1 DEF PipeEnds, MayWrite, MayRead, Sending, Reading
    <3>4. k \in rd[k + 1] /\ doing'[j] = "child"
      BY <1>1, <2>1, <2>2, <2>4 DEF PipeEnds
    <3> QED
      BY <1>1, <1>2, <2>4, <3>2, <3>3, <3>4 DEF PipeEnds, MayWrite, MayRead, Sending, Reading
  <2>5. CASE j # k /\ j # k + 1
    <3>1. \A i \in Links : (j \in wr'[i] <=> j \in wr[i]) /\ (j \in rd'[i] <=> j \in rd[i])
      BY <2>2, <2>5
    <3> QED
      BY <1>1, <2>2, <2>5, <3>1, EndsKept
  <2> QED
    BY <2>3, <2>4, <2>5
<1>8. CASE CallFails(k)
  BY <1>4, <1>8 DEF CallFails, ExitFails, Over
<1>9. CASE Parent(k)
  <2>1. /\ \A i \in Links : rd'[i] = (IF i = k + 1 THEN rd[i] \ {k} ELSE rd[i]) /\ wr'[i] = wr[i]
        /\ \A l \in Sieves : doing'[l] = IF l = k THEN (IF k = 0 THEN "send" ELSE "read") ELSE doing[l]
    BY <1>1, <1>3, <1>9 DEF Parent, Closed
  <2>2. CASE j = k
    <3>1. doing[k] = "parent" /\ doing'[k] = IF k = 0 THEN "send" ELSE "read"
      BY <1>9, <2>1 DEF Parent
    <3>2. \A i \in Links : k \in rd'[i] => i = k /\ k # 0
      BY <1>1, <2>1, <3>1 DEF PipeEnds, MayRead, Reading
    <3>3. \A i \in Links : k \in wr'[i] <=> i = k + 1
      BY <1>1, <1>2, <2>1, <3>1 DEF PipeEnds, MayWrite, Sending
    <3>4. k # 0 => k \in rd'[k]
      BY <1>1, <1>2, <2>1, <3>1 DEF PipeEnds, Reading
    <3> QED
      BY <1>2, <2>2, <3>1, <3>2, <3>3, <3>4 DEF PipeEnds, MayWrite, MayRead, Sending, Reading
  <2>3. CASE j # k
    BY <1>1, <2>1, <2>3, EndsKept
  <2> QED
    BY <2>2, <2>3
<1>10. CASE Child(k)
  <2>1. k # 0
    BY <1>2, <1>10 DEF Child, Entering
  <2>2. /\ \A i \in Links : rd'[i] = (IF i = k - 1 THEN rd[i] \ {k} ELSE rd[i]) /\ wr'[i] = wr[i]
        /\ \A l \in Sieves : doing'[l] = IF l = k THEN "receive" ELSE doing[l]
    <3>1. CASE k > 1
      BY <1>1, <1>3, <1>10, <3>1 DEF Child, Closed
    <3>2. CASE ~(k > 1)
      <4>1. \A i \in Links : i # k - 1
        BY <1>1, <2>1, <3>2
      <4> QED
        BY <1>3, <1>10, <3>2, <4>1 DEF Child
    <3> QED
      BY <3>1, <3>2
  <2>3. CASE j = k
    BY <1>1, <1>2, <1>10, <2>1, <2>2, <2>3, ZenonT(40) DEF Child, PipeEnds, MayWrite, MayRead, Sending, Reading
  <2>4. CASE j # k
    BY <1>1, <2>2, <2>4, EndsKept
  <2> QED
    BY <2>3, <2>4
<1>11. CASE Receive(k)
  <2>1. k # 0
    BY <1>2, <1>11 DEF Receive, Entering
  <2>2. /\ \A i \in Links : wr'[i] = (IF i = k THEN wr[i] \ {k} ELSE wr[i]) /\ rd'[i] = rd[i]
        /\ \A l \in Sieves : doing'[l] = IF l = k THEN "first" ELSE doing[l]
    BY <1>1, <1>3, <1>11, <2>1 DEF Receive, Closed
  <2>3. CASE j = k
    BY <1>1, <1>2, <1>11, <2>1, <2>2, <2>3 DEF Receive, PipeEnds, MayWrite, MayRead, Sending, Reading
  <2>4. CASE j # k
    BY <1>1, <2>2, <2>4, EndsKept
  <2> QED
    BY <2>3, <2>4
<1>12. CASE First(k)
  BY <1>5, <1>12 DEF First, Sending, Reading
<1>13. CASE NoFirst(k)
  BY <1>4, <1>13 DEF NoFirst, Exit, Over
<1>14. CASE Read(k)
  BY <1>5, <1>14 DEF Read, Sending, Reading
<1>15. CASE Write(k)
  <2>1. CASE k = 0
    <3>1. \A i \in Links : rd'[i] = rd[i] /\ wr'[i] = wr[i] /\ i # 0
      BY <1>1, <1>15 DEF Write, ends
    <3>2. \A l \in Sieves : doing'[l] = IF l = k THEN "send" ELSE doing[l]
      BY <1>3, <1>15, <2>1 DEF Write
    <3>3. CASE j = k
      BY <1>1, <1>2, <1>15, <2>1, <3>1, <3>2, <3>3 DEF Write, PipeEnds, MayWrite, MayRead, Sending, Reading
    <3>4. CASE j # k
      BY <1>1, <3>1, <3>2, <3>4, EndsKept
    <3> QED
      BY <3>3, <3>4
  <2>2. CASE k # 0
    BY <1>5, <1>15, <2>2 DEF Write, Sending, Reading
  <2> QED
    BY <2>1, <2>2
<1>16. CASE WriteKilled(k)
  BY <1>4, <1>16 DEF WriteKilled, Killed, Over
<1>17. CASE CloseEnds(k)
  <2>1. /\ \A i \in Links : /\ wr'[i] = IF i = k + 1 THEN wr[i] \ {k} ELSE wr[i]
                            /\ rd'[i] = IF i = k THEN rd[i] \ {k} ELSE rd[i]
        /\ \A l \in Sieves : doing'[l] = IF l = k THEN "wait" ELSE doing[l]
    <3>1. \A i \in Links : wr'[i] = IF i = k + 1 THEN wr[i] \ {k} ELSE wr[i]
      BY <1>1, <1>17 DEF CloseEnds, Closed
    <3>2. \A i \in Links : rd'[i] = IF i = k THEN rd[i] \ {k} ELSE rd[i]
      <4>1. CASE k > 0
        BY <1>1, <1>17, <4>1 DEF CloseEnds, Closed
      <4>2. CASE ~(k > 0)
        <5>1. k = 0
          BY <1>1, <4>2
        <5> QED
          BY <1>1, <1>17, <5>1 DEF CloseEnds
      <4> QED
        BY <4>1, <4>2
    <3> QED
      BY <1>3, <1>17, <3>1, <3>2 DEF CloseEnds
  <2>2. CASE j = k
    <3>1. doing[k] \in {"send", "read"} /\ doing'[k] = "wait"
      BY <1>17, <2>1 DEF CloseEnds
    <3>2. \A i \in Links : (k \in rd[i] => i = k) /\ (k \in wr[i] => i = k + 1)
      BY <1>1, <3>1 DEF PipeEnds, MayRead, MayWrite, Sending, Reading
    <3>3. \A i \in Links : k \notin rd'[i] /\ k \notin wr'[i]
      BY <2>1, <3>2
    <3> QED
      BY <2>2, <3>1, <3>3 DEF PipeEnds, Sending, Reading
  <2>3. CASE j # k
    BY <1>1, <2>1, <2>3, EndsKept
  <2> QED
    BY <2>2, <2>3
<1>18. CASE Wait(k)
  BY <1>4, <1>18 DEF Wait, Exit, Over
<1>19. CASE k = 0 /\ SendNumber
  <2>1. \A i \in Links : rd'[i] = rd[i] /\ wr'[i] = wr[i] /\ i # 0
    BY <1>1, <1>19 DEF SendNumber, ends
  <2>2. \A l \in Sieves : doing'[l] = IF l = k THEN "write" ELSE doing[l]
    BY <1>3, <1>19 DEF SendNumber
  <2>3. CASE j = k
    BY <1>1, <1>2, <1>19, <2>1, <2>2, <2>3 DEF SendNumber, PipeEnds, MayWrite, MayRead, Sending, Reading
  <2>4. CASE j # k
    BY <1>1, <2>1, <2>2, <2>4, EndsKept
  <2> QED
    BY <2>3, <2>4
<1> QED
  BY <1>6, <1>7, <1>8, <1>9, <1>10, <1>11, <1>12, <1>13, <1>14, <1>15, <1>16, <1>17, <1>18, <1>19 DEF SieveStep

-----------------------------------------------------------------------------
(* The numbers.                                                            *)

LEMMA Parts ==
    ASSUME SieveInv
    PROVE  SieveTypes /\ ChainRight /\ NoneLeft /\ PrintedRight /\ \A k \in Sieves : PipeEnds(k)
BY DEF SieveInv

LEMMA FlowParts ==
    ASSUME NEW t, FlowRight(t)
    PROVE  /\ t \in [Sieves -> Nat] /\ t[0] = prime[0] /\ OrderRight(t)
           /\ \A k \in Sieves : PrimeRight(t, k) /\ WritesRight(t, k)
           /\ \A k \in 1 .. Top : Lists(link[k], InFlow(t, k))
BY DEF FlowRight

LEMMA SameSifted ==
    ASSUME NEW k, \A j \in 1 .. k : prime'[j] = prime[j], NEW x
    PROVE  Sifted(k, x)' <=> Sifted(k, x)
BY DEF Sifted

\* A step that neither takes nor gives a number.
LEMMA ControlFlow ==
    ASSUME SieveTypes, NEW t, FlowRight(t), UNCHANGED <<n, prime, num, link>>,
           \A k \in Sieves :
              /\ doing'[k] \in {"write", "killed"} <=> doing[k] \in {"write", "killed"}
              /\ k # 0 /\ doing'[k] \in Entering => prime[k] = 1
              /\ k # 0 /\ doing'[k] \in {"pipe", "fork"} \cup Parents => prime[k] # 1
              /\ k > 1 /\ doing'[k] # "none" => prime[k - 1] # 1
    PROVE  FlowRight(t)'
<1>1. /\ t \in [Sieves -> Nat] /\ t[0] = prime[0] /\ OrderRight(t)
      /\ \A k \in Sieves : PrimeRight(t, k) /\ WritesRight(t, k)
      /\ \A k \in 1 .. Top : Lists(link[k], InFlow(t, k))
  BY FlowParts
<1>2. Sieves = 0 .. Top /\ Top \in Nat
  BY Bounds
<1>3. \A k, x : Sifted(k, x)' <=> Sifted(k, x)
  BY DEF Sifted
<1>4. \A k \in Sieves : Writing(k)' <=> Writing(k)
  BY DEF Writing
<1>5. OrderRight(t)'
  BY <1>1 DEF OrderRight
<1>6. ASSUME NEW k \in Sieves PROVE PrimeRight(t, k)'
  BY <1>1, <1>3 DEF PrimeRight, HasPrime
<1>7. ASSUME NEW k \in Sieves PROVE WritesRight(t, k)'
  BY <1>1, <1>3, <1>4 DEF WritesRight
<1>8. ASSUME NEW k \in 1 .. Top PROVE Lists(link[k], InFlow(t, k))'
  <2>1. k - 1 \in Sieves
    BY <1>2
  <2>2. InFlow(t, k)' = InFlow(t, k)
    BY <1>3, <1>4, <2>1 DEF InFlow
  <2> QED
    BY <1>1, <2>2 DEF Lists
<1> QED
  BY <1>1, <1>5, <1>6, <1>7, <1>8 DEF FlowRight

\* The number that a process takes is the least that is still to come: what is
\* below has a divisor among the primes before.
LEMMA Taking ==
    ASSUME SieveTypes, NEW t, FlowRight(t), NEW k \in Sieves, k # 0, link[k] # <<>>,
           NEW x, x = Head(link[k])
    PROVE  /\ x \in Nat /\ k \in 1 .. Top /\ k - 1 \in Sieves /\ t[k] \in Nat /\ t[k - 1] \in Nat
           /\ t[k] < x /\ x <= t[k - 1] /\ 1 <= t[k] /\ t[k - 1] <= n
           /\ Sifted(k - 1, x) /\ (Writing(k - 1) => x # t[k - 1])
           /\ \A y \in Nat : t[k] < y /\ y < x => ~Sifted(k - 1, y)
           /\ Lists(Tail(link[k]), InFlow(t, k) \ {x})
           /\ InFlow(t, k) \ {x} = {y \in x + 1 .. t[k - 1] : Sifted(k - 1, y) /\ (Writing(k - 1) => y # t[k - 1])}
<1>1. /\ k \in 1 .. Top /\ k \in Nat /\ k - 1 \in Sieves /\ n \in Nat
  BY Bounds
<1>2. t \in [Sieves -> Nat] /\ PrimeRight(t, k) /\ PrimeRight(t, k - 1) /\ Lists(link[k], InFlow(t, k))
  BY <1>1, FlowParts
<1>3. /\ t[k] \in Nat /\ t[k - 1] \in Nat /\ t[k - 1] <= n /\ prime[k] \in Nat
      /\ prime[k] >= 1 /\ prime[k] <= t[k]
  BY <1>1, <1>2 DEF PrimeRight, SieveTypes
<1>4. /\ x \in InFlow(t, k) /\ x \in Nat /\ \A y \in InFlow(t, k) : y \in Nat /\ x <= y
      /\ Lists(Tail(link[k]), InFlow(t, k) \ {x})
  BY <1>2, ListsHead
<1>5. /\ t[k] < x /\ x <= t[k - 1] /\ Sifted(k - 1, x) /\ (Writing(k - 1) => x # t[k - 1])
  BY <1>3, <1>4 DEF InFlow
<1>6. ASSUME NEW y \in Nat, t[k] < y, y < x PROVE ~Sifted(k - 1, y)
  <2>1. y \in t[k] + 1 .. t[k - 1] /\ y # t[k - 1] /\ ~(x <= y)
    BY <1>3, <1>4, <1>5, <1>6
  <2> QED
    BY <1>4, <2>1 DEF InFlow
<1>7. ASSUME NEW y \in InFlow(t, k) \ {x} PROVE y \in x + 1 .. t[k - 1]
  <2>1. y \in Nat /\ x <= y /\ x # y
    BY <1>4, <1>7
  <2>2. y <= t[k - 1]
    BY <1>3, <1>7 DEF InFlow
  <2> QED
    BY <1>3, <1>4, <2>1, <2>2
<1>8. ASSUME NEW y \in x + 1 .. t[k - 1] PROVE y \in t[k] + 1 .. t[k - 1] /\ y # x
  BY <1>3, <1>4, <1>5, <1>8
<1>9. InFlow(t, k) \ {x} = {y \in x + 1 .. t[k - 1] : Sifted(k - 1, y) /\ (Writing(k - 1) => y # t[k - 1])}
  BY <1>7, <1>8 DEF InFlow
<1>10. 1 <= t[k]
  BY <1>3
<1> QED
  BY <1>1, <1>3, <1>4, <1>5, <1>6, <1>9, <1>10

\* Process 0 takes the next number, and the last one that it has taken is x.
LEMMA SendNumberFlow ==
    ASSUME SieveTypes, NEW t, FlowRight(t), SendNumber, NEW x, x = prime[0] + 1
    PROVE  FlowRight([t EXCEPT ![0] = x])'
<1> DEFINE u == [t EXCEPT ![0] = x]
<1>1. /\ t \in [Sieves -> Nat] /\ t[0] = prime[0] /\ OrderRight(t)
      /\ \A k \in Sieves : PrimeRight(t, k) /\ WritesRight(t, k)
      /\ \A k \in 1 .. Top : Lists(link[k], InFlow(t, k))
  BY FlowParts
<1>2. Sieves = 0 .. Top /\ Top \in Nat /\ n \in Nat /\ 0 \in Sieves
  BY Bounds
<1>3. prime[0] \in Nat /\ prime[0] >= 1 /\ x \in Nat /\ x > 1 /\ x <= n /\ doing[0] = "send" /\ n' = n /\ link' = link
  BY <1>1, <1>2 DEF SendNumber, PrimeRight, SieveTypes
<1>4. /\ \A k \in Sieves : /\ doing'[k] = IF k = 0 THEN "write" ELSE doing[k]
                           /\ prime'[k] = IF k = 0 THEN x ELSE prime[k]
                           /\ num'[k] = IF k = 0 THEN x ELSE num[k]
                           /\ u[k] = IF k = 0 THEN x ELSE t[k]
      /\ u \in [Sieves -> Nat]
  BY <1>1, <1>2, <1>3 DEF SendNumber, Becomes, SieveTypes
<1> HIDE DEF u
<1>5. \A k \in Sieves : \A y : Sifted(k, y)' <=> Sifted(k, y)
  <2>1. \A k \in Sieves : \A j \in 1 .. k : j \in Sieves /\ j # 0
    BY <1>2
  <2> QED
    BY <1>4, <2>1 DEF Sifted
<1>6. \A k \in Sieves : t[k] \in Nat /\ t[k] <= t[0]
  BY <1>1, <1>2 DEF OrderRight
<1>7. OrderRight(u)'
  <2>1. \A i, j \in Sieves : i < j => u[j] <= u[i]
    <3> SUFFICES ASSUME NEW i \in Sieves, NEW j \in Sieves, i < j PROVE u[j] <= u[i]
      OBVIOUS
    <3>1. j # 0 /\ t[j] <= t[i] /\ t[j] \in Nat /\ t[j] <= t[0]
      BY <1>1, <1>2, <1>6 DEF OrderRight
    <3> QED
      BY <1>1, <1>3, <1>4, <3>1
  <2>2. \A i, j \in Sieves : 0 < i /\ i < j /\ prime'[j] # 1 => prime'[i] # 1 /\ prime'[i] < prime'[j]
    <3> SUFFICES ASSUME NEW i \in Sieves, NEW j \in Sieves, 0 < i, i < j PROVE prime'[j] # 1 => prime'[i] # 1 /\ prime'[i] < prime'[j]
      OBVIOUS
    <3>1. i # 0 /\ j # 0
      BY <1>2
    <3> QED
      BY <1>1, <1>4, <3>1 DEF OrderRight
  <2>3. \A j \in Sieves : j > 1 /\ doing'[j] # "none" => prime'[j - 1] # 1
    <3> SUFFICES ASSUME NEW j \in Sieves, j > 1, doing'[j] # "none" PROVE prime'[j - 1] # 1
      OBVIOUS
    <3>1. j # 0 /\ j - 1 # 0 /\ j - 1 \in Sieves
      BY <1>2
    <3> QED
      BY <1>1, <1>4, <3>1 DEF OrderRight
  <2> QED
    BY <2>1, <2>2, <2>3 DEF OrderRight
<1>8. ASSUME NEW k \in Sieves PROVE PrimeRight(u, k)'
  <2>1. PrimeRight(t, k)
    BY <1>1
  <2>2. CASE k = 0
    BY <1>3, <1>4, <2>2 DEF PrimeRight, HasPrime
  <2>3. CASE k # 0
    BY <1>3, <1>4, <1>5, <2>1, <2>3 DEF PrimeRight, HasPrime
  <2> QED
    BY <2>2, <2>3
<1>9. ASSUME NEW k \in Sieves PROVE WritesRight(u, k)'
  <2>1. WritesRight(t, k)
    BY <1>1
  <2>2. CASE k = 0
    <3>1. Sifted(0, x)'
      BY DEF Sifted
    <3>2. 1 \in Sieves => u[1] < x
      <4> HAVE 1 \in Sieves
      <4>1. u[1] = t[1] /\ t[1] \in Nat /\ t[1] <= t[0]
        BY <1>4, <1>6
      <4> QED
        BY <1>1, <1>3, <4>1
    <3> QED
      BY <1>2, <1>3, <1>4, <2>2, <3>1, <3>2 DEF WritesRight
  <2>3. CASE k # 0
    <3>1. k + 1 # 0
      BY <1>2
    <3> QED
      BY <1>4, <1>5, <2>1, <2>3, <3>1 DEF WritesRight, Writing
  <2> QED
    BY <2>2, <2>3
<1>10. ASSUME NEW k \in 1 .. Top PROVE Lists(link[k], InFlow(u, k))'
  <2>1. Lists(link[k], InFlow(t, k)) /\ k \in Sieves /\ k # 0 /\ k - 1 \in Sieves
    BY <1>1, <1>2
  <2>2. \A y : Sifted(k - 1, y)' <=> Sifted(k - 1, y)
    BY <1>5, <2>1
  <2>3. CASE k = 1
    <3>1. u[1] = t[1] /\ u[0] = x /\ Writing(0)' /\ ~Writing(0)
      BY <1>2, <1>3, <1>4, <2>1, <2>3 DEF Writing
    <3>2. InFlow(u, 1)' = {y \in t[1] + 1 .. x : Sifted(0, y) /\ y # x}
      BY <2>2, <2>3, <3>1 DEF InFlow
    <3>3. InFlow(t, 1) = {y \in t[1] + 1 .. t[0] : Sifted(0, y)}
      BY <3>1 DEF InFlow
    <3>4. \A y : y \in t[1] + 1 .. t[0] <=> y \in t[1] + 1 .. x /\ y # x
      BY <1>1, <1>2, <1>3, <1>6, <2>1, <2>3, SMTT(30)
    <3>5. InFlow(u, 1)' = InFlow(t, 1)
      BY <3>2, <3>3, <3>4
    <3> QED
      BY <1>3, <2>1, <2>3, <3>5 DEF Lists
  <2>4. CASE k # 1
    <3>1. k - 1 # 0
      BY <1>2, <2>1, <2>4
    <3>2. u[k] = t[k] /\ u[k - 1] = t[k - 1] /\ (Writing(k - 1)' <=> Writing(k - 1))
      BY <1>4, <2>1, <3>1 DEF Writing
    <3>3. InFlow(u, k)' = InFlow(t, k)
      BY <2>2, <3>2 DEF InFlow
    <3> QED
      BY <1>3, <2>1, <3>3 DEF Lists
  <2> QED
    BY <2>3, <2>4
<1>11. u[0] = prime'[0]
  BY <1>2, <1>4
<1> QED
  BY <1>4, <1>7, <1>8, <1>9, <1>10, <1>11 DEF FlowRight, u

\* A number that is written is in the pipe, and no longer on the way.
LEMMA WriteFlow ==
    ASSUME SieveTypes, NEW t, FlowRight(t), NEW k \in Sieves, Write(k), k + 1 \in Sieves
    PROVE  FlowRight(t)'
<1>1. /\ t \in [Sieves -> Nat] /\ t[0] = prime[0] /\ OrderRight(t)
      /\ \A j \in Sieves : PrimeRight(t, j) /\ WritesRight(t, j)
      /\ \A j \in 1 .. Top : Lists(link[j], InFlow(t, j))
  BY FlowParts
<1>2. Sieves = 0 .. Top /\ Top \in Nat /\ n \in Nat /\ Links = 1 .. Top + 1
  BY Bounds
<1>3. k \in Nat /\ k + 1 \in 1 .. Top /\ k + 1 \in Links /\ k + 1 # k
  BY <1>2
<1>4. /\ n' = n /\ prime' = prime /\ doing[k] = "write"
      /\ \A j \in Links : link'[j] = IF j = k + 1 THEN Append(link[j], num[k]) ELSE link[j]
      /\ \A j \in Sieves : /\ doing'[j] = IF j = k THEN (IF k = 0 THEN "send" ELSE "read") ELSE doing[j]
                           /\ num'[j] = IF j = k THEN 0 ELSE num[j]
  BY <1>3 DEF Write, Becomes, SieveTypes
<1>5. \A j, y : Sifted(j, y)' <=> Sifted(j, y)
  BY <1>4 DEF Sifted
<1>6. OrderRight(t)'
  BY <1>1, <1>4 DEF OrderRight
<1>7. ASSUME NEW j \in Sieves PROVE PrimeRight(t, j)'
  <2>1. PrimeRight(t, j)
    BY <1>1
  <2>2. CASE j = k
    <3>1. doing'[j] \notin Entering
      BY <1>4, <2>2 DEF Entering
    <3>2. j # 0 => prime[j] # 1
      BY <1>4, <2>1, <2>2 DEF PrimeRight, Parents
    <3> QED
      BY <1>4, <1>5, <2>1, <3>1, <3>2 DEF PrimeRight, HasPrime
  <2>3. CASE j # k
    BY <1>4, <1>5, <2>1, <2>3 DEF PrimeRight, HasPrime
  <2> QED
    BY <2>2, <2>3
<1>8. ASSUME NEW j \in Sieves PROVE WritesRight(t, j)'
  <2>1. WritesRight(t, j)
    BY <1>1
  <2> QED
    BY <1>4, <1>5, <2>1 DEF WritesRight, Writing
<1>9. ASSUME NEW j \in 1 .. Top PROVE Lists(link[j], InFlow(t, j))'
  <2>1. Lists(link[j], InFlow(t, j)) /\ j \in Sieves /\ j - 1 \in Sieves /\ j \in Links
    BY <1>1, <1>2
  <2>2. CASE j = k + 1
    <3>1. j - 1 = k /\ Writing(k) /\ ~Writing(k)' /\ WritesRight(t, k)
      BY <1>1, <1>3, <1>4, <2>2 DEF Writing
    <3>2. /\ num[k] = t[k] /\ Sifted(k, t[k]) /\ t[j] < t[k] /\ t[k] \in Nat /\ t[j] \in Nat
      BY <1>1, <1>3, <2>1, <2>2, <3>1 DEF WritesRight
    <3>3. InFlow(t, j) = {y \in t[j] + 1 .. t[k] : Sifted(k, y) /\ y # t[k]}
      BY <3>1 DEF InFlow
    <3>4. InFlow(t, j)' = {y \in t[j] + 1 .. t[k] : Sifted(k, y)}
      BY <1>5, <3>1 DEF InFlow
    <3>5. t[k] \in t[j] + 1 .. t[k]
      BY <3>2
    <3>6. InFlow(t, j)' = InFlow(t, j) \cup {t[k]}
      BY <3>2, <3>3, <3>4, <3>5
    <3>7. \A y \in InFlow(t, j) : y < t[k]
      BY <3>2, <3>3
    <3>8. Lists(Append(link[j], t[k]), InFlow(t, j) \cup {t[k]})
      BY <2>1, <3>2, <3>7, ListsAppend
    <3>9. link'[j] = Append(link[j], t[k])
      BY <1>4, <2>1, <2>2, <3>2
    <3> QED
      BY <3>6, <3>8, <3>9 DEF Lists
  <2>3. CASE j # k + 1
    <3>1. j - 1 # k
      BY <1>2, <1>3, <2>3
    <3>2. Writing(j - 1)' <=> Writing(j - 1)
      BY <1>4, <2>1, <3>1 DEF Writing
    <3>3. InFlow(t, j)' = InFlow(t, j)
      BY <1>5, <3>2 DEF InFlow
    <3> QED
      BY <1>4, <2>1, <2>3, <3>3, ZenonT(40) DEF Lists
  <2> QED
    BY <2>2, <2>3
<1> QED
  BY <1>1, <1>4, <1>6, <1>7, <1>8, <1>9 DEF FlowRight

\* Process k takes the next number of its pipe; when its prime divides it, its
\* output lacks nothing.
LEMMA ReadFlow ==
    ASSUME SieveTypes, NEW t, FlowRight(t), NEW k \in Sieves, k # 0, Read(k), NEW x, x = Head(link[k])
    PROVE  FlowRight([t EXCEPT ![k] = x])'
<1> DEFINE u == [t EXCEPT ![k] = x]
<1>1. /\ t \in [Sieves -> Nat] /\ t[0] = prime[0] /\ OrderRight(t)
      /\ \A j \in Sieves : PrimeRight(t, j) /\ WritesRight(t, j)
      /\ \A j \in 1 .. Top : Lists(link[j], InFlow(t, j))
  BY FlowParts
<1>2. Sieves = 0 .. Top /\ Top \in Nat /\ n \in Nat /\ Links = 1 .. Top + 1
  BY Bounds
<1>3. link[k] # <<>> /\ doing[k] = "read"
  BY DEF Read
<1>4. /\ x \in Nat /\ k \in 1 .. Top /\ k - 1 \in Sieves /\ t[k] \in Nat /\ t[k - 1] \in Nat
      /\ t[k] < x /\ x <= t[k - 1] /\ 1 <= t[k] /\ t[k - 1] <= n
      /\ Sifted(k - 1, x) /\ (Writing(k - 1) => x # t[k - 1])
      /\ \A y \in Nat : t[k] < y /\ y < x => ~Sifted(k - 1, y)
      /\ Lists(Tail(link[k]), InFlow(t, k) \ {x})
      /\ InFlow(t, k) \ {x} = {y \in x + 1 .. t[k - 1] : Sifted(k - 1, y) /\ (Writing(k - 1) => y # t[k - 1])}
  BY <1>3, Taking
<1>5. k \in Nat /\ k \in Links /\ k - 1 # k /\ k + 1 # k
  BY <1>2, <1>4
<1>6. /\ n' = n /\ prime' = prime
      /\ \A j \in Links : link'[j] = IF j = k THEN Tail(link[j]) ELSE link[j]
  BY <1>5 DEF Read, SieveTypes
<1>7. \A j \in Sieves :
         /\ doing'[j] = IF j = k /\ x % prime[k] # 0 THEN "write" ELSE doing[j]
         /\ num'[j] = IF j = k /\ x % prime[k] # 0 THEN x ELSE num[j]
  <2>1. CASE x % prime[k] # 0
    BY <2>1 DEF Read, Becomes, SieveTypes
  <2>2. CASE x % prime[k] = 0
    BY <2>2 DEF Read
  <2> QED
    BY <2>1, <2>2
<1>8. u \in [Sieves -> Nat] /\ \A j \in Sieves : u[j] = IF j = k THEN x ELSE t[j]
  BY <1>1, <1>4
<1> HIDE DEF u
<1>9. \A j, y : Sifted(j, y)' <=> Sifted(j, y)
  BY <1>6 DEF Sifted
<1>10. \A j \in Sieves : t[j] \in Nat /\ (j < k => t[k - 1] <= t[j]) /\ (k < j => t[j] <= t[k])
  <2> TAKE j \in Sieves
  <2>1. j < k => j < k - 1 \/ j = k - 1
    BY <1>2, <1>5
  <2> QED
    BY <1>1, <1>4, <2>1 DEF OrderRight
<1>11. OrderRight(u)'
  <2>1. \A i, j \in Sieves : i < j => u[j] <= u[i]
    <3> SUFFICES ASSUME NEW i \in Sieves, NEW j \in Sieves, i < j PROVE u[j] <= u[i]
      OBVIOUS
    <3>1. t[j] <= t[i] /\ t[i] \in Nat /\ t[j] \in Nat
      BY <1>1, <1>10 DEF OrderRight
    <3>2. CASE j = k
      <4>1. i < k /\ i # k
        BY <1>2, <3>2
      <4>2. u[j] = x /\ u[i] = t[i] /\ t[k - 1] <= t[i]
        BY <1>8, <1>10, <3>2, <4>1
      <4> QED
        BY <1>4, <3>1, <4>2
    <3>3. CASE i = k
      BY <1>2, <1>4, <1>8, <1>10, <3>3, SMTT(30)
    <3>4. CASE i # k /\ j # k
      BY <1>8, <3>1, <3>4
    <3> QED
      BY <3>2, <3>3, <3>4
  <2>2. \A j \in Sieves : doing'[j] # "none" <=> doing[j] # "none"
    BY <1>3, <1>7
  <2> QED
    BY <1>1, <1>6, <2>1, <2>2 DEF OrderRight
<1>12. ASSUME NEW j \in Sieves PROVE PrimeRight(u, j)'
  <2>1. PrimeRight(t, j) /\ prime[j] \in Nat
    BY <1>1 DEF SieveTypes
  <2>2. CASE j = k
    <3>1. prime[k] # 1
      BY <1>3, <2>1, <2>2 DEF PrimeRight, Parents
    <3>2. doing'[k] \notin Entering
      BY <1>3, <1>7 DEF Entering
    <3>3. prime[k] <= t[k] /\ prime[k] \in Nat
      BY <2>1, <2>2 DEF PrimeRight
    <3>4. u[k] = x /\ prime[k] <= x /\ x <= n /\ x # 1
      <4>1. prime[k] <= x /\ x # 1
        BY <1>4, <3>3
      <4>2. x <= n
        BY <1>2, <1>4
      <4> QED
        BY <1>8, <4>1, <4>2
    <3> QED
      BY <1>6, <1>9, <2>1, <2>2, <3>1, <3>2, <3>4 DEF PrimeRight, HasPrime
  <2>3. CASE j # k
    BY <1>6, <1>7, <1>8, <1>9, <2>1, <2>3 DEF PrimeRight, HasPrime
  <2> QED
    BY <2>2, <2>3
<1>13. ASSUME NEW j \in Sieves PROVE WritesRight(u, j)'
  <2>1. WritesRight(t, j)
    BY <1>1
  <2>2. CASE j = k
    <3> SUFFICES ASSUME Writing(j)' PROVE WritesRight(u, j)'
      BY DEF WritesRight
    <3>1. x % prime[k] # 0 /\ num'[k] = x
      BY <1>3, <1>7, <2>2 DEF Writing
    <3>2. Sifted(k, x)
      <4>1. \A i \in 1 .. k : i \in 1 .. k - 1 \/ i = k
        BY <1>5
      <4> QED
        BY <1>4, <3>1, <4>1 DEF Sifted
    <3>3. k + 1 \in Sieves => u[k + 1] < x
      <4> HAVE k + 1 \in Sieves
      <4>1. t[k + 1] \in Nat /\ t[k + 1] <= t[k]
        BY <1>5, <1>10
      <4> QED
        BY <1>4, <1>5, <1>8, <4>1
    <3>4. u[k] = x /\ x > 1
      BY <1>4, <1>8
    <3> QED
      BY <1>9, <2>2, <3>1, <3>2, <3>3, <3>4 DEF WritesRight
  <2>3. CASE j = k - 1
    <3>1. j + 1 = k /\ j # k
      BY <1>5, <2>3
    <3>2. Writing(j) => x < t[j]
      BY <1>4, <2>3
    <3> QED
      BY <1>7, <1>8, <1>9, <2>1, <3>1, <3>2 DEF WritesRight, Writing
  <2>4. CASE j # k /\ j # k - 1
    <3>1. j + 1 # k
      BY <1>2, <1>5, <2>4
    <3> QED
      BY <1>7, <1>8, <1>9, <2>1, <2>4, <3>1 DEF WritesRight, Writing
  <2> QED
    BY <2>2, <2>3, <2>4
<1>14. ASSUME NEW j \in 1 .. Top PROVE Lists(link[j], InFlow(u, j))'
  <2>1. Lists(link[j], InFlow(t, j)) /\ j \in Sieves /\ j - 1 \in Sieves /\ j \in Links
    BY <1>1, <1>2
  <2>2. CASE j = k
    <3>1. u[k] = x /\ u[k - 1] = t[k - 1] /\ (Writing(k - 1)' <=> Writing(k - 1))
      BY <1>4, <1>5, <1>7, <1>8 DEF Writing
    <3>2. InFlow(u, k)' = InFlow(t, k) \ {x}
      BY <1>4, <1>9, <3>1 DEF InFlow
    <3> QED
      BY <1>4, <1>6, <2>1, <2>2, <3>2, ZenonT(40) DEF Lists
  <2>3. CASE j = k + 1
    <3>1. j - 1 = k /\ j # k /\ u[j] = t[j] /\ u[k] = x /\ t[j] \in Nat /\ t[j] <= t[k]
      BY <1>5, <1>8, <1>10, <2>1, <2>3
    <3>2. ~Writing(k) /\ (Writing(k)' <=> x % prime[k] # 0)
      BY <1>3, <1>7 DEF Writing
    <3>3. InFlow(t, j) = {y \in t[j] + 1 .. t[k] : Sifted(k, y)}
      BY <3>1, <3>2 DEF InFlow
    <3>4. InFlow(u, j)' = {y \in t[j] + 1 .. x : Sifted(k, y) /\ (x % prime[k] # 0 => y # x)}
      BY <1>9, <3>1, <3>2 DEF InFlow
    <3>5. ASSUME NEW y \in Nat, t[k] < y, y < x PROVE ~Sifted(k, y)
      <4>1. ~Sifted(k - 1, y)
        BY <1>4, <3>5
      <4>2. \A i \in 1 .. k - 1 : i \in 1 .. k
        BY <1>5
      <4> QED
        BY <4>1, <4>2 DEF Sifted
    <3>6. x % prime[k] = 0 => ~Sifted(k, x)
      <4>1. k \in 1 .. k
        BY <1>4
      <4> QED
        BY <4>1 DEF Sifted
    <3>7. ASSUME NEW y, y \in InFlow(t, j) PROVE y \in InFlow(u, j)'
      BY <1>4, <3>1, <3>3, <3>4, <3>7
    <3>8. ASSUME NEW y, y \in InFlow(u, j)' PROVE y \in InFlow(t, j)
      <4>1. y \in t[j] + 1 .. x /\ Sifted(k, y) /\ y # x
        BY <3>4, <3>6, <3>8
      <4>2. y \in Nat /\ ~(t[k] < y)
        BY <1>4, <3>1, <3>5, <4>1
      <4> QED
        BY <1>4, <3>1, <3>3, <4>1, <4>2
    <3>9. InFlow(u, j)' = InFlow(t, j)
      BY <3>7, <3>8
    <3> QED
      BY <1>6, <2>1, <3>1, <3>9 DEF Lists
  <2>4. CASE j # k /\ j # k + 1
    <3>1. j - 1 # k
      BY <1>2, <1>5, <2>4
    <3>2. u[j] = t[j] /\ u[j - 1] = t[j - 1] /\ (Writing(j - 1)' <=> Writing(j - 1))
      BY <1>7, <1>8, <2>1, <2>4, <3>1 DEF Writing
    <3>3. InFlow(u, j)' = InFlow(t, j)
      BY <1>9, <3>2 DEF InFlow
    <3> QED
      BY <1>6, <2>1, <2>4, <3>3 DEF Lists
  <2> QED
    BY <2>2, <2>3, <2>4
<1>15. u[0] = prime'[0]
  BY <1>1, <1>2, <1>6, <1>8
<1> QED
  BY <1>8, <1>11, <1>12, <1>13, <1>14, <1>15 DEF FlowRight, u

\* The first number of a pipe is a prime: nothing below it was let through, so it
\* has no divisor among the primes before, and none at all.
LEMMA FirstFlow ==
    ASSUME SieveTypes, NEW t, FlowRight(t), NEW k \in Sieves, k # 0, First(k), NEW x, x = Head(link[k])
    PROVE  FlowRight([t EXCEPT ![k] = x])'
<1> DEFINE u == [t EXCEPT ![k] = x]
<1>1. /\ t \in [Sieves -> Nat] /\ t[0] = prime[0] /\ OrderRight(t)
      /\ \A j \in Sieves : PrimeRight(t, j) /\ WritesRight(t, j)
      /\ \A j \in 1 .. Top : Lists(link[j], InFlow(t, j))
  BY FlowParts
<1>2. Sieves = 0 .. Top /\ Top \in Nat /\ n \in Nat /\ Links = 1 .. Top + 1
  BY Bounds
<1>3. link[k] # <<>> /\ doing[k] = "first"
  BY DEF First
<1>4. /\ x \in Nat /\ k \in 1 .. Top /\ k - 1 \in Sieves /\ t[k] \in Nat /\ t[k - 1] \in Nat
      /\ t[k] < x /\ x <= t[k - 1] /\ 1 <= t[k] /\ t[k - 1] <= n
      /\ Sifted(k - 1, x) /\ (Writing(k - 1) => x # t[k - 1])
      /\ \A y \in Nat : t[k] < y /\ y < x => ~Sifted(k - 1, y)
      /\ Lists(Tail(link[k]), InFlow(t, k) \ {x})
      /\ InFlow(t, k) \ {x} = {y \in x + 1 .. t[k - 1] : Sifted(k - 1, y) /\ (Writing(k - 1) => y # t[k - 1])}
  BY <1>3, Taking
<1>5. k \in Nat /\ k \in Links /\ k - 1 # k /\ k + 1 # k /\ x > 1 /\ x <= n
  BY <1>2, <1>4
<1>6. /\ n' = n /\ num' = num
      /\ \A j \in Links : link'[j] = IF j = k THEN Tail(link[j]) ELSE link[j]
      /\ \A j \in Sieves : /\ doing'[j] = IF j = k THEN "pipe" ELSE doing[j]
                           /\ prime'[j] = IF j = k THEN x ELSE prime[j]
  BY <1>5 DEF First, Becomes, SieveTypes
<1>7. u \in [Sieves -> Nat] /\ \A j \in Sieves : u[j] = IF j = k THEN x ELSE t[j]
  BY <1>1, <1>4
<1> HIDE DEF u
\* Until now this process has none, nor has one behind it.
<1>8. prime[k] = 1 /\ t[k] = 1
  BY <1>1, <1>3, <1>5 DEF PrimeRight, Entering
<1>9. \A j \in Sieves : t[j] \in Nat /\ prime[j] \in Nat /\ (j < k => t[k - 1] <= t[j]) /\ (k < j => t[j] = 1 /\ prime[j] = 1)
  <2> TAKE j \in Sieves
  <2>1. (j < k => j < k - 1 \/ j = k - 1) /\ (k < j => j # 0 /\ 0 < k)
    BY <1>2, <1>5
  <2>2. PrimeRight(t, j) /\ t[j] \in Nat /\ prime[j] \in Nat
    BY <1>1 DEF SieveTypes
  <2>3. k < j => prime[j] = 1
    BY <1>1, <1>8, <2>1 DEF OrderRight
  <2> QED
    BY <1>1, <1>4, <2>1, <2>2, <2>3 DEF OrderRight, PrimeRight
<1>10. \A j \in Sieves : j < k => \A y : Sifted(j, y)' <=> Sifted(j, y)
  <2> TAKE j \in Sieves
  <2> HAVE j < k
  <2>1. \A i \in 1 .. j : i \in Sieves /\ i # k
    BY <1>2
  <2> QED
    BY <1>6, <2>1 DEF Sifted
\* The number has no divisor.
<1>11. ASSUME NEW y \in 2 .. x PROVE ~Sifted(k, y)'
  <2>1. CASE y = x
    <3>1. x % prime'[k] = 0 /\ k \in 1 .. k
      BY <1>4, <1>5, <1>6, SelfDivides
    <3> QED
      BY <2>1, <3>1 DEF Sifted
  <2>2. CASE y # x
    <3>1. y \in Nat /\ t[k] < y /\ y < x
      BY <1>4, <1>8, <2>2
    <3>2. ~Sifted(k - 1, y)'
      <4>1. ~Sifted(k - 1, y) /\ k - 1 < k
        BY <1>4, <1>5, <3>1
      <4> QED
        BY <1>4, <1>10, <4>1
    <3>3. \A i \in 1 .. k - 1 : i \in 1 .. k
      BY <1>5
    <3> QED
      BY <3>2, <3>3 DEF Sifted
  <2> QED
    BY <2>1, <2>2
<1>12. Prime(x)
  <2>1. ASSUME NEW d \in 2 .. x - 1, x % d = 0 PROVE FALSE
    <3>1. d \in Nat /\ t[k] < d /\ d < x /\ d > 0
      BY <1>4, <1>8
    <3>2. PICK j \in 1 .. k - 1 : d % prime[j] = 0
      BY <1>4, <3>1 DEF Sifted
    <3>3. j \in Sieves
      BY <1>2, <1>4
    <3>4. prime[j] \in Nat /\ prime[j] >= 1
      BY <1>1, <1>9, <3>3 DEF PrimeRight
    <3>5. prime[j] > 0
      BY <3>4
    <3>6. x % prime[j] = 0
      BY <1>4, <2>1, <3>1, <3>2, <3>4, <3>5, DividesOn
    <3> QED
      BY <1>4, <3>6 DEF Sifted
  <2> QED
    BY <1>5, <2>1 DEF Prime
\* It is greater than those before, which all have one.
<1>13. \A j \in Sieves : 0 < j /\ j < k => prime[j] # 1 /\ prime[j] < x
  <2> SUFFICES ASSUME NEW j \in Sieves, 0 < j, j < k PROVE prime[j] # 1 /\ prime[j] < x
    OBVIOUS
  <2>1. k - 1 # 0 /\ 0 < k - 1 /\ k > 1 /\ k - 1 \in Nat /\ (j < k - 1 \/ j = k - 1)
    BY <1>2, <1>5
  <2>2. prime[k - 1] # 1
    BY <1>1, <1>3, <2>1 DEF OrderRight
  <2>3. PrimeRight(t, k - 1) /\ prime[k - 1] \in Nat /\ prime[j] \in Nat
    BY <1>1, <1>4, <1>9
  <2>4. prime[k - 1] >= 1 /\ \A y \in 2 .. prime[k - 1] : ~Sifted(k - 1, y)
    BY <2>1, <2>2, <2>3 DEF PrimeRight, HasPrime
  <2>5. prime[k - 1] < x
    <3> SUFFICES ASSUME ~(prime[k - 1] < x) PROVE FALSE
      OBVIOUS
    <3>1. x \in 2 .. prime[k - 1]
      BY <1>4, <1>5, <2>3
    <3> QED
      BY <1>4, <2>4, <3>1
  <2>6. CASE j = k - 1
    BY <2>2, <2>5, <2>6
  <2>7. CASE j < k - 1
    <3>1. prime[j] # 1 /\ prime[j] < prime[k - 1]
      BY <1>1, <1>4, <2>2, <2>7 DEF OrderRight
    <3> QED
      BY <1>4, <2>3, <2>5, <3>1
  <2> QED
    BY <2>1, <2>6, <2>7
<1>14. x > k
  <2>1. CASE k = 1
    BY <1>5, <2>1
  <2>2. CASE k # 1
    <3>1. k - 1 # 0 /\ 0 < k - 1 /\ k - 1 < k
      BY <1>4, <2>2
    <3>2. prime[k - 1] # 1 /\ prime[k - 1] < x /\ prime[k - 1] \in Nat /\ PrimeRight(t, k - 1)
      BY <1>1, <1>4, <1>9, <1>13, <3>1
    <3>3. prime[k - 1] > k - 1
      BY <3>1, <3>2 DEF PrimeRight, HasPrime
    <3> QED
      BY <1>4, <1>5, <3>2, <3>3
  <2> QED
    BY <2>1, <2>2
<1>15. OrderRight(u)'
  <2>1. \A i, j \in Sieves : i < j => u[j] <= u[i]
    <3> SUFFICES ASSUME NEW i \in Sieves, NEW j \in Sieves, i < j PROVE u[j] <= u[i]
      OBVIOUS
    <3>1. t[j] <= t[i] /\ t[i] \in Nat /\ t[j] \in Nat
      BY <1>1, <1>9 DEF OrderRight
    <3>2. CASE j = k
      <4>1. i < k /\ i # k
        BY <1>2, <3>2
      <4>2. u[j] = x /\ u[i] = t[i] /\ t[k - 1] <= t[i]
        BY <1>7, <1>9, <3>2, <4>1
      <4> QED
        BY <1>4, <3>1, <4>2
    <3>3. CASE i = k
      <4>1. u[i] = x /\ u[j] = 1
        BY <1>2, <1>7, <1>9, <3>3
      <4> QED
        BY <1>5, <1>4, <4>1
    <3>4. CASE i # k /\ j # k
      BY <1>7, <3>1, <3>4
    <3> QED
      BY <3>2, <3>3, <3>4
  <2>2. \A i, j \in Sieves : 0 < i /\ i < j /\ prime'[j] # 1 => prime'[i] # 1 /\ prime'[i] < prime'[j]
    <3> SUFFICES ASSUME NEW i \in Sieves, NEW j \in Sieves, 0 < i, i < j, prime'[j] # 1
                 PROVE  prime'[i] # 1 /\ prime'[i] < prime'[j]
      OBVIOUS
    <3>1. CASE j = k
      <4>1. i # k
        BY <1>2, <3>1
      <4> QED
        BY <1>6, <1>13, <3>1, <4>1
    <3>2. CASE j # k
      <4>1. prime[j] # 1
        BY <1>6, <3>2
      <4>2. i # k
        BY <1>9, <4>1
      <4> QED
        BY <1>1, <1>6, <3>2, <4>1, <4>2 DEF OrderRight
    <3> QED
      BY <3>1, <3>2
  <2>3. \A j \in Sieves : j > 1 /\ doing'[j] # "none" => prime'[j - 1] # 1
    <3> SUFFICES ASSUME NEW j \in Sieves, j > 1, doing'[j] # "none" PROVE prime'[j - 1] # 1
      OBVIOUS
    <3>1. j - 1 \in Sieves
      BY <1>2
    <3>2. CASE j - 1 = k
      <4>1. prime'[j - 1] = x
        BY <1>6, <3>1, <3>2
      <4> QED
        BY <1>4, <1>5, <4>1
    <3>3. CASE j - 1 # k
      <4>1. doing[j] # "none"
        BY <1>3, <1>6
      <4> QED
        BY <1>1, <1>6, <3>1, <3>3, <4>1 DEF OrderRight
    <3> QED
      BY <3>2, <3>3
  <2> QED
    BY <2>1, <2>2, <2>3 DEF OrderRight
<1>16. ASSUME NEW j \in Sieves PROVE PrimeRight(u, j)'
  <2>1. PrimeRight(t, j) /\ prime[j] \in Nat
    BY <1>1, <1>9
  <2>2. CASE j = k
    <3>1. u[k] = x /\ prime'[k] = x /\ x # 1 /\ x >= 1 /\ x <= x /\ x <= n /\ n' = n
      BY <1>4, <1>5, <1>6, <1>7
    <3>2. doing'[k] \notin Entering
      BY <1>6 DEF Entering
    <3>3. prime'[k] > k /\ Prime(prime'[k]) /\ \A y \in 2 .. prime'[k] : ~Sifted(k, y)'
      BY <1>11, <1>12, <1>14, <3>1
    <3> QED
      BY <2>2, <3>1, <3>2, <3>3 DEF PrimeRight, Prime
  <2>3. CASE j < k
    <3>1. j # k
      BY <1>2, <2>3
    <3>2. \A y : Sifted(j, y)' <=> Sifted(j, y)
      BY <1>10, <2>3
    <3>3. u[j] = t[j] /\ prime'[j] = prime[j] /\ doing'[j] = doing[j]
      BY <1>6, <1>7, <3>1
    <3> QED
      BY <1>6, <2>1, <3>2, <3>3 DEF PrimeRight, HasPrime
  <2>4. CASE k < j
    <3>1. j # k
      BY <1>2, <2>4
    <3>2. prime'[j] = 1 /\ prime[j] = 1
      BY <1>6, <1>9, <2>4, <3>1
    <3>3. u[j] = t[j] /\ doing'[j] = doing[j]
      BY <1>6, <1>7, <3>1
    <3> QED
      BY <1>6, <2>1, <3>2, <3>3 DEF PrimeRight, HasPrime
  <2> QED
    BY <1>2, <2>2, <2>3, <2>4
<1>17. ASSUME NEW j \in Sieves PROVE WritesRight(u, j)'
  <2>1. WritesRight(t, j)
    BY <1>1
  <2>2. CASE j = k
    BY <1>6, <2>2 DEF WritesRight, Writing
  <2>3. CASE j = k - 1
    <3>1. j + 1 = k /\ j # k /\ j < k
      BY <1>5, <2>3
    <3>2. Writing(j) => x < t[j]
      BY <1>4, <2>3
    <3>3. \A y : Sifted(j, y)' <=> Sifted(j, y)
      BY <1>10, <3>1
    <3> QED
      BY <1>6, <1>7, <2>1, <3>1, <3>2, <3>3 DEF WritesRight, Writing
  <2>4. CASE j < k - 1
    <3>1. j + 1 # k /\ j # k /\ j < k
      BY <1>2, <1>5, <2>4
    <3>2. \A y : Sifted(j, y)' <=> Sifted(j, y)
      BY <1>10, <3>1
    <3> QED
      BY <1>6, <1>7, <2>1, <3>1, <3>2 DEF WritesRight, Writing
  <2>5. CASE k < j
    <3>1. t[j] = 1 /\ j # k
      BY <1>2, <1>9, <2>5
    <3>2. ~Writing(j)
      BY <2>1, <3>1 DEF WritesRight
    <3> QED
      BY <1>6, <3>1, <3>2 DEF WritesRight, Writing
  <2> QED
    BY <1>2, <1>5, <2>2, <2>3, <2>4, <2>5
<1>18. ASSUME NEW j \in 1 .. Top PROVE Lists(link[j], InFlow(u, j))'
  <2>1. Lists(link[j], InFlow(t, j)) /\ j \in Sieves /\ j - 1 \in Sieves /\ j \in Links /\ j \in Nat
    BY <1>1, <1>2
  <2>2. CASE j = k
    <3>1. u[k] = x /\ u[k - 1] = t[k - 1] /\ (Writing(k - 1)' <=> Writing(k - 1)) /\ k - 1 < k
      BY <1>4, <1>5, <1>6, <1>7 DEF Writing
    <3>2. \A y : Sifted(k - 1, y)' <=> Sifted(k - 1, y)
      BY <1>4, <1>10, <3>1
    <3>3. InFlow(u, k)' = InFlow(t, k) \ {x}
      BY <1>4, <3>1, <3>2 DEF InFlow
    <3> QED
      <4>1. link'[k] = Tail(link[k]) /\ Lists(link'[k], InFlow(u, k)')
        BY <1>4, <1>6, <2>1, <2>2, <3>3
      <4> QED
        BY <2>2, <4>1 DEF Lists
  <2>3. CASE j > k
    <3>0. j # k /\ (j - 1 = k \/ (j - 1 # k /\ k < j - 1)) /\ k < j
      BY <1>5, <2>1, <2>3
    <3>1. j # k /\ u[j] = 1 /\ t[j] = 1 /\ t[j - 1] = 1 /\ (j - 1 = k \/ u[j - 1] = 1)
      BY <1>7, <1>8, <1>9, <2>1, <3>0
    <3>2. InFlow(t, j) = {}
      BY <3>1 DEF InFlow
    <3>3. InFlow(u, j)' = {}
      <4>1. CASE j - 1 = k
        <5>1. u[j - 1] = x /\ \A y \in 2 .. x : ~Sifted(j - 1, y)'
          BY <1>7, <1>11, <4>1
        <5>2. InFlow(u, j)' \subseteq {y \in 2 .. x : Sifted(j - 1, y)'}
          BY <3>1, <5>1 DEF InFlow
        <5> QED
          BY <5>1, <5>2
      <4>2. CASE u[j - 1] = 1
        BY <3>1, <4>2 DEF InFlow
      <4> QED
        BY <3>1, <4>1, <4>2
    <3> QED
      BY <1>6, <2>1, <3>1, <3>2, <3>3 DEF Lists
  <2>4. CASE j < k
    <3>1. j # k /\ j - 1 # k /\ j - 1 < k
      BY <1>2, <1>5, <2>1, <2>4
    <3>2. u[j] = t[j] /\ u[j - 1] = t[j - 1] /\ (Writing(j - 1)' <=> Writing(j - 1))
      BY <1>6, <1>7, <2>1, <3>1 DEF Writing
    <3>3. \A y : Sifted(j - 1, y)' <=> Sifted(j - 1, y)
      BY <1>10, <2>1, <3>1
    <3>4. InFlow(u, j)' = InFlow(t, j)
      BY <3>2, <3>3 DEF InFlow
    <3> QED
      BY <1>6, <2>1, <3>1, <3>4 DEF Lists
  <2> QED
    BY <1>5, <2>1, <2>2, <2>3, <2>4
<1>19. u[0] = prime'[0]
  BY <1>1, <1>2, <1>6, <1>7
<1> QED
  BY <1>7, <1>15, <1>16, <1>17, <1>18, <1>19 DEF FlowRight, u

-----------------------------------------------------------------------------
(* The end of the processes.                                               *)

\* A step of who has not ended and does not.
LEMMA EndedMoves ==
    ASSUME SieveTypes, NEW t, NEW u, EndedRight(t), broken' = broken, n' = n,
           \A j \in Sieves :
              \/ doing'[j] = doing[j]
              \/ doing[j] \notin Over \cup {"wait"} /\ doing'[j] \notin Over \cup {"wait"},
           \A j \in Sieves : doing[j] \in Over \cup {"wait"} =>
              /\ u[j] = t[j] /\ (HasPrime(j)' => HasPrime(j)) /\ (j # 0 => link'[j] = link[j])
              /\ \A x : Sifted(j - 1, x)' => Sifted(j - 1, x)
    PROVE  EndedRight(u)'
<1> SUFFICES ASSUME ~broken' PROVE EndedRight(u)'
  BY DEF EndedRight
<1>1. /\ ~broken /\ \A j \in Sieves : doing[j] \notin {"killed", "failed"}
      /\ \A j \in 1 .. Top : Finished(j) => link[j] = <<>> /\ Finished(j - 1)
      /\ \A j \in Sieves : Finished(j) => \A x \in 2 .. n : Sifted(j - 1, x) => x <= t[j]
      /\ \A j \in Sieves : j + 1 \in Sieves /\ doing[j] = "exited" /\ (j = 0 \/ HasPrime(j)) => doing[j + 1] = "exited"
  BY DEF EndedRight
<1>2. Sieves = 0 .. Top /\ Top \in Nat
  BY Bounds
<1>3. \A j \in Sieves : /\ Finished(j)' => Finished(j) /\ doing[j] \in Over \cup {"wait"}
                        /\ Finished(j) => Finished(j)'
                        /\ doing'[j] \in Over => doing'[j] = doing[j]
                        /\ doing[j] \in Over => doing'[j] = doing[j]
  BY DEF Finished, Over
<1>4. \A j \in Sieves : doing'[j] \notin {"killed", "failed"}
  BY <1>1, <1>3 DEF Over
<1>5. ASSUME NEW j \in 1 .. Top, Finished(j)' PROVE link'[j] = <<>> /\ Finished(j - 1)'
  <2>1. j \in Sieves /\ j - 1 \in Sieves /\ j # 0
    BY <1>2
  <2> QED
    BY <1>1, <1>3, <1>5, <2>1
<1>6. ASSUME NEW j \in Sieves, Finished(j)', NEW x \in 2 .. n, Sifted(j - 1, x)' PROVE x <= u[j]
  BY <1>1, <1>3, <1>6
<1>7. ASSUME NEW j \in Sieves, j + 1 \in Sieves, doing'[j] = "exited", j = 0 \/ HasPrime(j)'
      PROVE  doing'[j + 1] = "exited"
  BY <1>1, <1>3, <1>7 DEF Over
<1> QED
  BY <1>4, <1>5, <1>6, <1>7 DEF EndedRight

\* Who sees the end of its input: the process before it has closed its output.
LEMMA AtEndFinished ==
    ASSUME SieveInv, NEW t, EndedRight(t), ~broken, NEW k \in Sieves, k # 0, doing[k] # "none", wr[k] = {}
    PROVE  Finished(k - 1)
<1>1. /\ SieveTypes /\ ChainRight /\ doing \in [Sieves -> Childless \cup Parents \cup Over]
      /\ \A j \in Sieves : PipeEnds(j)
  BY Parts DEF SieveTypes
<1>2. k - 1 \in Sieves /\ (k - 1) + 1 = k /\ k \in Sieves
  BY <1>1, Bounds
<1>3. doing[k - 1] \notin Childless
  BY <1>1, <1>2 DEF ChainRight
<1>4. doing[k - 1] \notin Sending
  BY <1>1, <1>2 DEF PipeEnds
<1>5. doing[k - 1] \notin {"killed", "failed"}
  BY <1>2 DEF EndedRight
<1>6. doing[k - 1] \in Childless \cup Parents \cup Over
  BY <1>1, <1>2
<1> QED
  BY <1>3, <1>4, <1>5, <1>6 DEF Finished, Parents, Over, Sending

\* It has taken all that has come through the processes before it.
LEMMA AtEndTaken ==
    ASSUME SieveTypes, NEW t, FlowRight(t), EndedRight(t), ~broken, NEW k \in Sieves, k # 0,
           link[k] = <<>>, Finished(k - 1)
    PROVE  \A x \in 2 .. n : Sifted(k - 1, x) => x <= t[k]
<1> SUFFICES ASSUME NEW x \in 2 .. n, Sifted(k - 1, x) PROVE x <= t[k]
  OBVIOUS
<1>1. k - 1 \in Sieves /\ k \in 1 .. Top /\ k \in Nat /\ n \in Nat
  BY Bounds
<1>2. t[k] \in Nat /\ t[k - 1] \in Nat /\ Lists(link[k], InFlow(t, k))
  BY <1>1, FlowParts
<1>3. \A j \in 1 .. (k - 1) - 1 : j \in 1 .. k - 1
  BY <1>1
<1>4. Sifted((k - 1) - 1, x)
  BY <1>3 DEF Sifted
<1>5. x <= t[k - 1]
  BY <1>1, <1>4 DEF EndedRight
<1>6. ~Writing(k - 1)
  BY DEF Finished, Writing
<1>7. x \notin InFlow(t, k)
  BY <1>2, ListsNone
<1>8. x \notin t[k] + 1 .. t[k - 1]
  BY <1>6, <1>7 DEF InFlow
<1> QED
  BY <1>1, <1>2, <1>5, <1>8

\* While nothing has failed no process is killed: who has to write has a reader.
LEMMA ReaderStays ==
    ASSUME SieveInv, NEW t, EndedRight(t), ~broken, NEW k \in Sieves, doing[k] = "write"
    PROVE  rd[k + 1] # {}
<1>1. /\ SieveTypes /\ ChainRight /\ doing \in [Sieves -> Childless \cup Parents \cup Over]
      /\ \A j \in Sieves : PipeEnds(j)
  BY Parts DEF SieveTypes
<1>2. k + 1 \in Sieves /\ k + 1 \in 1 .. Top /\ k + 1 # 0 /\ (k + 1) - 1 = k
  <2>1. k + 1 \in Sieves /\ k \in Nat
    BY NextPlace DEF Parents
  <2> QED
    BY <1>1, <2>1, Bounds
<1>3. doing[k + 1] # "none" /\ doing[k + 1] # "send"
  BY <1>1, <1>2 DEF ChainRight, Parents
<1>4. doing[k + 1] \notin {"killed", "failed"} /\ ~Finished(k + 1)
  <2>1. ~Finished(k)
    BY DEF Finished
  <2> QED
    BY <1>2, <2>1 DEF EndedRight
<1>5. doing[k + 1] \in Childless \cup Parents \cup Over
  BY <1>1, <1>2
<1>6. doing[k + 1] \in Reading
  BY <1>3, <1>4, <1>5 DEF Childless, Entering, Parents, Over, Finished, Reading
<1> QED
  BY <1>1, <1>2, <1>6 DEF PipeEnds

\* A process that ends or waits, when it may.
LEMMA EndedOne ==
    ASSUME SieveTypes, NEW t, EndedRight(t), NEW k \in Sieves, NEW at \in {"wait", "exited"},
           Becomes(k, at), UNCHANGED <<n, prime, link>>, broken' = broken, doing[k] # "exited",
           ~broken => /\ k # 0 => link[k] = <<>> /\ Finished(k - 1)
                      /\ \A x \in 2 .. n : Sifted(k - 1, x) => x <= t[k]
                      /\ at = "exited" /\ k + 1 \in Sieves /\ (k = 0 \/ HasPrime(k)) => doing[k + 1] = "exited"
    PROVE  EndedRight(t)'
<1> SUFFICES ASSUME ~broken' PROVE EndedRight(t)'
  BY DEF EndedRight
<1>1. /\ ~broken /\ \A j \in Sieves : doing[j] \notin {"killed", "failed"}
      /\ \A j \in 1 .. Top : Finished(j) => link[j] = <<>> /\ Finished(j - 1)
      /\ \A j \in Sieves : Finished(j) => \A x \in 2 .. n : Sifted(j - 1, x) => x <= t[j]
      /\ \A j \in Sieves : j + 1 \in Sieves /\ doing[j] = "exited" /\ (j = 0 \/ HasPrime(j)) => doing[j + 1] = "exited"
  BY DEF EndedRight
<1>2. Sieves = 0 .. Top /\ Top \in Nat
  BY Bounds
<1>3. /\ \A j \in Sieves : doing'[j] = IF j = k THEN at ELSE doing[j]
      /\ \A j, x : Sifted(j, x)' <=> Sifted(j, x)
      /\ \A j : HasPrime(j)' <=> HasPrime(j)
  BY DEF Becomes, SieveTypes, Sifted, HasPrime
<1>4. \A j \in Sieves : Finished(j)' <=> j = k \/ Finished(j)
  BY <1>3 DEF Finished
<1>5. \A j \in Sieves : doing'[j] \notin {"killed", "failed"}
  BY <1>1, <1>3
<1>6. ASSUME NEW j \in 1 .. Top, Finished(j)' PROVE link'[j] = <<>> /\ Finished(j - 1)'
  <2>1. j \in Sieves /\ j - 1 \in Sieves /\ j # 0
    BY <1>2
  <2>2. CASE j = k
    BY <1>1, <1>4, <2>1, <2>2
  <2>3. CASE j # k
    BY <1>1, <1>4, <1>6, <2>1, <2>3
  <2> QED
    BY <2>2, <2>3
<1>7. ASSUME NEW j \in Sieves, Finished(j)', NEW x \in 2 .. n, Sifted(j - 1, x)' PROVE x <= t[j]
  BY <1>1, <1>3, <1>4, <1>7
<1>8. ASSUME NEW j \in Sieves, j + 1 \in Sieves, doing'[j] = "exited", j = 0 \/ HasPrime(j)'
      PROVE  doing'[j + 1] = "exited"
  <2>1. j + 1 # j
    BY <1>2
  <2>2. CASE j = k
    BY <1>1, <1>3, <1>8, <2>1, <2>2
  <2>3. CASE j # k
    BY <1>1, <1>3, <1>8, <2>3
  <2> QED
    BY <2>2, <2>3
<1> QED
  BY <1>5, <1>6, <1>7, <1>8 DEF EndedRight

\* After every step there are last numbers taken for which the flow and the end are
\* right: those from before, but for who takes one.
LEMMA FlowAndEndKept ==
    ASSUME SieveInv, NEW k \in Sieves, SieveStep(k), NEW t \in [Sieves -> Nat], FlowRight(t), EndedRight(t)
    PROVE  \E u \in [Sieves -> Nat] : FlowRight(u)' /\ EndedRight(u)'
<1>0. /\ SieveTypes /\ ChainRight /\ PipeEnds(k)
      /\ doing \in [Sieves -> Childless \cup Parents \cup Over]
  BY Parts DEF SieveTypes
<1>1. Sieves = 0 .. Top /\ Links = 1 .. Top + 1 /\ Top \in Nat /\ n \in Nat /\ 0 \in Sieves
  BY <1>0, Bounds
<1>2. /\ t[0] = prime[0] /\ OrderRight(t)
      /\ \A j \in Sieves : PrimeRight(t, j)
  BY FlowParts
<1>3. /\ k \in Nat /\ k + 1 # k
      /\ doing[k] \in {"pipe", "fork"} \cup Parents => (k = 0 \/ prime[k] # 1) /\ k + 1 \in Sieves
      /\ k = 0 => doing[k] \notin Entering \cup {"read"}
      /\ k # 0 => doing[k] # "send"
  BY <1>0, <1>1, NextPlace DEF ChainRight, HasPrime
<1>4. /\ k # 0 /\ doing[k] \in Entering => prime[k] = 1
      /\ k # 0 /\ doing[k] \in {"pipe", "fork"} \cup Parents => prime[k] # 1
  BY <1>2 DEF PrimeRight
<1>5. \A j \in Sieves : /\ j # 0 /\ doing[j] \in Entering => prime[j] = 1
                        /\ j # 0 /\ doing[j] \in {"pipe", "fork"} \cup Parents => prime[j] # 1
                        /\ j > 1 /\ doing[j] # "none" => prime[j - 1] # 1
  BY <1>2 DEF PrimeRight, OrderRight
<1>6. \A at : Becomes(k, at) => \A j \in Sieves : doing'[j] = IF j = k THEN at ELSE doing[j]
  BY <1>0 DEF Becomes
\* A step from one place to another that moves no number.
<1>7. ASSUME NEW at, Becomes(k, at), UNCHANGED <<n, prime, num, link>>,
             doing[k] \notin {"none", "write", "killed"}, at \notin {"write", "killed"},
             at \in Entering => doing[k] \in Entering,
             at \in {"pipe", "fork"} \cup Parents => doing[k] \in {"pipe", "fork"} \cup Parents
      PROVE  FlowRight(t)'
  BY <1>0, <1>4, <1>5, <1>6, <1>7, ControlFlow
<1>8. ASSUME NEW at, Becomes(k, at), UNCHANGED <<n, prime, link, broken>>,
             doing[k] \notin Over \cup {"wait"}, at \notin Over \cup {"wait"}
      PROVE  EndedRight(t)'
  <2>1. \A j, x : (Sifted(j, x)' <=> Sifted(j, x)) /\ (HasPrime(j)' <=> HasPrime(j))
    BY <1>8 DEF Sifted, HasPrime
  <2> QED
    BY <1>0, <1>6, <1>8, <2>1, EndedMoves
<1>9. CASE Pipe(k)
  BY <1>7, <1>8, <1>9 DEF Pipe, Entering, Parents, Over
<1>10. CASE Fork(k)
  <2>1. k + 1 \in Sieves /\ (k = 0 \/ prime[k] # 1) /\ doing[k] = "fork" /\ doing[k + 1] = "none" /\ k + 1 # 0
    BY <1>0, <1>1, <1>3, <1>10 DEF Fork, ChainRight, Childless
  <2>2. \A j \in Sieves : doing'[j] = IF j = k + 1 THEN "child" ELSE IF j = k THEN "parent" ELSE doing[j]
    BY <1>0, <1>10, <2>1 DEF Fork
  <2>3. prime[k + 1] = 1 /\ (k + 1 > 1 => prime[(k + 1) - 1] # 1)
    BY <1>3, <1>5, <2>1 DEF Entering
  <2>4. UNCHANGED <<n, prime, num, link, broken>>
    BY <1>10 DEF Fork
  <2>5. FlowRight(t)'
    <3>1. ASSUME NEW j \in Sieves
          PROVE  /\ doing'[j] \in {"write", "killed"} <=> doing[j] \in {"write", "killed"}
                 /\ j # 0 /\ doing'[j] \in Entering => prime[j] = 1
                 /\ j # 0 /\ doing'[j] \in {"pipe", "fork"} \cup Parents => prime[j] # 1
                 /\ j > 1 /\ doing'[j] # "none" => prime[j - 1] # 1
      <4>1. CASE j = k
        BY <1>3, <1>5, <2>1, <2>2, <4>1 DEF Entering, Parents
      <4>2. CASE j = k + 1
        BY <2>1, <2>2, <2>3, <4>2 DEF Entering, Parents
      <4>3. CASE j # k /\ j # k + 1
        BY <1>5, <2>2, <4>3
      <4> QED
        BY <4>1, <4>2, <4>3
    <3> QED
      BY <1>0, <2>4, <3>1, ControlFlow
  <2>6. EndedRight(t)'
    <3>1. \A j, x : (Sifted(j, x)' <=> Sifted(j, x)) /\ (HasPrime(j)' <=> HasPrime(j))
      BY <2>4 DEF Sifted, HasPrime
    <3>2. \A j \in Sieves :
             \/ doing'[j] = doing[j]
             \/ doing[j] \notin Over \cup {"wait"} /\ doing'[j] \notin Over \cup {"wait"}
      BY <2>1, <2>2 DEF Over
    <3> QED
      BY <1>0, <2>4, <3>1, <3>2, EndedMoves
  <2> QED
    BY <2>5, <2>6
<1>11. CASE CallFails(k)
  <2>1. FlowRight(t)'
    BY <1>7, <1>11 DEF CallFails, ExitFails, Ends, Entering, Parents
  <2>2. EndedRight(t)'
    BY <1>11 DEF CallFails, ExitFails, EndedRight
  <2> QED
    BY <2>1, <2>2
<1>12. CASE Parent(k)
  BY <1>7, <1>8, <1>12 DEF Parent, Entering, Parents, Over
<1>13. CASE Child(k)
  BY <1>7, <1>8, <1>13 DEF Child, Entering, Parents, Over
<1>14. CASE Receive(k)
  BY <1>7, <1>8, <1>14 DEF Receive, Entering, Parents, Over
\* A process that takes a number.
<1>15. CASE First(k) \/ Read(k)
  <2>1. k # 0 /\ link[k] # <<>> /\ doing[k] \in {"first", "read"} /\ UNCHANGED <<n, broken>>
    BY <1>3, <1>15 DEF First, Read, Entering
  <2>2. PICK x : x = Head(link[k])
    OBVIOUS
  <2>3. x \in Nat
    BY <1>0, <2>1, <2>2, Taking
  <2> DEFINE u == [t EXCEPT ![k] = x]
  <2>4. FlowRight(u)'
    BY <1>0, <1>15, <2>1, <2>2, ReadFlow, FirstFlow
  <2>5. u \in [Sieves -> Nat] /\ \A j \in Sieves : j # k => u[j] = t[j]
    BY <2>3
  <2> HIDE DEF u
  <2>6. \A j \in Links : j # k => link'[j] = link[j]
    BY <1>0, <1>15 DEF First, Read, SieveTypes
  <2>7. /\ \A j \in Sieves : j # k => doing'[j] = doing[j] /\ prime'[j] = prime[j]
        /\ doing'[k] \in {"pipe", "read", "write"}
    <3>1. CASE First(k)
      BY <1>0, <3>1 DEF First, Becomes, SieveTypes
    <3>2. CASE Read(k)
      BY <1>0, <3>2 DEF Read, Becomes, SieveTypes
    <3> QED
      BY <1>15, <3>1, <3>2
  <2>8. ASSUME NEW j \in Sieves, doing[j] \in Over \cup {"wait"}
        PROVE  /\ u[j] = t[j] /\ (HasPrime(j)' => HasPrime(j)) /\ (j # 0 => link'[j] = link[j])
               /\ \A x0 : Sifted(j - 1, x0)' => Sifted(j - 1, x0)
    <3>1. j # k
      BY <2>1, <2>8 DEF Over
    <3>2. u[j] = t[j] /\ (HasPrime(j)' => HasPrime(j)) /\ (j # 0 => link'[j] = link[j])
      BY <1>1, <2>5, <2>6, <2>7, <3>1 DEF HasPrime
    <3>3. ASSUME NEW i \in 1 .. j - 1 PROVE prime'[i] = prime[i]
      <4>1. i \in Sieves /\ i < j /\ 0 < i /\ j \in Nat /\ i \in Nat /\ j > 1 /\ j - 1 \in Sieves
        BY <1>1
      <4>2. CASE i # k
        BY <2>7, <4>1, <4>2
      <4>3. CASE i = k
        <5>1. prime[j - 1] # 1
          BY <1>5, <2>8, <4>1 DEF Over
        <5>2. i = j - 1 \/ i < j - 1
          BY <4>1
        <5>3. prime[k] # 1
          BY <1>2, <4>1, <4>3, <5>1, <5>2 DEF OrderRight
        <5>4. ~First(k)
          BY <1>4, <2>1, <5>3 DEF First, Entering
        <5> QED
          BY <1>15, <5>4 DEF Read
      <4> QED
        BY <4>2, <4>3
    <3> QED
      BY <3>2, <3>3, SameSifted
  <2>9. \A j \in Sieves :
           \/ doing'[j] = doing[j]
           \/ doing[j] \notin Over \cup {"wait"} /\ doing'[j] \notin Over \cup {"wait"}
    BY <2>1, <2>7 DEF Over
  <2>10. EndedRight(u)'
    BY <1>0, <2>1, <2>8, <2>9, EndedMoves
  <2> QED
    BY <2>4, <2>5, <2>10
<1>16. CASE NoFirst(k)
  <2>1. k # 0 /\ doing[k] = "first" /\ link[k] = <<>> /\ wr[k] = {} /\ prime[k] = 1
    BY <1>3, <1>4, <1>16 DEF NoFirst, AtEnd, Entering
  <2>2. FlowRight(t)'
    BY <1>7, <1>16, <2>1 DEF NoFirst, Exit, Ends, Entering, Parents
  <2>3. ~broken => Finished(k - 1)
    BY <2>1, AtEndFinished
  <2>4. ~broken => \A x \in 2 .. n : Sifted(k - 1, x) => x <= t[k]
    BY <1>0, <2>1, <2>3, AtEndTaken
  <2>5. Becomes(k, "exited") /\ UNCHANGED <<n, prime, link, broken>>
    BY <1>16 DEF NoFirst, Exit, Ends
  <2>6. EndedRight(t)'
    BY <1>0, <2>1, <2>3, <2>4, <2>5, EndedOne DEF HasPrime
  <2> QED
    BY <2>2, <2>6
<1>17. CASE Write(k)
  <2>1. k + 1 \in Sieves /\ doing[k] = "write"
    BY <1>3, <1>17 DEF Write, Parents
  <2>2. FlowRight(t)'
    BY <1>0, <1>17, <2>1, WriteFlow
  <2>3. UNCHANGED <<n, prime, broken>> /\ \A j \in Links : j # k + 1 => link'[j] = link[j]
    BY <1>0, <1>17 DEF Write, SieveTypes
  <2>4. \A j, x : (Sifted(j, x)' <=> Sifted(j, x)) /\ (HasPrime(j)' <=> HasPrime(j))
    BY <2>3 DEF Sifted, HasPrime
  <2>5. \A j \in Sieves : doing'[j] = IF j = k THEN (IF k = 0 THEN "send" ELSE "read") ELSE doing[j]
    BY <1>6, <1>17 DEF Write
  <2>6. \A j \in Sieves :
           \/ doing'[j] = doing[j]
           \/ doing[j] \notin Over \cup {"wait"} /\ doing'[j] \notin Over \cup {"wait"}
    BY <2>1, <2>5 DEF Over
  <2>7. CASE ~broken
    <3>1. ~Finished(k) /\ k + 1 \in 1 .. Top /\ (k + 1) - 1 = k
      BY <1>1, <1>3, <2>1 DEF Finished
    <3>2. ~Finished(k + 1) /\ doing[k + 1] \notin {"killed", "failed"}
      BY <2>1, <2>7, <3>1 DEF EndedRight
    <3>3. doing[k + 1] \notin Over \cup {"wait"}
      BY <3>2 DEF Finished, Over
    <3>4. \A j \in Sieves : doing[j] \in Over \cup {"wait"} => (j # 0 => link'[j] = link[j])
      BY <1>1, <2>3, <3>3
    <3>5. EndedRight(t)'
      BY <1>0, <2>3, <2>4, <2>6, <3>4, EndedMoves
    <3> QED
      BY <2>2, <3>5
  <2>8. CASE broken
    BY <2>2, <2>3, <2>8 DEF EndedRight
  <2> QED
    BY <2>7, <2>8
<1>18. CASE WriteKilled(k)
  <2>1. doing[k] = "write" /\ rd[k + 1] = {} /\ Becomes(k, "killed") /\ UNCHANGED <<n, prime, num, link, broken>>
    BY <1>18 DEF WriteKilled, Killed, Ends
  <2>2. broken
    BY <2>1, ReaderStays
  <2>3. \A j \in Sieves :
              /\ doing'[j] \in {"write", "killed"} <=> doing[j] \in {"write", "killed"}
              /\ j # 0 /\ doing'[j] \in Entering => prime[j] = 1
              /\ j # 0 /\ doing'[j] \in {"pipe", "fork"} \cup Parents => prime[j] # 1
              /\ j > 1 /\ doing'[j] # "none" => prime[j - 1] # 1
    BY <1>5, <1>6, <2>1 DEF Entering, Parents
  <2>4. FlowRight(t)'
    BY <1>0, <2>1, <2>3, ControlFlow
  <2> QED
    BY <2>1, <2>2, <2>4 DEF EndedRight
<1>19. CASE CloseEnds(k)
  <2>1. /\ Becomes(k, "wait") /\ UNCHANGED <<n, prime, num, link, broken>>
        /\ k = 0 => doing[0] = "send" /\ prime[0] >= n
        /\ k # 0 => doing[k] = "read" /\ link[k] = <<>> /\ wr[k] = {}
    BY <1>19 DEF CloseEnds, AtEnd
  <2>2. FlowRight(t)'
    BY <1>7, <2>1 DEF Entering, Parents
  <2>3. ~broken /\ k # 0 => Finished(k - 1)
    BY <2>1, AtEndFinished
  <2>4. ~broken => \A x \in 2 .. n : Sifted(k - 1, x) => x <= t[k]
    <3>1. CASE k = 0
      <4>1. t[0] = prime[0] /\ prime[0] \in Nat /\ prime[0] >= n
        BY <1>0, <1>1, <1>2, <2>1, <3>1 DEF SieveTypes
      <4> QED
        BY <1>1, <3>1, <4>1
    <3>2. CASE k # 0
      BY <1>0, <2>1, <2>3, <3>2, AtEndTaken
    <3> QED
      BY <3>1, <3>2
  <2>5. doing[k] # "exited"
    BY <2>1
  <2>6. EndedRight(t)'
    BY <1>0, <2>1, <2>3, <2>4, <2>5, EndedOne
  <2> QED
    BY <2>2, <2>6
<1>20. CASE Wait(k)
  <2>1. doing[k] = "wait" /\ doing[k + 1] \in Over /\ Becomes(k, "exited") /\ UNCHANGED <<n, prime, num, link, broken>>
    BY <1>20 DEF Wait, Exit, Ends
  <2>2. FlowRight(t)'
    BY <1>7, <2>1 DEF Entering, Parents
  <2>3. ~broken => /\ k # 0 => link[k] = <<>> /\ Finished(k - 1)
                   /\ \A x \in 2 .. n : Sifted(k - 1, x) => x <= t[k]
    <3>1. Finished(k) /\ (k # 0 => k \in 1 .. Top)
      BY <1>1, <2>1 DEF Finished
    <3> QED
      BY <3>1 DEF EndedRight
  <2>4. ~broken /\ k + 1 \in Sieves => doing[k + 1] = "exited"
    BY <2>1 DEF EndedRight, Over
  <2>5. EndedRight(t)'
    BY <1>0, <2>1, <2>3, <2>4, EndedOne
  <2> QED
    BY <2>2, <2>5
<1>21. CASE k = 0 /\ SendNumber
  <2>1. PICK x : x = prime[0] + 1
    OBVIOUS
  <2>2. x \in Nat /\ doing[0] = "send"
    <3>1. prime[0] \in Nat
      BY <1>0, <1>1 DEF SieveTypes
    <3> QED
      BY <1>21, <2>1, <3>1 DEF SendNumber
  <2> DEFINE u == [t EXCEPT ![0] = x]
  <2>3. FlowRight(u)'
    BY <1>0, <1>21, <2>1, SendNumberFlow
  <2>4. u \in [Sieves -> Nat] /\ \A j \in Sieves : j # 0 => u[j] = t[j]
    BY <2>2
  <2> HIDE DEF u
  <2>5. /\ \A j \in Sieves : j # 0 => prime'[j] = prime[j]
        /\ \A j \in Sieves : doing'[j] = IF j = 0 THEN "write" ELSE doing[j]
        /\ UNCHANGED <<n, link, broken>>
    BY <1>0, <1>6, <1>21 DEF SendNumber, SieveTypes
  <2>6. ASSUME NEW j \in Sieves, doing[j] \in Over \cup {"wait"}
        PROVE  /\ u[j] = t[j] /\ (HasPrime(j)' => HasPrime(j)) /\ (j # 0 => link'[j] = link[j])
               /\ \A x0 : Sifted(j - 1, x0)' => Sifted(j - 1, x0)
    <3>1. j # 0
      BY <2>2, <2>6 DEF Over
    <3>2. \A i \in 1 .. j - 1 : i \in Sieves /\ i # 0
      BY <1>1
    <3>3. \A i \in 1 .. j - 1 : prime'[i] = prime[i]
      BY <2>5, <3>2
    <3> QED
      BY <2>4, <2>5, <3>1, <3>3, SameSifted DEF HasPrime
  <2>7. \A j \in Sieves :
           \/ doing'[j] = doing[j]
           \/ doing[j] \notin Over \cup {"wait"} /\ doing'[j] \notin Over \cup {"wait"}
    BY <2>2, <2>5 DEF Over
  <2>8. EndedRight(u)'
    BY <1>0, <2>5, <2>6, <2>7, EndedMoves
  <2> QED
    BY <2>3, <2>4, <2>8
<1> QED
  BY <1>9, <1>10, <1>11, <1>12, <1>13, <1>14, <1>15, <1>16, <1>17, <1>18, <1>19, <1>20, <1>21 DEF SieveStep

-----------------------------------------------------------------------------
(* What is printed.                                                        *)

\* Steps that print nothing,
LEMMA PrintedMoves ==
    ASSUME PrintedRight, UNCHANGED <<terminal, output, stdout>>,
           \A j \in 1 .. Top : prime'[j] = prime[j],
           \A j \in Sieves : (doing'[j] \in Over => doing[j] \in Over) /\ (doing[j] = "killed" => doing'[j] = "killed"),
           SieveTypes
    PROVE  PrintedRight'
<1>1. \A j \in 1 .. Top : j \in Sieves
  BY Bounds
<1>2. Found' = Found
  BY DEF Found
<1> QED
  BY <1>1, <1>2 DEF PrintedRight, HasPrime

\* that write what was collected,
LEMMA PrintedEnds ==
    ASSUME SieveTypes, PrintedRight, NEW k \in Sieves, NEW at \in Over, NEW w, Ends(k, at, w),
           w = stdout[k] \/ (w = <<>> /\ at = "killed"), doing[k] \notin Over
    PROVE  PrintedRight'
<1>1. /\ output \in Seq(Nat) /\ stdout \in [Sieves -> Seq(Nat)] /\ w \in Seq(Nat)
      /\ Sieves = 0 .. Top /\ Top \in Nat /\ \A j \in 1 .. Top : j \in Sieves
  <2>1. output \in Seq(Nat) /\ stdout \in [Sieves -> Seq(Nat)]
    BY DEF SieveTypes
  <2>2. stdout[k] \in Seq(Nat)
    BY <2>1
  <2>3. w \in Seq(Nat)
    <3>1. CASE w = stdout[k]
      BY <2>2, <3>1
    <3>2. CASE w = <<>>
      BY <3>2
    <3> QED
      BY <3>1, <3>2
  <2> QED
    BY <2>1, <2>3, Bounds
<1>2. /\ terminal' = terminal /\ prime' = prime /\ output' = output \o w /\ n' = n
      /\ \A j \in Sieves : /\ doing'[j] = IF j = k THEN at ELSE doing[j]
                           /\ stdout'[j] = IF j = k THEN <<>> ELSE stdout[j]
  BY <1>1 DEF Ends, Becomes, SieveTypes
<1>3. Found' = Found
  BY <1>2 DEF Found
<1>4. /\ Len(output') = Len(output) + Len(w) /\ Len(output) \in Nat /\ Len(w) \in Nat
      /\ \A i \in 1 .. Len(output) : output'[i] = output[i] /\ i \in 1 .. Len(output')
      /\ \A i \in 1 .. Len(output') : i \notin 1 .. Len(output) => i - Len(output) \in 1 .. Len(w) /\ output'[i] = w[i - Len(output)]
      /\ \A i \in 1 .. Len(w) : Len(output) + i \in 1 .. Len(output') /\ output'[Len(output) + i] = w[i]
  BY <1>1, <1>2, SMTT(30)
<1>5. \A i \in 1 .. Len(w) : w[i] \in Found
  BY <1>1 DEF PrintedRight
<1>6. ASSUME NEW i \in 1 .. Len(output') PROVE output'[i] \in Found
  BY <1>4, <1>5 DEF PrintedRight
<1>7. ASSUME NEW j \in Sieves, NEW i \in 1 .. Len(stdout'[j]) PROVE stdout'[j][i] \in Found
  <2>1. j # k
    BY <1>2
  <2> QED
    BY <1>2, <2>1 DEF PrintedRight
<1>8. ASSUME terminal
      PROVE  /\ \A j \in Sieves : stdout'[j] = <<>>
             /\ \A j \in 1 .. Top : prime'[j] # 1 <=> j <= Len(output')
             /\ \A i \in 1 .. Len(output') : i \in 1 .. Top /\ output'[i] = prime'[i]
  <2>1. w = <<>> /\ output' = output
    <3>1. w = <<>>
      BY <1>8 DEF PrintedRight
    <3> QED
      BY <1>1, <1>2, <3>1
  <2> QED
    BY <1>2, <1>8, <2>1 DEF PrintedRight
<1>9. ASSUME NEW j \in 1 .. Top, HasPrime(j)'
      PROVE  \/ \E i \in 1 .. Len(output') : output'[i] = prime'[j]
             \/ doing'[j] \notin Over /\ \E i \in 1 .. Len(stdout'[j]) : stdout'[j][i] = prime'[j]
             \/ doing'[j] = "killed"
  <2>1. j \in Sieves /\ HasPrime(j)
    BY <1>1, <1>2, <1>9 DEF HasPrime
  <2>2. CASE \E i \in 1 .. Len(output) : output[i] = prime[j]
    BY <1>2, <1>4, <2>2
  <2>3. CASE doing[j] \notin Over /\ \E i \in 1 .. Len(stdout[j]) : stdout[j][i] = prime[j]
    <3>1. CASE j # k
      BY <1>2, <2>1, <2>3, <3>1
    <3>2. CASE j = k
      <4>1. CASE at = "killed"
        BY <1>2, <2>1, <3>2, <4>1
      <4>2. CASE at # "killed"
        <5>1. PICK i \in 1 .. Len(w) : w[i] = prime[j]
          BY <2>3, <3>2, <4>2
        <5> QED
          BY <1>2, <1>4, <5>1, SMTT(30)
      <4> QED
        BY <4>1, <4>2
    <3> QED
      BY <3>1, <3>2
  <2>4. CASE doing[j] = "killed"
    <3>1. j # k
      BY <2>4 DEF Over
    <3> QED
      BY <1>2, <2>1, <2>4, <3>1
  <2> QED
    BY <2>1, <2>2, <2>3, <2>4 DEF PrintedRight
<1> QED
  BY <1>2, <1>3, <1>6, <1>7, <1>8, <1>9 DEF PrintedRight

\* that copy it to a child,
LEMMA PrintedFork ==
    ASSUME SieveInv, NEW k \in Sieves, Fork(k)
    PROVE  PrintedRight'
<1>0. SieveTypes /\ ChainRight /\ PrintedRight
  BY Parts
<1>1. Sieves = 0 .. Top /\ Top \in Nat /\ k \in Nat /\ \A j \in 1 .. Top : j \in Sieves /\ j # 0
  BY <1>0, Bounds
<1>2. doing[k] = "fork" /\ k + 1 \in Sieves /\ k + 1 # k /\ k + 1 # 0 /\ doing[k + 1] = "none"
  BY <1>0, <1>1, NextPlace DEF Fork, ChainRight, Childless
<1>3. prime[k + 1] = 1
  BY <1>2 DEF SieveInv, FlowRight, PrimeRight, Entering
<1>4. /\ UNCHANGED <<terminal, prime, output>>
      /\ \A j \in Sieves : /\ doing'[j] = IF j = k + 1 THEN "child" ELSE IF j = k THEN "parent" ELSE doing[j]
                           /\ stdout'[j] = IF j = k + 1 THEN stdout[k] ELSE stdout[j]
  BY <1>0, <1>2 DEF Fork, SieveTypes
<1>5. Found' = Found
  BY <1>4 DEF Found
<1>6. ASSUME NEW j \in Sieves, NEW i \in 1 .. Len(stdout'[j]) PROVE stdout'[j][i] \in Found
  BY <1>0, <1>4, <1>6 DEF PrintedRight
<1>7. ASSUME terminal PROVE \A j \in Sieves : stdout'[j] = <<>>
  BY <1>0, <1>4, <1>7 DEF PrintedRight
<1>8. ASSUME NEW j \in 1 .. Top, HasPrime(j)'
      PROVE  \/ \E i \in 1 .. Len(output') : output'[i] = prime'[j]
             \/ doing'[j] \notin Over /\ \E i \in 1 .. Len(stdout'[j]) : stdout'[j][i] = prime'[j]
             \/ doing'[j] = "killed"
  <2>1. HasPrime(j) /\ j # k + 1 /\ j \in Sieves
    BY <1>1, <1>3, <1>4, <1>8 DEF HasPrime
  <2>2. doing[j] \notin Over => doing'[j] \notin Over
    BY <1>4, <2>1 DEF Over
  <2>3. doing[j] = "killed" => doing'[j] = "killed"
    BY <1>2, <1>4, <2>1
  <2>4. stdout'[j] = stdout[j] /\ prime'[j] = prime[j]
    BY <1>4, <2>1
  <2>5. \/ \E i \in 1 .. Len(output) : output[i] = prime[j]
        \/ doing[j] \notin Over /\ \E i \in 1 .. Len(stdout[j]) : stdout[j][i] = prime[j]
        \/ doing[j] = "killed"
    BY <1>0, <2>1 DEF PrintedRight
  <2> QED
    BY <1>4, <2>2, <2>3, <2>4, <2>5
<1> QED
  BY <1>0, <1>4, <1>5, <1>6, <1>7, <1>8 DEF PrintedRight

\* and that find a prime.
LEMMA PrintedFirst ==
    ASSUME SieveInv, NEW k \in Sieves, First(k)
    PROVE  PrintedRight'
<1>0. SieveTypes /\ ChainRight /\ PrintedRight
  BY Parts
<1>1. /\ Sieves = 0 .. Top /\ Top \in Nat /\ k \in Nat /\ \A j \in 1 .. Top : j \in Sieves /\ j # 0
      /\ output \in Seq(Nat) /\ stdout \in [Sieves -> Seq(Nat)] /\ stdout[k] \in Seq(Nat)
  BY <1>0, Bounds, SMTT(30) DEF SieveTypes
<1>2. k # 0 /\ k \in 1 .. Top /\ doing[k] = "first" /\ link[k] # <<>>
  BY <1>0, <1>1 DEF First, ChainRight, Entering
<1>3. PICK t \in [Sieves -> Nat] : FlowRight(t)
  BY DEF SieveInv
<1>4. PICK x : x = Head(link[k])
  OBVIOUS
<1>5. x \in Nat /\ x # 1
  <2>1. x \in Nat /\ t[k] \in Nat /\ t[k] < x /\ 1 <= t[k]
    BY <1>0, <1>2, <1>3, <1>4, Taking
  <2> QED
    BY <2>1
<1>6. /\ prime[k] = 1 /\ (k > 1 => prime[k - 1] # 1)
      /\ \A j \in Sieves : k < j => prime[j] = 1
  BY <1>1, <1>2, <1>3, SMTT(30) DEF FlowRight, PrimeRight, OrderRight, Entering
<1>7. /\ terminal' = terminal
      /\ \A j \in Sieves : /\ doing'[j] = IF j = k THEN "pipe" ELSE doing[j]
                           /\ prime'[j] = IF j = k THEN x ELSE prime[j]
  BY <1>0, <1>4 DEF First, Becomes, SieveTypes
<1>8. /\ Found \subseteq Found' /\ x \in Found'
  <2>1. \A j \in 1 .. Top : prime[j] # 1 => j # k /\ prime'[j] = prime[j]
    BY <1>1, <1>6, <1>7
  <2>2. prime'[k] = x
    BY <1>7
  <2> QED
    BY <1>2, <1>5, <2>1, <2>2 DEF Found
<1>9. \A j \in 1 .. Top : HasPrime(j)' <=> j = k \/ HasPrime(j)
  BY <1>1, <1>2, <1>5, <1>7 DEF HasPrime
<1>10. CASE terminal
  <2>1. UNCHANGED stdout /\ output' = Append(output, x)
    BY <1>4, <1>10 DEF First
  <2>2. /\ Len(output) \in Nat /\ Len(output') = Len(output) + 1 /\ output'[Len(output) + 1] = x
        /\ \A i \in 1 .. Len(output) : output'[i] = output[i]
    BY <1>1, <1>5, <2>1
  <2>3. /\ \A j \in Sieves : stdout[j] = <<>>
        /\ \A j \in 1 .. Top : prime[j] # 1 <=> j <= Len(output)
        /\ \A i \in 1 .. Len(output) : i \in 1 .. Top /\ output[i] = prime[i] /\ output[i] \in Found
    BY <1>0, <1>10 DEF PrintedRight
  <2>4. Len(output) = k - 1
    <3>1. ~(k <= Len(output))
      BY <1>2, <1>6, <2>3
    <3>2. k > 1 => k - 1 <= Len(output)
      <4> HAVE k > 1
      <4>1. k - 1 \in 1 .. Top
        BY <1>1, <1>2
      <4> QED
        BY <1>6, <2>3, <4>1
    <3> QED
      BY <1>1, <1>2, <2>2, <3>1, <3>2
  <2>5. \A j \in 1 .. Top : prime'[j] # 1 <=> j <= Len(output')
    <3> TAKE j \in 1 .. Top
    <3>1. CASE j = k
      BY <1>1, <1>5, <1>7, <2>2, <2>4, <3>1
    <3>2. CASE j # k
      <4>1. prime'[j] = prime[j] /\ (j <= Len(output') <=> j <= Len(output))
        BY <1>1, <1>7, <2>2, <2>4, <3>2, SMTT(30)
      <4> QED
        BY <2>3, <4>1
    <3> QED
      BY <3>1, <3>2
  <2>6. ASSUME NEW i \in 1 .. Len(output')
        PROVE  i \in 1 .. Top /\ output'[i] = prime'[i] /\ output'[i] \in Found'
    <3>1. CASE i = k
      BY <1>2, <1>7, <1>8, <2>2, <2>4, <3>1
    <3>2. CASE i # k
      <4>1. i \in 1 .. Len(output)
        BY <1>1, <2>2, <2>4, <3>2
      <4>2. i \in 1 .. Top /\ i \in Sieves
        BY <1>1, <2>3, <4>1
      <4> QED
        BY <1>7, <1>8, <2>2, <2>3, <3>2, <4>1, <4>2
    <3> QED
      BY <3>1, <3>2
  <2>7. \A j \in Sieves : stdout'[j] = <<>>
    BY <2>1, <2>3
  <2>8. \A j \in Sieves : \A i \in 1 .. Len(stdout'[j]) : stdout'[j][i] \in Found'
    BY <2>7
  <2>9. ASSUME NEW j \in 1 .. Top, HasPrime(j)' PROVE \E i \in 1 .. Len(output') : output'[i] = prime'[j]
    <3>1. j \in 1 .. Len(output')
      BY <2>2, <2>5, <2>9 DEF HasPrime
    <3> QED
      BY <2>6, <3>1
  <2> QED
    BY <1>7, <2>5, <2>6, <2>7, <2>8, <2>9 DEF PrintedRight
<1>11. CASE ~terminal
  <2>1. /\ UNCHANGED output
        /\ \A j \in Sieves : stdout'[j] = IF j = k THEN Append(stdout[j], x) ELSE stdout[j]
    BY <1>1, <1>4, <1>11 DEF First
  <2>2. /\ Len(stdout[k]) \in Nat /\ Len(stdout'[k]) = Len(stdout[k]) + 1 /\ stdout'[k][Len(stdout[k]) + 1] = x
        /\ \A i \in 1 .. Len(stdout[k]) : stdout'[k][i] = stdout[k][i]
    <3>1. stdout'[k] = Append(stdout[k], x)
      BY <2>1
    <3> QED
      BY <1>1, <1>5, <3>1
  <2>3. \A i \in 1 .. Len(output') : output'[i] \in Found'
    BY <1>0, <1>8, <2>1 DEF PrintedRight
  <2>4. ASSUME NEW j \in Sieves, NEW i \in 1 .. Len(stdout'[j]) PROVE stdout'[j][i] \in Found'
    <3>1. CASE j # k
      BY <1>0, <1>8, <2>1, <2>4, <3>1 DEF PrintedRight
    <3>2. CASE j = k /\ i = Len(stdout[k]) + 1
      BY <1>8, <2>2, <3>2
    <3>3. CASE j = k /\ i # Len(stdout[k]) + 1
      <4>1. i \in 1 .. Len(stdout[k])
        BY <2>2, <2>4, <3>3
      <4> QED
        BY <1>0, <1>8, <2>2, <3>3, <4>1 DEF PrintedRight
    <3> QED
      BY <3>1, <3>2, <3>3
  <2>5. ASSUME NEW j \in 1 .. Top, HasPrime(j)'
        PROVE  \/ \E i \in 1 .. Len(output') : output'[i] = prime'[j]
               \/ doing'[j] \notin Over /\ \E i \in 1 .. Len(stdout'[j]) : stdout'[j][i] = prime'[j]
               \/ doing'[j] = "killed"
    <3>1. CASE j = k
      <4>1. Len(stdout[k]) + 1 \in 1 .. Len(stdout'[k])
        BY <2>2
      <4>2. prime'[k] = x /\ doing'[k] = "pipe"
        BY <1>7
      <4> QED
        BY <2>2, <3>1, <4>1, <4>2 DEF Over
    <3>2. CASE j # k
      <4>1. HasPrime(j) /\ j \in Sieves
        BY <1>1, <1>9, <2>5, <3>2
      <4>2. \/ \E i \in 1 .. Len(output) : output[i] = prime[j]
            \/ doing[j] \notin Over /\ \E i \in 1 .. Len(stdout[j]) : stdout[j][i] = prime[j]
            \/ doing[j] = "killed"
        BY <1>0, <4>1 DEF PrintedRight
      <4> QED
        BY <1>7, <2>1, <3>2, <4>1, <4>2
    <3> QED
      BY <3>1, <3>2
  <2> QED
    BY <1>7, <1>11, <2>3, <2>4, <2>5 DEF PrintedRight
<1> QED
  BY <1>10, <1>11

LEMMA PrintedKept ==
    ASSUME SieveInv, NEW k \in Sieves, SieveStep(k)
    PROVE  PrintedRight'
<1>0. SieveTypes /\ PrintedRight /\ doing \in [Sieves -> Childless \cup Parents \cup Over]
  BY Parts DEF SieveTypes
<1>1. \A at : Becomes(k, at) => \A j \in Sieves : doing'[j] = IF j = k THEN at ELSE doing[j]
  BY <1>0 DEF Becomes
<1>2. ASSUME NEW at, Becomes(k, at), UNCHANGED <<terminal, prime, output, stdout>>, at \notin Over, doing[k] \notin Over
      PROVE  PrintedRight'
  BY <1>0, <1>1, <1>2, PrintedMoves DEF Over
<1>3. ASSUME NEW at \in Over, NEW w, Ends(k, at, w), w = stdout[k] \/ (w = <<>> /\ at = "killed"), doing[k] \notin Over
      PROVE  PrintedRight'
  BY <1>0, <1>3, PrintedEnds
<1>4. CASE Pipe(k)
  BY <1>2, <1>4 DEF Pipe, Over
<1>5. CASE Fork(k)
  BY <1>5, PrintedFork
<1>6. CASE CallFails(k)
  BY <1>3, <1>6 DEF CallFails, ExitFails, Over
<1>7. CASE Parent(k)
  BY <1>2, <1>7 DEF Parent, Over
<1>8. CASE Child(k)
  BY <1>2, <1>8 DEF Child, Over
<1>9. CASE Receive(k)
  BY <1>2, <1>9 DEF Receive, Over
<1>10. CASE First(k)
  BY <1>10, PrintedFirst
<1>11. CASE NoFirst(k)
  BY <1>3, <1>11 DEF NoFirst, Exit, Over
<1>12. CASE Read(k)
  <2>1. CASE UNCHANGED doing
    BY <1>0, <1>12, <2>1, PrintedMoves DEF Read
  <2>2. CASE Becomes(k, "write")
    BY <1>2, <1>12, <2>2 DEF Read, Over
  <2> QED
    BY <1>12, <2>1, <2>2 DEF Read
<1>13. CASE Write(k)
  BY <1>2, <1>13 DEF Write, Over
<1>14. CASE WriteKilled(k)
  BY <1>3, <1>14 DEF WriteKilled, Killed, Over
<1>15. CASE CloseEnds(k)
  BY <1>2, <1>15 DEF CloseEnds, Over
<1>16. CASE Wait(k)
  BY <1>3, <1>16 DEF Wait, Exit, Over
<1>17. CASE k = 0 /\ SendNumber
  <2>1. \A j \in 1 .. Top : prime'[j] = prime[j]
    <3>1. \A j \in 1 .. Top : j \in Sieves /\ j # 0
      BY <1>0, Bounds
    <3> QED
      BY <1>0, <1>17, <3>1 DEF SendNumber, SieveTypes
  <2>2. \A j \in Sieves : doing'[j] = IF j = 0 THEN "write" ELSE doing[j]
    BY <1>1, <1>17 DEF SendNumber
  <2> QED
    BY <1>0, <1>17, <2>1, <2>2, PrintedMoves DEF SendNumber, Over
<1> QED
  BY <1>4, <1>5, <1>6, <1>7, <1>8, <1>9, <1>10, <1>11, <1>12, <1>13, <1>14, <1>15, <1>16, <1>17 DEF SieveStep

-----------------------------------------------------------------------------
(* What follows.                                                           *)

\* The program starts right, and goes on so.
LEMMA SieveStarts == SieveInit => SieveInv
<1> SUFFICES ASSUME SieveInit PROVE SieveInv
  OBVIOUS
<1>1. SieveTypes
  <2>1. n \in Ns /\ terminal \in BOOLEAN /\ broken \in BOOLEAN /\ output \in Seq(Nat)
    <3>1. n \in Ns /\ terminal \in BOOLEAN
      BY Zenon DEF SieveInit
    <3>2. broken \in BOOLEAN
      BY Zenon DEF SieveInit
    <3>3. output \in Seq(Nat)
      BY DEF SieveInit
    <3> QED
      BY <3>1, <3>2, <3>3
  <2>2. doing \in [Sieves -> Childless \cup Parents \cup Over]
    BY DEF SieveInit, Childless, Entering
  <2>3. prime \in [Sieves -> Nat] /\ num \in [Sieves -> Nat]
    BY DEF SieveInit
  <2>4. rd \in [Links -> SUBSET Sieves] /\ wr \in [Links -> SUBSET Sieves]
    BY DEF SieveInit
  <2>5. link \in [Links -> Seq(Nat)] /\ stdout \in [Sieves -> Seq(Nat)]
    <3>1. <<>> \in Seq(Nat)
      OBVIOUS
    <3> QED
      BY <3>1, Zenon DEF SieveInit
  <2>6. ASSUME NEW i \in Links PROVE Len(link[i]) <= Room
    <3>1. link[i] = <<>> /\ Room >= 0
      BY SieveAssumption DEF SieveInit
    <3> QED
      BY <3>1, SieveAssumption
  <2> QED
    BY <2>1, <2>2, <2>3, <2>4, <2>5, <2>6 DEF SieveTypes
<1>2. Sieves = 0 .. Top /\ Links = 1 .. Top + 1 /\ Top \in Nat /\ n \in Nat /\ n >= 1 /\ 0 \in Sieves
  BY <1>1, Bounds
<1>3. /\ doing = [k \in Sieves |-> IF k = 0 THEN "pipe" ELSE "none"]
      /\ prime = [k \in Sieves |-> 1] /\ link = [i \in Links |-> <<>>]
      /\ rd = [i \in Links |-> {}] /\ wr = [i \in Links |-> {}]
      /\ stdout = [k \in Sieves |-> <<>>] /\ output = <<>>
  BY DEF SieveInit
<1>4. ChainRight /\ NoneLeft
  <2>1. \A k \in Sieves : k + 1 # 0
    BY <1>2
  <2> QED
    BY <1>2, <1>3, <2>1 DEF ChainRight, NoneLeft, Entering, Childless, Parents
<1>5. ASSUME NEW k \in Sieves PROVE PipeEnds(k)
  BY <1>2, <1>3 DEF PipeEnds, Sending, Reading
<1>6. \A k \in Sieves : ~HasPrime(k)
  BY <1>3 DEF HasPrime
<1>7. PrintedRight
  <2>1. Len(output) = 0 /\ \A k \in Sieves : Len(stdout[k]) = 0
    BY <1>3
  <2>2. \A k \in 1 .. Top : k \in Sieves /\ k > 0 /\ prime[k] = 1
    BY <1>2, <1>3
  <2> QED
    BY <1>2, <1>3, <1>6, <2>1, <2>2 DEF PrintedRight
<1> DEFINE t == [k \in Sieves |-> 1]
<1>8. t \in [Sieves -> Nat] /\ \A k \in Sieves : t[k] = 1
  OBVIOUS
<1> HIDE DEF t
<1>9. OrderRight(t)
  <2>1. \A j \in Sieves : j > 1 => doing[j] = "none"
    BY <1>2, <1>3
  <2> QED
    BY <1>3, <1>8, <2>1 DEF OrderRight
<1>10. ASSUME NEW k \in Sieves PROVE PrimeRight(t, k) /\ WritesRight(t, k)
  BY <1>2, <1>3, <1>6, <1>8 DEF PrimeRight, WritesRight, Writing, Parents
<1>11. ASSUME NEW k \in 1 .. Top PROVE Lists(link[k], InFlow(t, k))
  <2>1. k \in Sieves /\ k - 1 \in Sieves /\ k \in Links
    BY <1>2
  <2>2. InFlow(t, k) = {}
    BY <1>8, <2>1 DEF InFlow
  <2> QED
    BY <1>3, <2>1, <2>2 DEF Lists
<1>12. FlowRight(t)
  BY <1>2, <1>3, <1>8, <1>9, <1>10, <1>11 DEF FlowRight
<1>13. EndedRight(t)
  <2>1. \A k \in Sieves : doing[k] \notin {"killed", "failed", "exited"} /\ ~Finished(k)
    BY <1>3 DEF Finished
  <2>2. \A k \in 1 .. Top : k \in Sieves
    BY <1>2
  <2> QED
    BY <2>1, <2>2 DEF EndedRight
<1> QED
  BY <1>1, <1>4, <1>5, <1>7, <1>8, <1>12, <1>13 DEF SieveInv

LEMMA SieveStutters == SieveInv /\ UNCHANGED sieveVars => SieveInv'
<1> SUFFICES ASSUME SieveInv, UNCHANGED sieveVars PROVE SieveInv'
  OBVIOUS
<1>1. /\ n' = n /\ terminal' = terminal /\ doing' = doing /\ prime' = prime /\ num' = num /\ rd' = rd /\ wr' = wr
      /\ link' = link /\ stdout' = stdout /\ output' = output /\ broken' = broken
  BY DEF sieveVars, ends
<1>2. SieveTypes'
  BY <1>1 DEF SieveInv, SieveTypes
<1>3. ChainRight' /\ NoneLeft'
  BY <1>1 DEF SieveInv, ChainRight, NoneLeft
<1>4. PrintedRight'
  BY <1>1 DEF SieveInv, PrintedRight, Found, HasPrime
<1>5. \A k \in Sieves : PipeEnds(k)'
  BY <1>1 DEF SieveInv, PipeEnds
<1>6. PICK t \in [Sieves -> Nat] : FlowRight(t) /\ EndedRight(t)
  BY DEF SieveInv
<1>7. \A k, x : Sifted(k, x)' = Sifted(k, x)
  BY <1>1 DEF Sifted
<1>8. \A k : InFlow(t, k)' = InFlow(t, k) /\ Writing(k)' = Writing(k) /\ Finished(k)' = Finished(k) /\ HasPrime(k)' = HasPrime(k)
  BY <1>1 DEF InFlow, Writing, Finished, HasPrime, Sifted
<1>9. OrderRight(t)' /\ \A k \in Sieves : PrimeRight(t, k)' /\ WritesRight(t, k)'
  BY <1>1, <1>6, <1>7, <1>8 DEF FlowRight, OrderRight, PrimeRight, WritesRight
<1>10. FlowRight(t)'
  <2>1. \A k \in 1 .. Top : Lists(link[k], InFlow(t, k))'
    BY <1>1, <1>6, <1>8 DEF FlowRight, Lists
  <2> QED
    BY <1>1, <1>6, <1>9, <2>1 DEF FlowRight
<1>11. EndedRight(t)'
  BY <1>1, <1>6, <1>7, <1>8 DEF EndedRight
<1> QED
  BY <1>2, <1>3, <1>4, <1>5, <1>10, <1>11 DEF SieveInv

LEMMA SieveSteps == SieveInv /\ [SieveNext]_sieveVars => SieveInv'
<1> SUFFICES ASSUME SieveInv, [SieveNext]_sieveVars PROVE SieveInv'
  OBVIOUS
<1>1. CASE SieveNext
  <2>1. PICK k \in Sieves : SieveStep(k)
    BY <1>1 DEF SieveNext
  <2>2. PICK t \in [Sieves -> Nat] : FlowRight(t) /\ EndedRight(t)
    BY DEF SieveInv
  <2>3. PICK u \in [Sieves -> Nat] : FlowRight(u)' /\ EndedRight(u)'
    BY <2>1, <2>2, FlowAndEndKept
  <2>4. SieveTypes' /\ ChainRight' /\ NoneLeft' /\ PrintedRight'
    BY <2>1, TypesKept, ChainKept, PrintedKept
  <2>5. \A j \in Sieves : PipeEnds(j)'
    BY <2>1, PipeEndsKept
  <2> QED
    BY <2>3, <2>4, <2>5 DEF SieveInv
<1>2. CASE UNCHANGED sieveVars
  BY <1>2, SieveStutters
<1> QED
  BY <1>1, <1>2

\* The primes found, up to one of them, are the primes up to it.
LEMMA FoundArePrimes ==
    ASSUME SieveTypes, NEW t, FlowRight(t), NEW k \in Sieves, HasPrime(k)
    PROVE  /\ k \in 1 .. Top /\ prime[k] \in PrimesTo(n)
           /\ \A j \in 1 .. k - 1 : prime[j] \in PrimesTo(prime[k] - 1)
           /\ \A y \in PrimesTo(prime[k] - 1) : \E j \in 1 .. k - 1 : y = prime[j]
<1>1. Sieves = 0 .. Top /\ Top \in Nat /\ n \in Nat
  BY Bounds
<1>2. k # 0 /\ k \in 1 .. Top /\ k \in Nat /\ prime[k] \in Nat /\ t[k] \in Nat /\ prime[k] # 1
  BY <1>1, FlowParts DEF HasPrime, SieveTypes
<1>3. \A j \in Sieves : PrimeRight(t, j)
  BY FlowParts
<1>4. /\ prime[k] >= 1 /\ prime[k] <= t[k] /\ t[k] <= n /\ Prime(prime[k])
      /\ \A y \in 2 .. prime[k] : ~Sifted(k, y)
  BY <1>3 DEF PrimeRight
<1>5. prime[k] \in PrimesTo(n)
  BY <1>1, <1>2, <1>4 DEF PrimesTo
<1>6. ASSUME NEW j \in 1 .. k
      PROVE  /\ j \in Sieves /\ prime[j] \in Nat /\ prime[j] > 1 /\ Prime(prime[j])
             /\ j # k => prime[j] < prime[k]
  <2>1. j \in Sieves /\ 0 < j /\ j # 0 /\ (j < k \/ j = k)
    BY <1>1, <1>2
  <2>2. prime[j] \in Nat /\ PrimeRight(t, j)
    BY <1>3, <2>1 DEF SieveTypes
  <2>3. prime[j] # 1 /\ (j # k => prime[j] < prime[k])
    BY <1>2, <2>1, FlowParts DEF OrderRight
  <2>4. Prime(prime[j])
    BY <2>1, <2>2, <2>3 DEF PrimeRight, HasPrime
  <2> QED
    BY <2>1, <2>2, <2>3, <2>4 DEF Prime
<1>7. ASSUME NEW j \in 1 .. k - 1 PROVE prime[j] \in PrimesTo(prime[k] - 1)
  <2>1. j \in 1 .. k /\ j # k
    BY <1>2
  <2>2. prime[j] \in 2 .. prime[k] - 1 /\ Prime(prime[j])
    BY <1>2, <1>6, <2>1
  <2> QED
    BY <2>2 DEF PrimesTo
<1>8. ASSUME NEW y \in PrimesTo(prime[k] - 1) PROVE \E j \in 1 .. k - 1 : y = prime[j]
  <2>1. y \in 2 .. prime[k] - 1 /\ Prime(y)
    BY DEF PrimesTo
  <2>2. y \in 2 .. prime[k] /\ y \in Nat /\ y > 0
    BY <1>2, <2>1
  <2>3. PICK j \in 1 .. k : y % prime[j] = 0
    BY <1>4, <2>2 DEF Sifted
  <2>4. prime[j] \in Nat /\ prime[j] > 1 /\ prime[j] > 0
    BY <1>6
  <2>5. prime[j] <= y
    BY <2>2, <2>3, <2>4, DivisorBelow
  <2>6. prime[j] = y
    <3>1. prime[j] \notin 2 .. y - 1
      BY <2>1, <2>3 DEF Prime
    <3> QED
      BY <2>2, <2>4, <2>5, <3>1
  <2>7. j # k
    BY <1>2, <2>1, <2>6
  <2>8. j \in 1 .. k - 1
    BY <1>2, <2>7
  <2> QED
    BY <2>6, <2>8
<1> QED
  BY <1>2, <1>5, <1>7, <1>8

LEMMA OrderFollows == SieveInv => PrimesInOrder
<1> SUFFICES ASSUME SieveInv, terminal, NEW i \in DOMAIN output
             PROVE  /\ output[i] \in PrimesTo(n)
                    /\ {output[j] : j \in 1 .. i - 1} = PrimesTo(output[i] - 1)
  BY DEF PrimesInOrder
<1>1. /\ SieveTypes /\ PrintedRight /\ output \in Seq(Nat) /\ Sieves = 0 .. Top /\ Top \in Nat
  BY Parts, Bounds DEF SieveTypes
<1>2. Len(output) \in Nat /\ i \in 1 .. Len(output)
  BY <1>1
<1>3. /\ \A k \in 1 .. Top : prime[k] # 1 <=> k <= Len(output)
      /\ \A j \in 1 .. Len(output) : j \in 1 .. Top /\ output[j] = prime[j]
  BY <1>1 DEF PrintedRight
<1>4. i \in 1 .. Top /\ i \in Sieves /\ output[i] = prime[i] /\ HasPrime(i)
  BY <1>1, <1>2, <1>3 DEF HasPrime
<1>5. \A j \in 1 .. i - 1 : output[j] = prime[j]
  BY <1>2, <1>3
<1>6. PICK t \in [Sieves -> Nat] : FlowRight(t)
  BY DEF SieveInv
<1>7. /\ prime[i] \in PrimesTo(n)
      /\ \A j \in 1 .. i - 1 : prime[j] \in PrimesTo(prime[i] - 1)
      /\ \A y \in PrimesTo(prime[i] - 1) : \E j \in 1 .. i - 1 : y = prime[j]
  BY <1>1, <1>4, <1>6, FoundArePrimes
<1> QED
  BY <1>4, <1>5, <1>7

LEMMA AllFollow == SieveInv => AllPrimes
<1> SUFFICES ASSUME SieveInv, doing[0] = "exited", ~broken PROVE ToSet(output) = PrimesTo(n)
  BY DEF AllPrimes
<1>1. SieveTypes /\ PrintedRight /\ output \in Seq(Nat)
  BY Parts DEF SieveTypes
<1>2. Sieves = 0 .. Top /\ Top \in Nat /\ n \in Nat /\ n >= 1 /\ n <= Top /\ 0 \in Sieves
  BY <1>1, Bounds
<1>3. PICK t \in [Sieves -> Nat] : FlowRight(t) /\ EndedRight(t)
  BY DEF SieveInv
<1>4. \A v : v \in ToSet(output) <=> \E i \in 1 .. Len(output) : output[i] = v
  BY <1>1 DEF ToSet
<1>5. ASSUME NEW v \in ToSet(output) PROVE v \in PrimesTo(n)
  <2>1. v \in Found
    BY <1>1, <1>4 DEF PrintedRight
  <2>2. PICK k \in 1 .. Top : v = prime[k] /\ prime[k] # 1
    BY <2>1 DEF Found
  <2>3. k \in Sieves /\ HasPrime(k)
    BY <1>2, <2>2 DEF HasPrime
  <2> QED
    BY <1>1, <1>3, <2>2, <2>3, FoundArePrimes
\* The first process without a prime: those before it have found all.
<1>6. PICK k \in 1 .. Top : prime[k] = 1 /\ \A j \in 1 .. Top : prime[j] = 1 => k <= j
  <2> DEFINE S == {j \in 1 .. Top : prime[j] = 1}
  <2>1. Top \in Sieves /\ Top \in 1 .. Top
    BY <1>2
  <2>2. ~HasPrime(Top)
    <3>1. Top + 1 \notin Sieves
      BY <1>2
    <3> QED
      BY <2>1, <3>1, NextPlace
  <2>3. Top \in S
    BY <1>2, <2>1, <2>2 DEF HasPrime
  <2>4. S \subseteq Nat /\ S # {}
    BY <2>3
  <2>5. PICK k \in S : \A j \in S : k <= j
    <3> HIDE DEF S
    <3> QED BY <2>4, LeastExists
  <2> QED
    BY <2>5
<1>7. \A j \in 1 .. k - 1 : j \in Sieves /\ HasPrime(j) /\ j \in 1 .. Top
  BY <1>2, <1>6 DEF HasPrime
\* All of them have ended.
<1>8. ASSUME NEW j \in 0 .. k PROVE doing[j] = "exited"
  <2> DEFINE S == {i \in 0 .. k : doing[i] # "exited"}
  <2> SUFFICES ASSUME doing[j] # "exited" PROVE FALSE
    OBVIOUS
  <2>1. S \subseteq Nat /\ S # {}
    OBVIOUS
  <2>2. PICK l \in S : \A i \in S : l <= i
    <3> HIDE DEF S
    <3> QED BY <2>1, LeastExists
  <2>3. l \in 0 .. k /\ doing[l] # "exited" /\ l # 0 /\ l \in Nat /\ k \in Nat
    BY <1>2
  <2>4. l - 1 \in 0 .. k - 1 /\ l - 1 \in 0 .. k /\ ~(l <= l - 1)
    BY <2>3
  <2>5. doing[l - 1] = "exited"
    BY <2>2, <2>4
  <2>6. l - 1 \in Sieves /\ (l - 1) + 1 = l /\ l \in Sieves /\ (l - 1 = 0 \/ HasPrime(l - 1))
    BY <1>2, <1>7, <2>3, <2>4
  <2>7. doing[l] = "exited"
    BY <1>3, <2>5, <2>6 DEF EndedRight
  <2> QED
    BY <2>3, <2>7
<1>9. ASSUME NEW y \in PrimesTo(n) PROVE y \in ToSet(output)
  <2>1. y \in 2 .. n /\ y \in Nat /\ y > 0 /\ Prime(y)
    BY <1>2 DEF PrimesTo
  <2>2. k \in Sieves /\ k # 0 /\ k \in Nat /\ doing[k] = "exited"
    BY <1>2, <1>8
  <2>3. t[k] = 1
    <3>1. PrimeRight(t, k)
      BY <1>3, <2>2, FlowParts
    <3> QED
      BY <1>6, <2>2, <3>1 DEF PrimeRight
  <2>4. ~Sifted(k - 1, y)
    <3>1. Finished(k)
      BY <2>2 DEF Finished
    <3>2. Sifted(k - 1, y) => y <= 1
      BY <1>3, <2>1, <2>2, <2>3, <3>1 DEF EndedRight
    <3> QED
      BY <1>2, <2>1, <3>2
  <2>5. PICK j \in 1 .. k - 1 : y % prime[j] = 0
    BY <2>4 DEF Sifted
  <2>6. j \in Sieves /\ HasPrime(j) /\ j \in 1 .. Top /\ j \in 0 .. k
    BY <1>7, <2>2
  <2>7. prime[j] \in PrimesTo(n)
    BY <1>1, <1>3, <2>6, FoundArePrimes
  <2>8. prime[j] \in Nat /\ prime[j] > 1 /\ prime[j] > 0
    BY <1>2, <2>7 DEF PrimesTo
  <2>9. prime[j] = y
    <3>1. prime[j] <= y
      BY <2>1, <2>5, <2>8, DivisorBelow
    <3>2. prime[j] \notin 2 .. y - 1
      BY <2>1, <2>5 DEF Prime
    <3> QED
      BY <2>1, <2>8, <3>1, <3>2
  <2>10. doing[j] = "exited"
    BY <1>8, <2>6
  <2>11. \E i \in 1 .. Len(output) : output[i] = prime[j]
    BY <1>1, <2>6, <2>10 DEF PrintedRight, Over
  <2> QED
    BY <1>4, <2>9, <2>11
<1> QED
  BY <1>5, <1>9

LEMMA FewEndsFollow == SieveInv => FewEnds
<1> SUFFICES ASSUME SieveInv, NEW k \in Sieves
             PROVE  Cardinality({i \in Links : k \in rd[i]}) + Cardinality({i \in Links : k \in wr[i]}) <= 3
  BY DEF FewEnds
<1>1. PipeEnds(k)
  BY Parts
<1>2. PICK a : {i \in Links : k \in rd[i]} \subseteq {k, a}
  <2>1. CASE doing[k] = "child"
    <3>1. \A i \in Links : k \in rd[i] => i \in {k, k - 1}
      BY <1>1, <2>1 DEF PipeEnds, MayRead
    <3> QED
      BY <3>1
  <2>2. CASE doing[k] # "child"
    <3>1. \A i \in Links : k \in rd[i] => i \in {k, k + 1}
      BY <1>1, <2>2 DEF PipeEnds, MayRead
    <3> QED
      BY <3>1
  <2> QED
    BY <2>1, <2>2
<1>3. PICK b : {i \in Links : k \in wr[i]} \subseteq {b}
  <2>1. CASE doing[k] \in Sending
    <3>1. \A i \in Links : k \in wr[i] => i \in {k + 1}
      BY <1>1, <2>1 DEF PipeEnds, MayWrite, Sending
    <3> QED
      BY <3>1
  <2>2. CASE doing[k] \notin Sending
    <3>1. \A i \in Links : k \in wr[i] => i \in {k}
      BY <1>1, <2>2 DEF PipeEnds, MayWrite
    <3> QED
      BY <3>1
  <2> QED
    BY <2>1, <2>2
<1>4. ASSUME NEW c, NEW d, NEW S, S \subseteq {c, d} PROVE Cardinality(S) \in Nat /\ Cardinality(S) <= 2
  <2>1. IsFiniteSet({c}) /\ Cardinality({c}) = 1
    BY FS_Singleton
  <2>2. {c, d} = {c} \cup {d}
    OBVIOUS
  <2>3. IsFiniteSet({c, d}) /\ Cardinality({c, d}) <= 2 /\ Cardinality({c, d}) \in Nat
    BY <2>1, <2>2, FS_AddElement, FS_CardinalityType
  <2> QED
    BY <1>4, <2>3, FS_Subset, FS_CardinalityType
<1>5. ASSUME NEW c, NEW S, S \subseteq {c} PROVE Cardinality(S) \in Nat /\ Cardinality(S) <= 1
  <2>1. IsFiniteSet({c}) /\ Cardinality({c}) = 1
    BY FS_Singleton
  <2> QED
    BY <1>5, <2>1, FS_Subset, FS_CardinalityType
<1> DEFINE reads == {i \in Links : k \in rd[i]}
           writes == {i \in Links : k \in wr[i]}
<1>6. Cardinality(reads) \in Nat /\ Cardinality(reads) <= 2
  <2>1. reads \subseteq {k, a}
    BY <1>2
  <2> QED
    BY <1>4, <2>1
<1>7. Cardinality(writes) \in Nat /\ Cardinality(writes) <= 1
  <2>1. writes \subseteq {b}
    BY <1>3
  <2> QED
    BY <1>5, <2>1
<1> HIDE DEF reads, writes
<1>8. Cardinality(reads) + Cardinality(writes) <= 3
  BY <1>6, <1>7
<1> QED
  BY <1>8 DEF reads, writes

LEMMA SieveIsRight == SieveInv => PrimesFound
<1> SUFFICES ASSUME SieveInv PROVE PrimesFound
  OBVIOUS
<1>1. SieveTypes /\ NoneLeft
  BY Parts
<1>2. SieveTypeOK
  BY <1>1 DEF SieveTypes, SieveTypeOK, Childless, Entering, Parents
<1> QED
  BY <1>1, <1>2, OrderFollows, AllFollow, FewEndsFollow DEF PrimesFound

\* Whatever the number asked for and the room in pipes, however the processes
\* run and whichever pipe() or fork() fails: what comes out on a terminal are
\* the primes in order, all of them have come out if nothing failed, a process
\* that ends leaves no descendant behind and none has more than three ends of
\* pipes open (receive_numbers, send_numbers and send_primes_candidates).
THEOREM SieveFindsPrimes == SieveSpec => []PrimesFound
<1>1. SieveSpec => []SieveInv
  BY SieveStarts, SieveSteps, PTL DEF SieveSpec
<1> QED
  BY <1>1, SieveIsRight, PTL

-----------------------------------------------------------------------------
(* Either of the two.                                                      *)

LEMMA LineStutters == LineInv /\ UNCHANGED vars => LineInv'
BY LineSteps

\* The two programs together, one of which runs while the other stays as it
\* was: each is right (exec_cmd, receive_numbers).
THEOREM PipesStayRight == PipesSpec => []PipesRight
<1> DEFINE Both == LineInv /\ SieveInv
<1>1. PipesInit => Both
  BY LineStarts, SieveStarts DEF PipesInit
<1>2. Both /\ [PipesNext]_<<vars, sieveVars, program>> => Both'
  <2> SUFFICES ASSUME LineInv, SieveInv, [PipesNext]_<<vars, sieveVars, program>>
               PROVE  LineInv' /\ SieveInv'
    OBVIOUS
  <2>1. CASE Next /\ UNCHANGED sieveVars
    BY <2>1, LineSteps, SieveStutters
  <2>2. CASE SieveNext /\ UNCHANGED vars
    BY <2>2, LineStutters, SieveSteps
  <2>3. CASE UNCHANGED vars /\ UNCHANGED sieveVars
    BY <2>3, LineStutters, SieveStutters
  <2> QED
    BY <2>1, <2>2, <2>3 DEF PipesNext
<1>3. Both => PipesRight
  BY LineLeavesNothing, SieveIsRight DEF PipesRight
<1> QED
  BY <1>1, <1>2, <1>3, PTL DEF PipesSpec

================================================================================
