------------------------------- MODULE ShellPipe -------------------------------
(***************************************************************************)
(* A command line with pipes, as exec_cmd() runs it.  For a | b | c the    *)
(* child of the shell becomes manager 1, which makes a pipe and forks a    *)
(* and manager 2, which makes a pipe and forks b and c.  A pipe ends for   *)
(* its reader when every write end is closed, and for its writer when      *)
(* every read end is, so the ends that managers and children hold on the   *)
(* way decide whether the line ever ends.                                  *)
(*                                                                         *)
(* Commands read, write and exit as they like, or fill their output for    *)
(* ever, or read to the end.  fork() may fail.                             *)
(***************************************************************************)
EXTENDS Naturals, FiniteSets

CONSTANTS N,         \* commands of the line
          Capacity,  \* of a pipe, in writes
          Kind,      \* what each command does: "any", "writes", "reads"
          MayFail    \* whether fork() may

ASSUME PipeAssumption == /\ N \in Nat \ {0, 1} /\ Capacity \in Nat \ {0}
                         /\ Kind \in [1 .. N -> {"any", "writes", "reads"}]
                         /\ MayFail \in BOOLEAN

Pipes == 1 .. N - 1                     \* pipe i is made by manager i
M(i) == <<"manager", i>>
C(i) == <<"command", i>>
Managers == {M(i) : i \in Pipes}
Commands == {C(i) : i \in 1 .. N}
Procs == Managers \cup Commands

\* What manager i forks second: the next manager, or the last command.
Right(i) == IF i = N - 1 THEN C(N) ELSE M(i + 1)

VARIABLES
    pc,      \* of each process
    failed,  \* the managers whose first or second fork() has failed
    readers, writers,  \* who has the ends of each pipe open
    data     \* what is in it

vars == <<pc, failed, readers, writers, data>>

Done == "zombie"
Gone(p) == pc[p] \in {"none", Done}
Leaves(ends, p) == [i \in Pipes |-> ends[i] \ {p}]
Joins(ends, p, q) == [i \in Pipes |-> IF p \in ends[i] THEN ends[i] \cup {q} ELSE ends[i]]

\* The child of the shell.
Init == /\ pc = [p \in Procs |-> IF p = M(1) THEN "pipe" ELSE "none"]
        /\ failed = {}
        /\ readers = [i \in Pipes |-> {}] /\ writers = [i \in Pipes |-> {}]
        /\ data = [i \in Pipes |-> 0]

-----------------------------------------------------------------------------
(* Manager i: exec_cmd(), case PIPE.                                       *)

\* The end of a process closes what it has open.
Exits(p) == /\ pc' = [pc EXCEPT ![p] = Done]
            /\ readers' = Leaves(readers, p) /\ writers' = Leaves(writers, p)
            /\ UNCHANGED <<failed, data>>

MakePipe(i) == /\ pc[M(i)] = "pipe"
               /\ readers' = [readers EXCEPT ![i] = {M(i)}]
               /\ writers' = [writers EXCEPT ![i] = {M(i)}]
               /\ pc' = [pc EXCEPT ![M(i)] = "left"]
               /\ UNCHANGED <<failed, data>>

\* Without a pipe it ends there.
PipeFails(i) == MayFail /\ pc[M(i)] = "pipe" /\ Exits(M(i))

\* fork(): the child has every end its parent has.
Forks(i, at, child, next) ==
    /\ pc[M(i)] = at
    /\ pc' = [pc EXCEPT ![M(i)] = next, ![child] = "forked"]
    /\ readers' = Joins(readers, M(i), child)
    /\ writers' = Joins(writers, M(i), child)
    /\ UNCHANGED <<failed, data>>

ForkFails(i, at, next) == /\ MayFail /\ pc[M(i)] = at
                          /\ pc' = [pc EXCEPT ![M(i)] = next]
                          /\ failed' = failed \cup {<<i, at>>}
                          /\ UNCHANGED <<readers, writers, data>>

ForkLeft(i) == Forks(i, "left", C(i), "right") \/ ForkFails(i, "left", "right")
ForkRight(i) == Forks(i, "right", Right(i), "close") \/ ForkFails(i, "right", "close")

\* Mutant of Close: the manager keeps the write end.
CloseReadOnly(i) == /\ pc[M(i)] = "close"
                    /\ readers' = [readers EXCEPT ![i] = @ \ {M(i)}]
                    /\ pc' = [pc EXCEPT ![M(i)] = "wait left"]
                    /\ UNCHANGED <<failed, writers, data>>

\* Both ends of its own pipe; its standard input stays.
Close(i) == /\ pc[M(i)] = "close"
            /\ readers' = [readers EXCEPT ![i] = @ \ {M(i)}]
            /\ writers' = [writers EXCEPT ![i] = @ \ {M(i)}]
            /\ pc' = [pc EXCEPT ![M(i)] = "wait left"]
            /\ UNCHANGED <<failed, data>>

\* waitpid() of a child, or of any (-1) if its fork() failed: at most the
\* other one.  When there is none left it fails and that is all, as it does
\* when the SIGCHLD handler, which managers inherit, has reaped the child.
Reaps(i, child, next) == IF pc[child] = Done THEN [pc EXCEPT ![M(i)] = next, ![child] = "none"]
                                            ELSE [pc EXCEPT ![M(i)] = next]

WaitLeft(i) == LET child == IF <<i, "left">> \in failed THEN Right(i) ELSE C(i) IN
               /\ pc[M(i)] = "wait left" /\ Gone(child)
               /\ pc' = Reaps(i, child, "wait right")
               /\ UNCHANGED <<failed, readers, writers, data>>

WaitRight(i) == LET child == IF <<i, "right">> \in failed THEN C(i) ELSE Right(i) IN
                /\ pc[M(i)] = "wait right" /\ Gone(child)
                /\ pc' = Reaps(i, child, "exit")
                /\ UNCHANGED <<failed, readers, writers, data>>

ManagerExit(i) == pc[M(i)] = "exit" /\ Exits(M(i))

-----------------------------------------------------------------------------
(* The children of manager i, before they are what they are to be.         *)

\* Mutant of Hijo1: the left child keeps the read end of the pipe it writes.
Hijo1KeepsRead(i) == /\ pc[C(i)] = "forked"
                     /\ UNCHANGED readers
                     /\ pc' = [pc EXCEPT ![C(i)] = "runs"]
                     /\ UNCHANGED <<failed, writers, data>>

\* The left one writes the pipe, and reads the one its manager reads.
Hijo1(i) == /\ pc[C(i)] = "forked"
            /\ readers' = [readers EXCEPT ![i] = @ \ {C(i)}]
            /\ pc' = [pc EXCEPT ![C(i)] = "runs"]
            /\ UNCHANGED <<failed, writers, data>>

\* The right one reads it, in place of what its manager reads.
Hijo2(i) == LET child == Right(i) IN
            /\ pc[child] = "forked"
            /\ writers' = [writers EXCEPT ![i] = @ \ {child}]
            /\ readers' = [j \in Pipes |-> IF j = i THEN readers[j] ELSE readers[j] \ {child}]
            /\ pc' = [pc EXCEPT ![child] = IF child \in Managers THEN "pipe" ELSE "runs"]
            /\ UNCHANGED <<failed, data>>

-----------------------------------------------------------------------------
(* Commands: command i reads pipe i - 1 and writes pipe i.                 *)

Runs(i) == pc[C(i)] = "runs"

CommandWrite(i) == /\ Runs(i) /\ i < N /\ Kind[i] # "reads"
                   /\ readers[i] # {} /\ data[i] < Capacity
                   /\ data' = [data EXCEPT ![i] = @ + 1]
                   /\ UNCHANGED <<pc, failed, readers, writers>>

CommandRead(i) == /\ Runs(i) /\ i > 1 /\ Kind[i] # "writes"
                  /\ data[i - 1] > 0
                  /\ data' = [data EXCEPT ![i - 1] = @ - 1]
                  /\ UNCHANGED <<pc, failed, readers, writers>>

\* SIGPIPE, the end of the input, or as it likes.
CommandExit(i) == /\ Runs(i)
                  /\ \/ i < N /\ Kind[i] # "reads" /\ readers[i] = {}
                     \/ i > 1 /\ Kind[i] # "writes" /\ data[i - 1] = 0 /\ writers[i - 1] = {}
                     \/ Kind[i] = "any" \/ (i = 1 /\ Kind[i] = "reads") \/ (i = N /\ Kind[i] = "writes")
                  /\ Exits(C(i))

Manager(i) == \/ MakePipe(i) \/ PipeFails(i)
              \/ ForkLeft(i) \/ ForkRight(i) \/ Close(i)
              \/ WaitLeft(i) \/ WaitRight(i) \/ ManagerExit(i)

Ended == pc[M(1)] = Done /\ UNCHANGED vars

Next == \/ \E i \in Pipes : Manager(i) \/ Hijo1(i) \/ Hijo2(i)
        \/ \E i \in 1 .. N : CommandWrite(i) \/ CommandRead(i) \/ CommandExit(i)
        \/ Ended

Fairness == /\ \A i \in Pipes : WF_vars(Manager(i)) /\ WF_vars(Hijo1(i)) /\ WF_vars(Hijo2(i))
            /\ \A i \in 1 .. N : WF_vars(CommandRead(i)) /\ WF_vars(CommandExit(i))

Spec == Init /\ [][Next]_vars /\ Fairness

-----------------------------------------------------------------------------
\* Every line ends: its readers see the end of their input and its writers
\* that nobody reads, because nobody else holds an end that keeps them
\* waiting (exec_cmd() closes them in the manager and in both children).
LineEnds == <>(pc[M(1)] = Done)

\* When the child of the shell ends, so has every process of the line (the
\* tests pipes_wait_left_child and pipes_wait_right_child).
AllWaitedFor == pc[M(1)] = Done => \A p \in Procs \ {M(1)} : pc[p] = "none"

\* A running command has its own ends open and no others (the test
\* pipes_do_not_leak_fds).
NoLeaks == \A i \in 1 .. N : Runs(i) =>
    /\ {j \in Pipes : C(i) \in writers[j]} = {i} \cap Pipes
    /\ {j \in Pipes : C(i) \in readers[j]} \subseteq {i - 1}

\* Nothing is left over: no end of a pipe in a command that runs, no child of
\* the line when the shell is told that it has ended.
NothingLeft == AllWaitedFor /\ NoLeaks
=============================================================================
