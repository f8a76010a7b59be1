--------------------------------- MODULE Xargs ---------------------------------
(***************************************************************************)
(* Fork/xargs.c: the command of the first argument is run on the lines of  *)
(* the input, NARGS at a time, with one array of arguments for all runs.   *)
(***************************************************************************)
EXTENDS Naturals, SequencesExt

NARGS == 3
COMMAND == "command"
NULL == "NULL"

Start == [buffer |-> [i \in 0 .. NARGS + 1 |-> IF i = 0 THEN COMMAND ELSE NULL],
          num_args |-> 0, runs |-> <<>>, exited |-> FALSE]

\* What execvp() makes of the array: the arguments up to the null.
Argv(buffer) == LET null == Min({i \in DOMAIN buffer : buffer[i] = NULL})
                IN  [i \in 1 .. null |-> buffer[i - 1]]

\* execute_command(), in which the fork() number `fails` fails.
execute_command(s, fails) ==
    IF Len(s.runs) + 1 = fails THEN [s EXCEPT !.exited = TRUE]
                               ELSE [s EXCEPT !.runs = Append(@, Argv(s.buffer))]

\* One line of process_input(): getline() keeps the newline, which the last
\* line of the input need not have.
Taken(s, read, fails) ==
    LET line == IF Last(read) = "NEWLINE" THEN Front(read) ELSE read
        filled == [s EXCEPT !.buffer[s.num_args + 1] = line, !.num_args = @ + 1]
    IN  IF s.exited THEN s
        ELSE IF filled.num_args = NARGS THEN [execute_command(filled, fails) EXCEPT !.num_args = 0]
        ELSE filled

process_input(reads, fails) ==
    LET s == FoldLeft(LAMBDA t, read : Taken(t, read, fails), Start, reads)
    IN  IF s.exited \/ s.num_args = 0 THEN s
        ELSE execute_command([s EXCEPT !.buffer[s.num_args + 1] = NULL], fails)

-----------------------------------------------------------------------------
\* Each line is an argument of one run, in order and without what a run before
\* left in the array; all runs but the last have NARGS of them; and none runs
\* after a fork() that failed.
RunsOnLines(lines, newline, fails) ==
    LET reads == [i \in DOMAIN lines |-> IF i < Len(lines) \/ newline THEN Append(lines[i], "NEWLINE") ELSE lines[i]]
        s == process_input(reads, fails)
        groups == (Len(lines) + NARGS - 1) \div NARGS
        group(g) == SubSeq(lines, (g - 1) * NARGS + 1, Min({g * NARGS, Len(lines)}))
    IN  /\ s.runs = [g \in 1 .. Min({groups, fails - 1}) |-> <<COMMAND>> \o group(g)]
        /\ s.exited <=> fails <= groups
===============================================================================
