-------------------------------- MODULE MCPipes --------------------------------
(***************************************************************************)
(* Processes that are joined by pipes, for TLC: a line of the shell, and   *)
(* the sieve of Fork/primes.c.  A behaviour runs one of the two; the other *)
(* one stays as it is at the start.                                        *)
(***************************************************************************)
EXTENDS ShellPipe, Sieve

VARIABLE program  \* which of the two runs

YesHeadCatCat == <<"writes", "any", "reads", "reads">>

PipesInit == /\ Init /\ SieveInit
             /\ program \in {"line", "primes"}
             /\ program = "line" => n = Min(Ns) /\ terminal

PipesNext == /\ UNCHANGED program
             /\ \/ program = "line" /\ Next /\ UNCHANGED sieveVars
                \/ program = "primes" /\ SieveNext /\ UNCHANGED vars

\* The fairness of both: that of the one which does not run asks for nothing.
PipesSpec == /\ PipesInit /\ [][PipesNext]_<<vars, sieveVars, program>>
             /\ program = "line" => Fairness
             /\ program = "primes" => \A k \in Sieves : WF_sieveVars(SieveStep(k))

-----------------------------------------------------------------------------
\* No process holds an end of a pipe that it has no use for, none is left
\* behind, and what comes out is what was asked for (exec.c, Fork/primes.c).
PipesRight == /\ program = "line" => NothingLeft
              /\ program = "primes" => PrimesFound

\* Every line of the shell ends (exec_cmd).
EveryLineEnds == program = "line" => LineEnds

\* Every sieve ends, whichever call fails (receive_numbers).
EverySieveEnds == program = "primes" => SieveEnds
=============================================================================
