-------------------------------- MODULE Sieve ---------------------------------
(***************************************************************************)
(* Fork/primes.c: process 0 writes the numbers from 2 to n into pipe 1;    *)
(* process k, the child of process k - 1, prints the first number of pipe  *)
(* k and sends those it does not divide through pipe k + 1 to its child,   *)
(* until there are none.  Processes end because their input does, so the   *)
(* ends of pipes that a child inherits decide whether the program ends.    *)
(*                                                                         *)
(* Standard output is a terminal, or a file or pipe, for which printf()    *)
(* collects what is written until the process ends; fork() then copies     *)
(* what was collected.  pipe() and fork() may fail, and SIGPIPE kills who  *)
(* writes a pipe that has no reader.                                       *)
(***************************************************************************)
EXTENDS Naturals, FiniteSetsExt, SequencesExt

CONSTANTS Ns,        \* values of argv[1]
          Room       \* of a pipe, in numbers

ASSUME SieveAssumption == IsFiniteSet(Ns) /\ Ns \subseteq Nat \ {0} /\ Room \in Nat \ {0}

Sieves == 0 .. Max(Ns)
Links == 1 .. Max(Ns) + 1

VARIABLES
    n,         \* argv[1]
    terminal,  \* whether standard output is one
    doing,     \* where each process is
    prime,     \* its prime; of process 0, the last number sent
    num,       \* the number it is to write
    rd, wr,    \* who has the ends of each pipe open
    link,      \* what is in it
    stdout,    \* what a process has printed and not yet written
    output,    \* what was written
    broken     \* whether a call has failed

ends == <<rd, wr>>
sieveVars == <<n, terminal, doing, prime, num, ends, link, stdout, output, broken>>

Becomes(k, at) == doing' = [doing EXCEPT ![k] = at]
Opened(e, i, k) == [e EXCEPT ![i] = @ \cup {k}]
Closed(e, i, k) == [e EXCEPT ![i] = @ \ {k}]

SieveInit == /\ n \in Ns /\ terminal \in BOOLEAN
             /\ doing = [k \in Sieves |-> IF k = 0 THEN "pipe" ELSE "none"]
             /\ prime = [k \in Sieves |-> 1] /\ num = [k \in Sieves |-> 0]
             /\ rd = [i \in Links |-> {}] /\ wr = [i \in Links |-> {}]
             /\ link = [i \in Links |-> <<>>]
             /\ stdout = [k \in Sieves |-> <<>>] /\ output = <<>>
             /\ broken = FALSE

-----------------------------------------------------------------------------
\* exit() writes what printf() has collected, a signal does not; both close.
Ends(k, at, written) ==
    /\ Becomes(k, at)
    /\ rd' = [i \in Links |-> rd[i] \ {k}]
    /\ wr' = [i \in Links |-> wr[i] \ {k}]
    /\ output' = output \o written
    /\ stdout' = [stdout EXCEPT ![k] = <<>>]
    /\ UNCHANGED <<n, terminal, prime, num, link>>

Exit(k) == Ends(k, "exited", stdout[k]) /\ UNCHANGED broken
ExitFails(k) == Ends(k, "failed", stdout[k]) /\ broken' = TRUE
Killed(k) == Ends(k, "killed", <<>>) /\ UNCHANGED broken

-----------------------------------------------------------------------------
(* main() and receive_numbers(), up to the fork().                         *)

Pipe(k) == /\ doing[k] = "pipe"
           /\ rd' = Opened(rd, k + 1, k)
           /\ wr' = Opened(wr, k + 1, k)
           /\ Becomes(k, "fork")
           /\ UNCHANGED <<n, terminal, prime, num, link, stdout, output, broken>>

\* pipe() or fork() fails.
CallFails(k) == doing[k] \in {"pipe", "fork"} /\ ExitFails(k)

\* The child has every end its parent has, and what its parent has printed.
Fork(k) == /\ doing[k] = "fork"
           /\ doing' = [doing EXCEPT ![k] = "parent", ![k + 1] = "child"]
           /\ rd' = [i \in Links |-> IF k \in rd[i] THEN rd[i] \cup {k + 1} ELSE rd[i]]
           /\ wr' = [i \in Links |-> IF k \in wr[i] THEN wr[i] \cup {k + 1} ELSE wr[i]]
           /\ stdout' = [stdout EXCEPT ![k + 1] = stdout[k]]
           /\ UNCHANGED <<n, terminal, prime, num, link, output, broken>>

\* The parent does not read its new pipe.
Parent(k) == /\ doing[k] = "parent"
             /\ rd' = Closed(rd, k + 1, k)
             /\ Becomes(k, IF k = 0 THEN "send" ELSE "read")
             /\ UNCHANGED <<n, terminal, prime, num, wr, link, stdout, output, broken>>

\* The child does not read its parent's pipe.
Child(k) == /\ doing[k] = "child"
            /\ rd' = IF k > 1 THEN Closed(rd, k - 1, k) ELSE rd
            /\ Becomes(k, "receive")
            /\ UNCHANGED <<n, terminal, prime, num, wr, link, stdout, output, broken>>

\* Mutant of Receive: the child can still write what it reads.
ReceiveKeepsEnd(k) == /\ doing[k] = "receive"
                      /\ Becomes(k, "first")
                      /\ UNCHANGED <<n, terminal, prime, num, ends, link, stdout, output, broken>>

\* Nor does it write its own.
Receive(k) == /\ doing[k] = "receive"
              /\ wr' = Closed(wr, k, k)
              /\ Becomes(k, "first")
              /\ UNCHANGED <<n, terminal, prime, num, rd, link, stdout, output, broken>>

\* Whether process k sees the end of its input.
AtEnd(k) == link[k] = <<>> /\ wr[k] = {}

\* The first number is a prime.
First(k) == /\ doing[k] = "first" /\ link[k] # <<>>
            /\ LET x == Head(link[k]) IN
               /\ prime' = [prime EXCEPT ![k] = x]
               /\ IF terminal THEN output' = Append(output, x) /\ UNCHANGED stdout
                  ELSE stdout' = [stdout EXCEPT ![k] = Append(@, x)] /\ UNCHANGED output
            /\ link' = [link EXCEPT ![k] = Tail(@)]
            /\ Becomes(k, "pipe")
            /\ UNCHANGED <<n, terminal, num, ends, broken>>

NoFirst(k) == doing[k] = "first" /\ AtEnd(k) /\ Exit(k)

-----------------------------------------------------------------------------
(* send_numbers() and send_primes_candidates().                            *)

Read(k) == /\ doing[k] = "read" /\ link[k] # <<>>
           /\ LET x == Head(link[k]) IN
              IF x % prime[k] # 0 THEN num' = [num EXCEPT ![k] = x] /\ Becomes(k, "write")
                                  ELSE UNCHANGED <<num, doing>>
           /\ link' = [link EXCEPT ![k] = Tail(@)]
           /\ UNCHANGED <<n, terminal, prime, ends, stdout, output, broken>>

SendNumber == /\ doing[0] = "send" /\ prime[0] < n
              /\ prime' = [prime EXCEPT ![0] = @ + 1]
              /\ num' = [num EXCEPT ![0] = prime[0] + 1]
              /\ Becomes(0, "write")
              /\ UNCHANGED <<n, terminal, ends, link, stdout, output, broken>>

Write(k) == /\ doing[k] = "write" /\ rd[k + 1] # {} /\ Len(link[k + 1]) < Room
            /\ link' = [link EXCEPT ![k + 1] = Append(@, num[k])]
            /\ num' = [num EXCEPT ![k] = 0]
            /\ Becomes(k, IF k = 0 THEN "send" ELSE "read")
            /\ UNCHANGED <<n, terminal, prime, ends, stdout, output, broken>>

WriteKilled(k) == doing[k] = "write" /\ rd[k + 1] = {} /\ Killed(k)

\* After the last number a process closes what it has open, and waits.
CloseEnds(k) ==
    /\ IF k = 0 THEN doing[0] = "send" /\ prime[0] >= n ELSE doing[k] = "read" /\ AtEnd(k)
    /\ wr' = Closed(wr, k + 1, k)
    /\ rd' = IF k > 0 THEN Closed(rd, k, k) ELSE rd
    /\ Becomes(k, "wait")
    /\ UNCHANGED <<n, terminal, prime, num, link, stdout, output, broken>>

Over == {"exited", "failed", "killed"}
Wait(k) == doing[k] = "wait" /\ doing[k + 1] \in Over /\ Exit(k)

-----------------------------------------------------------------------------
SieveStep(k) == \/ Pipe(k) \/ Fork(k) \/ CallFails(k) \/ Parent(k) \/ Child(k) \/ Receive(k)
                \/ First(k) \/ NoFirst(k) \/ Read(k) \/ Write(k) \/ WriteKilled(k) \/ CloseEnds(k) \/ Wait(k)
                \/ k = 0 /\ SendNumber

AllGone == \A k \in Sieves : doing[k] \in Over \cup {"none"}
SieveNext == \E k \in Sieves : SieveStep(k)

\* Every process goes on.
SieveSpec == SieveInit /\ [][SieveNext]_sieveVars /\ \A k \in Sieves : WF_sieveVars(SieveStep(k))

-----------------------------------------------------------------------------
SieveTypeOK ==
    /\ n \in Ns /\ terminal \in BOOLEAN /\ broken \in BOOLEAN
    /\ doing \in [Sieves -> {"none", "pipe", "fork", "parent", "child", "receive", "first",
                          "send", "read", "write", "wait"} \cup Over]
    /\ \A i \in Links : rd[i] \cup wr[i] \subseteq Sieves /\ Len(link[i]) <= Room

Prime(x) == x > 1 /\ \A d \in 2 .. x - 1 : x % d # 0
PrimesTo(m) == {x \in 2 .. m : Prime(x)}

\* On a terminal the primes up to n come out in order and none but they,
\* whatever fails and whoever is killed: before a prime those that are smaller.
PrimesInOrder == terminal => \A i \in DOMAIN output :
    /\ output[i] \in PrimesTo(n)
    /\ {output[j] : j \in 1 .. i - 1} = PrimesTo(output[i] - 1)

\* When nothing has failed all of them are there at the end, in a file too,
\* though there those before a fork() are written by both processes.
AllPrimes == doing[0] = "exited" /\ ~broken => ToSet(output) = PrimesTo(n)

\* Who ends in the end, and not for an error, leaves no descendant behind.
NoneLeft == \A k \in Sieves : doing[k] = "exited" /\ k + 1 \in Sieves => doing[k + 1] \in Over \cup {"none"}

\* A process never has more than three ends of pipes open, however long the
\* chain (the limit that tests/primes-test.py sets is for that).
FewEnds == \A k \in Sieves :
    Cardinality({i \in Links : k \in rd[i]}) + Cardinality({i \in Links : k \in wr[i]}) <= 3

\* The chain of processes computes the primes and ends in order: what is
\* printed, who is waited for and what a process keeps open are right however
\* the processes run and whichever call fails (receive_numbers).
PrimesFound == SieveTypeOK /\ PrimesInOrder /\ AllPrimes /\ NoneLeft /\ FewEnds

\* All processes end, whichever call fails: each sees the end of its input or
\* is killed by its output, because nobody else holds an end of its pipes.
SieveEnds == <>AllGone
===============================================================================
