---------------------------- MODULE Environments ----------------------------
(***************************************************************************)
(* The life of an environment, as the kernel promises it to programs: it   *)
(* is created, waits for a CPU, runs on one CPU at a time, blocks until    *)
(* one message is delivered to it, and is freed once.  A running           *)
(* environment is freed by its own CPU only; killed from another CPU, it   *)
(* stays there as a zombie until its CPU gives it up.  There are no locks, *)
(* traps, ids, free lists or scheduling order here: KernelLib, which has   *)
(* them, implements this.                                                  *)
(***************************************************************************)
CONSTANTS Envs, Cpus,
          NoEnv     \* what a CPU runs when it runs no environment

VARIABLES life,     \* "free", "starting", "ready", "running", "blocked", "zombie"
          on        \* the environment each CPU runs, or NoEnv

vars == <<life, on>>

Init == /\ life = [e \in Envs |-> "free"]
        /\ on = [c \in Cpus |-> NoEnv]

Becomes(e, l) == life' = [life EXCEPT ![e] = l]
Runs(c) == on[c] # NoEnv /\ life[on[c]] = "running"

\* The kernel creates an environment at boot.
Create(e) == life[e] = "free" /\ Becomes(e, "ready") /\ UNCHANGED on

\* A program has a child, which waits until it is started.
Fork(c, e) == Runs(c) /\ life[e] = "free" /\ Becomes(e, "starting") /\ UNCHANGED on

Start(c, e) == Runs(c) /\ life[e] = "starting" /\ Becomes(e, "ready") /\ UNCHANGED on

\* A CPU takes up an environment that nobody runs, and puts down its own.
Run(c, e) == /\ life[e] = "ready"
             /\ on[c] # NoEnv => Runs(c)
             /\ life' = [f \in Envs |-> IF f = e THEN "running"
                                        ELSE IF f = on[c] THEN "ready" ELSE life[f]]
             /\ on' = [on EXCEPT ![c] = e]

\* An environment waits for a message, and gets it.
Block(c) == Runs(c) /\ Becomes(on[c], "blocked") /\ on' = [on EXCEPT ![c] = NoEnv]

Deliver(c, e) == Runs(c) /\ life[e] = "blocked" /\ Becomes(e, "ready") /\ UNCHANGED on

\* A program kills an environment that another CPU runs.
Kill(c, e) == /\ Runs(c) /\ e # on[c]
              /\ life[e] = "running" /\ Becomes(e, "zombie") /\ UNCHANGED on

\* A program kills an environment that nobody runs.
Remove(c, e) == /\ Runs(c)
                /\ life[e] \in {"starting", "ready", "blocked"}
                /\ Becomes(e, "free") /\ UNCHANGED on

\* A CPU frees the environment it runs: it exits, faults, or was killed.
Exit(c) == on[c] # NoEnv /\ Becomes(on[c], "free") /\ on' = [on EXCEPT ![c] = NoEnv]

Next == \/ \E e \in Envs : Create(e)
        \/ \E c \in Cpus : Block(c) \/ Exit(c)
        \/ \E c \in Cpus, e \in Envs : \/ Fork(c, e) \/ Start(c, e) \/ Run(c, e)
                                       \/ Deliver(c, e) \/ Kill(c, e) \/ Remove(c, e)

Spec == Init /\ [][Next]_vars
=============================================================================
