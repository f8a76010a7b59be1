------------------------------- MODULE Mutex -------------------------------
(***************************************************************************)
(* What the big kernel lock promises: at most one CPU is inside the        *)
(* kernel.  kern/spinlock.h offers exactly two operations, lock_kernel()   *)
(* and unlock_kernel(); this is their meaning, and Spinlock implements it. *)
(***************************************************************************)
CONSTANT Cpus

VARIABLE holders        \* the CPUs between lock_kernel() and unlock_kernel()

Init == holders = {}

\* lock_kernel() returns to c only when nobody is inside.
Acquire(c) == /\ holders = {}
              /\ holders' = {c}

\* unlock_kernel() by the CPU that is inside.
Release(c) == /\ c \in holders
              /\ holders' = holders \ {c}

Next == \E c \in Cpus : Acquire(c) \/ Release(c)

Spec == Init /\ [][Next]_holders
=============================================================================
