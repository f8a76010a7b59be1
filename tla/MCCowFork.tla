------------------------------ MODULE MCCowFork -------------------------------
(* CowFork for TLC: no environment, physical page or content is special, and *)
(* what a free page contains, or the upcall of a free slot, is never looked  *)
(* at.                                                                       *)
EXTENDS CowFork, TLC

Symmetry == Permutations(Envs) \cup Permutations(Frames) \cup Permutations(Written)

View == <<version, state, pt, temp, [f \in Frames |-> IF f \in FreeFrames THEN Zero ELSE content[f]],
          fork, fault, {e \in Envs : upcall[e] /\ state[e] # "free"}>>
===============================================================================
