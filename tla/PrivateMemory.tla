---------------------------- MODULE PrivateMemory -----------------------------
(***************************************************************************)
(* What fork() promises: every environment has a memory of its own, and a  *)
(* child starts with copies of its parent's pages, each taken at one       *)
(* moment of the call.  There is no sharing here; CowFork, which shares    *)
(* pages until they are written, implements this.                          *)
(***************************************************************************)
CONSTANTS Envs, Vas, Values, Undefined

VARIABLES state,    \* "free", "building" (the child of a fork() under way), "alive"
          builder,  \* who is building it, or itself
          mem       \* what each environment reads at each page

vars == <<state, builder, mem>>

Init == \E e \in Envs, page \in [Vas -> Values] :
    /\ state = [f \in Envs |-> IF f = e THEN "alive" ELSE "free"]
    /\ builder = [f \in Envs |-> f]
    /\ mem = [f \in Envs |-> IF f = e THEN page ELSE [va \in Vas |-> Undefined]]

Write(e, va, v) == /\ state[e] = "alive"
                   /\ mem' = [mem EXCEPT ![e][va] = v]
                   /\ UNCHANGED <<state, builder>>

Fork(e, child) == /\ state[e] = "alive" /\ state[child] = "free"
                  /\ state' = [state EXCEPT ![child] = "building"]
                  /\ builder' = [builder EXCEPT ![child] = e]
                  /\ UNCHANGED mem

Copy(child, va) == /\ state[child] = "building" /\ mem[child][va] = Undefined
                   /\ mem' = [mem EXCEPT ![child][va] = mem[builder[child]][va]]
                   /\ UNCHANGED <<state, builder>>

Start(child) == /\ state[child] = "building"
                /\ \A va \in Vas : mem[child][va] # Undefined
                /\ state' = [state EXCEPT ![child] = "alive"]
                /\ builder' = [builder EXCEPT ![child] = child]
                /\ UNCHANGED mem

\* Its unfinished children are never started: what they have is nobody's.
Exit(e) == /\ state[e] = "alive"
           /\ state' = [state EXCEPT ![e] = "free"]
           /\ builder' = [f \in Envs |-> IF builder[f] = e THEN f ELSE builder[f]]
           /\ mem' = [f \in Envs |-> IF builder[f] = e THEN [va \in Vas |-> Undefined] ELSE mem[f]]

Next == \/ \E e \in Envs, va \in Vas, v \in Values : Write(e, va, v)
        \/ \E e, child \in Envs : Fork(e, child)
        \/ \E child \in Envs, va \in Vas : Copy(child, va)
        \/ \E e \in Envs : Start(e) \/ Exit(e)

Spec == Init /\ [][Next]_vars
===============================================================================
