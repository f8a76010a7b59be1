------------------------------ MODULE ShellProofs ------------------------------
(***************************************************************************)
(* Proof that the shell reports of a single command in the foreground how  *)
(* it has ended, whoever has reaped it, if no background child was reaped  *)
(* meanwhile, for any number of children.                                  *)
(***************************************************************************)
EXTENDS Shell, TLAPS

\* While run_cmd() waits, the child's end is what it will find or what status
\* is; the handler writes anything else only when it reaps another child.
StatusInv ==
    /\ pc \in {"prompt", "wait", "report"} /\ fg \in Children \cup {NoChild}
    /\ proc \in [Children -> {"none", "running", "zombie"}]
    /\ ended \in [Children -> Nat]
    /\ pc = "prompt" => fg = NoChild
    /\ pc = "report" /\ fg # NoChild => proc[fg] = "none"
    /\ fg # NoChild /\ kind = "exec" =>
          /\ proc[fg] = "zombie" => ended[fg] = last
          /\ proc[fg] = "none" /\ ~meddled => status = last

LEMMA StatusStarts == Init => StatusInv
BY ShellAssumption DEF Init, StatusInv

LEMMA StatusSteps == StatusInv /\ [Next]_vars => StatusInv'
<1> SUFFICES ASSUME StatusInv, [Next]_vars PROVE StatusInv'
  OBVIOUS
<1> USE ShellAssumption DEF StatusInv
<1>1. ASSUME NEW c \in Children, NEW k \in Kinds, Fork(c, k) PROVE StatusInv'
  BY <1>1 DEF Fork
<1>2. ASSUME NEW k \in Kinds, ForkFails(k) PROVE StatusInv'
  BY <1>2 DEF ForkFails
<1>3. ASSUME NEW c \in Children, ForkBack(c) PROVE StatusInv'
  BY <1>3 DEF ForkBack
<1>4. ASSUME NEW s \in {0, 1}, Builtin(s) PROVE StatusInv'
  BY <1>4 DEF Builtin
<1>5. CASE Wait
  BY <1>5 DEF Wait, Reaped
<1>6. ASSUME NEW c \in Children, WaitAny(c) PROVE StatusInv'
  BY <1>6 DEF WaitAny, Reaped
<1>7. CASE WaitNone
  BY <1>7 DEF WaitNone
<1>8. CASE Report
  BY <1>8 DEF Report
<1>9. ASSUME NEW c \in Children, NEW r \in Raw, Exit(c, r) PROVE StatusInv'
  <2>1. r \in Nat /\ proc[c] = "running"
    BY <1>9 DEF Exit
  <2>2. CASE c = fg
    BY <1>9, <2>1, <2>2 DEF Exit
  <2>3. CASE c # fg
    BY <1>9, <2>1, <2>3 DEF Exit
  <2> QED
    BY <2>2, <2>3
<1>10. CASE Deliver
  BY <1>10 DEF Deliver
<1>11. ASSUME NEW c \in Children, HandlerReap(c) PROVE StatusInv'
  <2>1. proc[c] = "zombie"
    BY <1>11 DEF HandlerReap, Zombies
  <2>2. CASE c = fg
    BY <1>11, <2>1, <2>2 DEF HandlerReap, Reaped
  <2>3. CASE c # fg
    BY <1>11, <2>1, <2>3 DEF HandlerReap, Reaped
  <2> QED
    BY <2>2, <2>3
<1>12. CASE HandlerNone
  BY <1>12 DEF HandlerNone
<1>13. CASE UNCHANGED vars
  BY <1>13 DEF vars
<1> QED
  BY <1>1, <1>2, <1>3, <1>4, <1>5, <1>6, <1>7, <1>8, <1>9, <1>10, <1>11, <1>12, <1>13
  DEF Next, Command, Handler

\* Whatever the children do and whenever SIGCHLD interrupts: the status that is
\* reported for a single command that was forked is how it has ended, though
\* the handler may reap it before run_cmd() waits, unless the handler has reaped
\* a background child between the fork() and the report: then it may be that
\* child's (run_cmd, bg_handler, print_status_info).
THEOREM OwnStatusIsReported == Spec => ReportsOwnStatus
<1>1. Spec => []StatusInv
  BY StatusStarts, StatusSteps, PTL DEF Spec
<1> DEFINE Own == pc = "report" /\ pc' = "prompt" /\ kind = "exec" /\ fg # NoChild /\ ~meddled
                      => status' = Decode(last)
<1>2. StatusInv /\ [Next]_vars => [Own]_vars
  <2> SUFFICES ASSUME StatusInv, Next, pc = "report", pc' = "prompt", kind = "exec", fg # NoChild, ~meddled
               PROVE  status' = Decode(last)
    OBVIOUS
  <2>1. CASE Report
    BY <2>1 DEF Report, StatusInv
  <2>2. CASE ~Report
    BY <2>2 DEF Next, Command, Fork, ForkFails, ForkBack, Builtin, Wait, WaitAny, WaitNone, Exit, Deliver,
                Handler, HandlerReap, HandlerNone
  <2> QED
    BY <2>1, <2>2
<1>3. Spec => [][Own]_vars
  BY <1>1, <1>2, PTL DEF Spec
<1> QED
  BY <1>3 DEF ReportsOwnStatus
================================================================================
