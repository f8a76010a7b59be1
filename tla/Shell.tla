--------------------------------- MODULE Shell ---------------------------------
(***************************************************************************)
(* The life of the shell's children and the status it reports: the loop of *)
(* sh.c and run_cmd(), against the SIGCHLD handler, which interrupts it    *)
(* anywhere, waits for any child of the process group, the one in the      *)
(* foreground included, and writes the same `status`.                      *)
(*                                                                         *)
(* setpgid() never separates the children: they are all in the shell's own *)
(* group (setpgid(0, 1000) fails unless such a group exists), so that      *)
(* waitpid(0) is waitpid(any).  A pending signal is one bit.               *)
(***************************************************************************)
EXTENDS Integers, FiniteSets

CONSTANTS Children,   \* processes the shell may have at a time
          NoChild,
          Kinds,      \* of commands in the foreground: "exec", "pipe"
          Raw,        \* how processes end, as waitpid() says it
          Background, \* whether there are commands in the background
          MayFail     \* whether fork() may

ASSUME ShellAssumption == /\ NoChild \notin Children /\ Kinds \subseteq {"exec", "pipe"}
                          /\ Raw \subseteq Nat /\ 0 \in Raw
                          /\ Background \in BOOLEAN /\ MayFail \in BOOLEAN

\* WIFEXITED and the others as print_status_info() uses them, which may be of
\* a status that has been decoded before.
Decode(raw) == IF raw % 128 = 0 THEN (raw \div 256) % 256
               ELSE IF raw % 128 = 127 THEN -((raw \div 256) % 256) ELSE -(raw % 128)

VARIABLES
    pc,        \* "prompt", "wait" (run_cmd(), after fork()), "report"
    fg,        \* the child in the foreground, or NoChild: fork() has failed
    kind,      \* of command it runs
    proc,      \* "none", "running", "zombie"
    ended,     \* how it has ended
    pending,   \* SIGCHLD
    handler,   \* bg_handler() runs
    status,    \* the variable, which is $?
    last,      \* how the last command in the foreground ended
    meddled    \* a background child was reaped since the last fork()

vars == <<pc, fg, kind, proc, ended, pending, handler, status, last, meddled>>

Init == /\ pc = "prompt" /\ fg = NoChild /\ kind \in Kinds
        /\ proc = [c \in Children |-> "none"]
        /\ ended = [c \in Children |-> 0]
        /\ pending = FALSE /\ handler = FALSE
        /\ status = 0 /\ last = 0 /\ meddled = FALSE

Zombies == {c \in Children : proc[c] = "zombie"}
Reaped(c) == proc' = [proc EXCEPT ![c] = "none"]

-----------------------------------------------------------------------------
\* run_cmd(): fork() for the foreground,
Fork(c, k) == /\ ~handler /\ pc = "prompt" /\ proc[c] = "none"
              /\ pc' = "wait" /\ fg' = c /\ kind' = k
              /\ proc' = [proc EXCEPT ![c] = "running"]
              /\ meddled' = FALSE
              /\ UNCHANGED <<ended, pending, handler, status, last>>

\* which may fail,
ForkFails(k) == /\ MayFail
                /\ ~handler /\ pc = "prompt"
                /\ pc' = "wait" /\ kind' = k
                /\ UNCHANGED <<fg, proc, ended, pending, handler, status, last, meddled>>

\* and for the background.
ForkBack(c) == /\ Background
               /\ ~handler /\ pc = "prompt" /\ proc[c] = "none"
               /\ proc' = [proc EXCEPT ![c] = "running"]
               /\ UNCHANGED <<pc, fg, kind, ended, pending, handler, status, last, meddled>>

\* cd and pwd.
Builtin(s) == /\ ~handler /\ pc = "prompt"
              /\ status' = s /\ last' = 256 * s
              /\ UNCHANGED <<pc, fg, kind, proc, ended, pending, handler, meddled>>

\* waitpid(p, &status, 0), when the child has ended; it fails and leaves
\* status alone when the handler was first.
Wait == /\ ~handler /\ pc = "wait" /\ fg # NoChild /\ proc[fg] # "running"
        /\ pc' = "report"
        /\ status' = IF proc[fg] = "zombie" THEN ended[fg] ELSE status
        /\ Reaped(fg)
        /\ UNCHANGED <<fg, kind, ended, pending, handler, last, meddled>>

\* Of -1, after a fork() that has failed, it waits for any child.
WaitAny(c) == /\ ~handler /\ pc = "wait" /\ fg = NoChild /\ proc[c] = "zombie"
              /\ pc' = "report"
              /\ status' = ended[c]
              /\ Reaped(c)
              /\ UNCHANGED <<fg, kind, ended, pending, handler, last, meddled>>

WaitNone == /\ ~handler /\ pc = "wait" /\ fg = NoChild /\ \A c \in Children : proc[c] = "none"
            /\ pc' = "report"
            /\ UNCHANGED <<fg, kind, proc, ended, pending, handler, status, last, meddled>>

\* print_status_info(): a pipe has no scmd, and its status is not decoded.
Report == /\ ~handler /\ pc = "report"
          /\ pc' = "prompt" /\ fg' = NoChild
          /\ status' = IF kind = "pipe" THEN status ELSE Decode(status)
          /\ UNCHANGED <<kind, proc, ended, pending, handler, last, meddled>>

-----------------------------------------------------------------------------
\* A child ends.  The process that runs a pipe ends with 0 (exec_cmd()),
\* whatever its last command, r, has ended with.
Exit(c, r) == /\ proc[c] = "running"
              /\ proc' = [proc EXCEPT ![c] = "zombie"]
              /\ ended' = [ended EXCEPT ![c] = IF c = fg /\ kind = "pipe" THEN 0 ELSE r]
              /\ last' = IF c = fg THEN r ELSE last
              /\ pending' = TRUE
              /\ UNCHANGED <<pc, fg, kind, handler, status, meddled>>

\* The signal is delivered; it is blocked until the handler returns.
Deliver == /\ pending /\ ~handler
           /\ pending' = FALSE /\ handler' = TRUE
           /\ UNCHANGED <<pc, fg, kind, proc, ended, status, last, meddled>>

\* Mutant of HandlerReap: status is not written.
HandlerReapSilent(c) == /\ handler /\ c \in Zombies
                        /\ Reaped(c) /\ handler' = FALSE
                        /\ meddled' = (meddled \/ c # fg)
                        /\ UNCHANGED <<pc, fg, kind, ended, pending, status, last>>

\* bg_handler(): waitpid(0, &exit_status, WNOHANG) once,
HandlerReap(c) == /\ handler /\ c \in Zombies
                  /\ Reaped(c) /\ handler' = FALSE
                  /\ status' = ended[c]
                  /\ meddled' = (meddled \/ c # fg)
                  /\ UNCHANGED <<pc, fg, kind, ended, pending, last>>

\* Mutant of HandlerNone: without WNOHANG, while there are children.
HandlerNoneBlocks == /\ handler /\ \A c \in Children : proc[c] = "none"
                     /\ handler' = FALSE
                     /\ UNCHANGED <<pc, fg, kind, proc, ended, pending, status, last, meddled>>

\* which finds nothing when somebody was first.
HandlerNone == /\ handler /\ Zombies = {}
               /\ handler' = FALSE
               /\ UNCHANGED <<pc, fg, kind, proc, ended, pending, status, last, meddled>>

Handler == HandlerNone \/ \E c \in Children : HandlerReap(c)

Command == \/ \E c \in Children : ForkBack(c) \/ \E k \in Kinds : Fork(c, k)
           \/ \E k \in Kinds : ForkFails(k)
           \/ \E s \in {0, 1} : Builtin(s)

Next == \/ Command \/ Wait \/ WaitNone \/ Report
        \/ \E c \in Children : WaitAny(c)
        \/ \E c \in Children, r \in Raw : Exit(c, r)
        \/ Deliver \/ Handler

\* The shell runs, signals are delivered, and commands in the foreground end;
\* those in the background need not.
Fairness == /\ WF_vars(Wait) /\ WF_vars(Report)
            /\ WF_vars(Deliver) /\ WF_vars(Handler)
            /\ WF_vars(\E r \in Raw : fg # NoChild /\ Exit(fg, r))

Spec == Init /\ [][Next]_vars /\ Fairness

-----------------------------------------------------------------------------
\* The status reported for a command is its own, whether run_cmd() or the
\* handler has reaped it, unless a background child was reaped meanwhile.
ReportsOwnStatus == [][pc = "report" /\ pc' = "prompt" /\ kind = "exec" /\ fg # NoChild /\ ~meddled
                            => status' = Decode(last)]_vars

\* The prompt comes back: neither the handler, which may have taken the child
\* away, nor a background child that runs for ever keeps run_cmd()
\* waiting (when fork() has failed one does: it waits for any).
PromptReturns == (pc # "prompt" /\ fg # NoChild) ~> (pc = "prompt")
=============================================================================
