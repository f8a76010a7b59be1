--------------------------------- MODULE Traps ---------------------------------
(***************************************************************************)
(* What an interrupt does, as functions: from the vector through the       *)
(* table of trap_init() and the entries of kern/trapentry.S to the         *)
(* Trapframe that trap() reads, to what trap_dispatch() makes of it, and   *)
(* back through kern/switch.S.  A CPU is interrupted in its program or     *)
(* while it is halted in sched_halt(), never elsewhere in the kernel.      *)
(* Stacks are sequences, what was pushed last first.                       *)
(***************************************************************************)
EXTENDS Naturals, SequencesExt

T_BRKPT == 3
T_GPFLT == 13
T_PGFLT == 14
T_SYSCALL == 48
IRQ_TIMER == 32      \* each plus IRQ_OFFSET
IRQ_KBD == 33
IRQ_SERIAL == 36
IRQ_SPURIOUS == 39
IRQ_ERROR == 51

\* trap_init(): the gates that are present, and from where int may use them.
idt == [v \in (0 .. 19 \ {9, 15}) \cup {IRQ_TIMER, T_SYSCALL} |-> IF v \in {T_BRKPT, T_SYSCALL} THEN "user" ELSE "kernel"]

-----------------------------------------------------------------------------
(* The processor.  e is [cause, vector]: an exception, an int instruction  *)
(* of the program, or an interrupt from outside; ctx has its registers.    *)

HasErrorCode == {8, 10, 11, 12, T_GPFLT, T_PGFLT, 17}

\* A gate that is missing, or that a program may not use, is a protection fault.
Taken(e) ==
    CASE e.cause = "exception" -> [vector |-> e.vector, err |-> IF e.vector \in HasErrorCode THEN <<"code">> ELSE <<>>]
      [] e.cause = "int" /\ e.vector \in DOMAIN idt /\ idt[e.vector] = "user" -> [vector |-> e.vector, err |-> <<>>]
      [] e.cause = "irq" /\ e.vector \in DOMAIN idt -> [vector |-> e.vector, err |-> <<>>]
      [] OTHER -> [vector |-> T_GPFLT, err |-> <<"gate">>]

PushedByProcessor(e, ctx) ==
    Taken(e).err \o <<ctx.eip, ctx.cs, ctx.eflags>> \o (IF ctx.cs = "user" THEN <<ctx.esp, ctx.ss>> ELSE <<>>)

-----------------------------------------------------------------------------
(* kern/trapentry.S                                                        *)

\* Mutant of NoErrorCode: T_ALIGN gets an entry that pushes a 0, too.
NoErrorCodeOfAlign(v) == v \notin {8, 10, 11, 12, 13, 14}

\* The entries of TRAPHANDLER_NOEC
NoErrorCode(v) == v \notin {8, 10, 11, 12, 13, 14, 17}

pushal(ctx) == <<ctx.edi, ctx.esi, ctx.ebp, "kernel esp", ctx.ebx, ctx.edx, ctx.ecx, ctx.eax>>

Stack(e, ctx) ==
    LET v == Taken(e).vector
    IN  pushal(ctx) \o <<ctx.es, ctx.ds, v>>
            \o (IF NoErrorCode(v) THEN <<"0">> ELSE <<>>)
            \o PushedByProcessor(e, ctx)

-----------------------------------------------------------------------------
(* trap(): struct Trapframe (inc/trap.h) is a view of the stack.           *)

Fields == <<"edi", "esi", "ebp", "oesp", "ebx", "edx", "ecx", "eax", "es", "ds", "trapno", "err",
            "eip", "cs", "eflags", "esp", "ss">>
Trapframe(stack) == [f \in {Fields[i] : i \in DOMAIN stack \cap DOMAIN Fields} |->
                        stack[CHOOSE i \in DOMAIN Fields : Fields[i] = f]]

\* trap_dispatch(), and what becomes of the environment or the CPU.
trap_dispatch(tf) ==
    CASE tf.trapno = T_BRKPT -> <<"monitor">>
      [] tf.trapno = T_PGFLT -> IF tf.cs = "user" THEN <<"upcall">> ELSE <<"panic">>
      [] tf.trapno = T_SYSCALL -> <<"syscall", tf.eax, tf.edx, tf.ecx, tf.ebx, tf.edi, tf.esi>>
      [] tf.trapno = IRQ_SPURIOUS -> <<"ignored">>
      [] tf.trapno = IRQ_TIMER -> <<"eoi", "yield">>
      [] OTHER -> IF tf.cs = "user" THEN <<"destroy">> ELSE <<"panic">>

\* env_run() and context_switch(): what is popped goes back where it was.
Resumed(tf) == [r \in DOMAIN tf \ {"oesp", "trapno", "err"} |-> tf[r]]

-----------------------------------------------------------------------------
Causes == [cause : {"exception"}, vector : 0 .. 19 \ {9, 15}] \cup [cause : {"int"}, vector : 0 .. 51]
              \cup [cause : {"irq"}, vector : {IRQ_TIMER, IRQ_KBD, IRQ_SERIAL, IRQ_SPURIOUS, IRQ_ERROR}]

Registers == {"edi", "esi", "ebp", "ebx", "edx", "ecx", "eax", "es", "ds", "eip", "cs", "eflags", "esp", "ss"}
Context(cs) == [r \in Registers |-> IF r = "cs" THEN cs ELSE r]

Outcome(e, cs) == trap_dispatch(Trapframe(Stack(e, Context(cs))))

\* Whether or not the processor pushes an error code, trap() finds each value
\* in its field; a program goes on with every register as it was; and with int
\* it gets no further than it is meant to.
TrapMeant(e, cs) ==
    LET tf == Trapframe(Stack(e, Context(cs)))
        known == IF cs = "user" THEN Registers ELSE Registers \ {"esp", "ss"}
    IN  /\ tf.trapno = Taken(e).vector
        /\ tf.err = IF Taken(e).err = <<>> THEN "0" ELSE Taken(e).err[1]
        /\ Resumed(tf) = [r \in known |-> Context(cs)[r]]
        /\ e.cause = "int" => Outcome(e, cs)[1] = CASE e.vector = T_BRKPT -> "monitor"
                                                    [] e.vector = T_SYSCALL -> "syscall"
                                                    [] OTHER -> "destroy"

-----------------------------------------------------------------------------
\* kern/trap.c:216: "Handle spurious interrupts.  The hardware sometimes raises
\* these because of noise on the IRQ line or other reasons.  We don't care."
\* The table has no gate for IRQ_SPURIOUS, so that trap_dispatch() never sees
\* the vector: it sees a protection fault.
SpuriousIgnored(e, cs) == e = [cause |-> "irq", vector |-> IRQ_SPURIOUS] => Outcome(e, cs) = <<"ignored">>
===============================================================================
