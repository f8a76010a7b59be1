---------------------------- MODULE ExceptionStack ----------------------------
(***************************************************************************)
(* The user exception stack: page_fault_handler() (kern/trap.c) pushes a   *)
(* frame on it, the handler runs on it and may fault itself, and           *)
(* _pgfault_upcall (lib/pfentry.S) returns to the instruction that         *)
(* faulted, through the stack that instruction was using.                  *)
(*                                                                         *)
(* The stack is modelled word by word, from the frames down to the locals  *)
(* of the handler; of a struct UTrapframe the words that pfentry.S reads   *)
(* are kept (eip and, above it, esp) and one stands for the others.        *)
(* UXSTACKTOP - 1, where the kernel starts, moves the stack by a byte and  *)
(* nothing else: the words are counted from there.                         *)
(***************************************************************************)
EXTENDS Integers, Sequences

CONSTANTS Words,   \* of the exception stack, 1 .. Words from the bottom
          Eips     \* where a program may fault

ASSUME StackAssumption == Words \in Nat \ {0} /\ Eips \subseteq Nat

Frame == 3                       \* sizeof(struct UTrapframe): others, eip, esp
Base == 1                        \* exstk
Top == Words + 1                 \* exstk_top
UserStack == 0                   \* an esp on the normal stack
Esps == 0 .. Top
Is(what) == <<what, 0>>
Eip(e) == <<"eip", e>>
Esp(sp) == <<"esp", sp>>
StackWords == {Is("free"), Is("scratch"), Is("others"), Is("local")}
                  \cup {Eip(e) : e \in Eips} \cup {Esp(sp) : sp \in Esps}

VARIABLES
    word,      \* the words of the exception stack
    esp, eip,  \* of the program
    handling,  \* esp at each entry of the upcall not yet left, outermost first
    trapped,   \* the esp and eip to go back to, likewise
    kernel     \* "runs" or "panicked"

stackVars == <<word, esp, eip, handling, trapped, kernel>>

StackInit == /\ word = [w \in Base .. Words |-> Is("free")]
             /\ esp = UserStack
             /\ eip \in Eips
             /\ handling = <<>> /\ trapped = <<>>
             /\ kernel = "runs"

-----------------------------------------------------------------------------
(* kern/trap.c: page_fault_handler().                                      *)

OnExceptionStack(sp) == sp # UserStack

\* Mutant of FrameAt: no word of scratch space.
FrameAtNoScratch(sp) == IF OnExceptionStack(sp) THEN sp - Frame ELSE Top - Frame

\* Mutant of FrameAt: every fault starts at the top again.
FrameAtTop(sp) == Top - Frame

\* Where the new frame goes: below a word of scratch in the recursive case.
FrameAt(sp) == IF OnExceptionStack(sp) THEN sp - 1 - Frame ELSE Top - Frame

\* The words the kernel writes for a fault at e with stack pointer sp.
Pushed(sp, e) ==
    LET f == FrameAt(sp) IN
    [w \in Base .. Words |->
        IF w = f THEN Is("others") ELSE IF w = f + 1 THEN Eip(e) ELSE IF w = f + 2 THEN Esp(sp)
        ELSE IF w \in f + Frame .. sp - 1 THEN Is("scratch") ELSE word[w]]

\* The frame is written, then the upcall entered.
Fault == /\ kernel = "runs"
         /\ FrameAt(esp) >= Base
         /\ word' = Pushed(esp, eip)
         /\ handling' = Append(handling, FrameAt(esp))
         /\ trapped' = Append(trapped, [esp |-> esp, eip |-> eip])
         /\ esp' = FrameAt(esp)
         /\ eip' \in Eips
         /\ UNCHANGED kernel

\* No room: the kernel panics, on its own check or on the page below.
FaultOverflows == /\ kernel = "runs"
                  /\ FrameAt(esp) < Base
                  /\ kernel' = "panicked"
                  /\ UNCHANGED <<word, esp, eip, handling, trapped>>

-----------------------------------------------------------------------------
(* The handler, C code on the exception stack.                             *)

Handling == kernel = "runs" /\ handling # <<>>
Entry == handling[Len(handling)]

Push == /\ Handling /\ esp > Base
        /\ word' = [word EXCEPT ![esp - 1] = Is("local")]
        /\ esp' = esp - 1
        /\ eip' \in Eips
        /\ UNCHANGED <<handling, trapped, kernel>>

Pop == /\ Handling /\ esp < Entry
       /\ esp' = esp + 1
       /\ eip' \in Eips
       /\ UNCHANGED <<word, handling, trapped, kernel>>

-----------------------------------------------------------------------------
(* lib/pfentry.S, once the handler has returned: the registers are those   *)
(* of the trap when its last instruction, ret, is done.                    *)

\* The trap-time esp and eip, and the stack with the eip pushed on it.
TrapEsp(f) == word[f + 2][2]
PushedEip(f) == IF OnExceptionStack(TrapEsp(f))
                THEN [word EXCEPT ![TrapEsp(f) - 1] = word[f + 1]] ELSE word

\* The word pushed is noted in the frame, in place of the trap-time esp; esp
\* is popped from there, and ret pops the word.
ReturnEip(f) ==
    LET noted == [PushedEip(f) EXCEPT ![f + 2] = Esp(TrapEsp(f) - 1)]
    IN  IF OnExceptionStack(TrapEsp(f)) THEN noted[TrapEsp(f) - 1][2] ELSE word[f + 1][2]

Return == /\ Handling /\ esp = Entry
          /\ esp' = TrapEsp(Entry)
          /\ eip' = ReturnEip(Entry)
          /\ handling' = SubSeq(handling, 1, Len(handling) - 1)
          /\ trapped' = SubSeq(trapped, 1, Len(trapped) - 1)
          /\ word' = PushedEip(Entry)
          /\ UNCHANGED kernel

\* Before the first fault the program runs on its own stack.
RunOn == /\ kernel = "runs" /\ handling = <<>>
         /\ eip' \in Eips
         /\ UNCHANGED <<word, esp, handling, trapped, kernel>>

StackStopped == kernel = "panicked" /\ UNCHANGED stackVars

StackNext == Fault \/ FaultOverflows \/ Push \/ Pop \/ Return \/ RunOn \/ StackStopped
StackSpec == StackInit /\ [][StackNext]_stackVars

-----------------------------------------------------------------------------
StackTypeOK == /\ word \in [Base .. Words -> StackWords]
               /\ esp \in Esps /\ eip \in Eips
               /\ handling \in Seq(Base .. Words)
               /\ trapped \in Seq([esp : Esps, eip : Eips])
               /\ kernel \in {"runs", "panicked"}

\* Every handler returns to the instruction and the stack pointer of its own
\* fault, through however many nested faults (the word of scratch that
\* page_fault_handler() leaves is where pfentry.S pushes the eip).
ReturnsToFault == [][Len(handling') < Len(handling) =>
    [esp |-> esp', eip |-> eip'] = trapped[Len(trapped)]]_stackVars

\* While a fault is handled, the frames of the faults around it and the
\* locals of their handlers stay as they were.
StackIntact == StackTypeOK /\ \A i \in 1 .. Len(handling) :
    /\ word[handling[i] + 1] = Eip(trapped[i].eip)
    /\ word[handling[i] + 2] = Esp(trapped[i].esp)
    /\ \A w \in (IF i < Len(handling) THEN trapped[i + 1].esp ELSE esp) .. handling[i] - 1 :
          word[w] = Is("local")
===============================================================================
