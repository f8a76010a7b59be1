-------------------------------- MODULE Console --------------------------------
(***************************************************************************)
(* The input of the kernel's console: the keyboard's scan codes, the shift *)
(* state kept between them, the serial port, and the circular buffer both  *)
(* feed and cons_getc() empties.  The kernel lock makes an interrupt and a *)
(* cons_getc() atomic; the keyboard sends a byte at a time, so that an     *)
(* interrupt may find half of what one key sends.                          *)
(***************************************************************************)
EXTENDS Naturals, Sequences

CONSTANTS CONSBUFSIZE,
          Keys,      \* that are pressed, of those KeyCode knows
          Serial,    \* characters that the serial port receives
          PortSize   \* bytes the controller keeps

VARIABLES
    held,     \* keys that are down
    doubled,  \* modifiers of which two keys were down, since none was
    sending,  \* what the keyboard has yet to send of the last key
    port,     \* bytes in the controller
    uart,     \* the character in the serial port, or NO
    shift,    \* of kbd_proc_data(), as a set of flags
    cons,     \* [buf, rpos, wpos]
    waiting   \* the characters put into the buffer since it last overran,
              \* and not taken out

keyboard == <<held, doubled, sending>>
vars == <<keyboard, port, uart, shift, cons, waiting>>

NO == "NO"
E0 == 224

\* Scan codes: an E0 before those from 128.
KeyCode == [lctl |-> 29, rctl |-> 157, lshift |-> 42, rshift |-> 54, lalt |-> 56,
            ralt |-> 184, capslock |-> 58, a |-> 30, del |-> 211]

ASSUME ConsoleAssumption == /\ CONSBUFSIZE \in Nat \ {0, 1} /\ PortSize \in Nat \ {0}
                            /\ Keys \subseteq DOMAIN KeyCode

shiftcode(d) == CASE d \in {29, 157} -> {"CTL"}
                  [] d \in {42, 54} -> {"SHIFT"}
                  [] d \in {56, 184} -> {"ALT"}
                  [] OTHER -> {}
togglecode(d) == IF d = 58 THEN {"CAPSLOCK"} ELSE {}

\* charcode[], for the keys above.
charcode(flags, d) == CASE d = 211 -> "DEL"
                        [] d # 30 -> NO
                        [] "CTL" \in flags -> "^A"
                        [] "SHIFT" \in flags -> "A"
                        [] OTHER -> "a"

Init == /\ held = {} /\ doubled = {} /\ sending = <<>>
        /\ port = <<>> /\ uart = NO /\ shift = {}
        /\ cons = [buf |-> [i \in 0 .. CONSBUFSIZE - 1 |-> NO], rpos |-> 0, wpos |-> 0]
        /\ waiting = <<>>

-----------------------------------------------------------------------------
(* The keyboard and the serial port.                                       *)

Modifier(k) == shiftcode(KeyCode[k])
Down(f) == {k \in held : f \in Modifier(k)}
MakeCode(k) == IF KeyCode[k] < 128 THEN <<KeyCode[k]>> ELSE <<E0, KeyCode[k] - 128>>
BreakCode(k) == IF KeyCode[k] < 128 THEN <<KeyCode[k] + 128>> ELSE <<E0, KeyCode[k]>>

\* A key that stays down is sent again.  Ctrl-Alt-Del, which reboots, is not
\* pressed.
Press(k) == /\ sending = <<>>
            /\ k = "del" => Down("CTL") = {} \/ Down("ALT") = {}
            /\ sending' = MakeCode(k)
            /\ held' = held \cup {k}
            /\ doubled' = doubled \cup {f \in Modifier(k) : Down(f) \ {k} # {}}
            /\ UNCHANGED <<port, uart, shift, cons, waiting>>

Release(k) == /\ sending = <<>> /\ k \in held
              /\ sending' = BreakCode(k)
              /\ held' = held \ {k}
              /\ doubled' = {f \in doubled : Down(f) # {k}}
              /\ UNCHANGED <<port, uart, shift, cons, waiting>>

Send == /\ sending # <<>> /\ Len(port) < PortSize
        /\ port' = Append(port, Head(sending))
        /\ sending' = Tail(sending)
        /\ UNCHANGED <<held, doubled, uart, shift, cons, waiting>>

Receive(c) == /\ uart = NO
              /\ uart' = c
              /\ UNCHANGED <<keyboard, port, shift, cons, waiting>>

-----------------------------------------------------------------------------
(* console.c                                                               *)

Toggle(flags, f) == (flags \cup f) \ (flags \cap f)
SwapCase(c) == CASE c = "a" -> "A" [] c = "A" -> "a" [] OTHER -> c

\* Mutant of KbdProcData: a release does not end the escape.
KbdProcDataEscapeStays(s, data) ==
    LET d == IF "E0ESC" \in s THEN data + 128 ELSE data
        released == IF "E0ESC" \in s THEN data ELSE data - 128
        now == Toggle((s \ {"E0ESC"}) \cup shiftcode(d), togglecode(d))
        c == charcode(now, d)
    IN  CASE data = E0 -> <<s \cup {"E0ESC"}, NO>>
          [] data # E0 /\ data >= 128 -> <<s \ shiftcode(released), NO>>
          [] OTHER -> <<now, IF "CAPSLOCK" \in now THEN SwapCase(c) ELSE c>>

\* kbd_proc_data() of one byte: the shift state after it, and the character.
KbdProcData(s, data) ==
    LET d == IF "E0ESC" \in s THEN data + 128 ELSE data
        released == IF "E0ESC" \in s THEN data ELSE data - 128
        now == Toggle((s \ {"E0ESC"}) \cup shiftcode(d), togglecode(d))
        c == charcode(now, d)
    IN  CASE data = E0 -> <<s \cup {"E0ESC"}, NO>>
          [] data # E0 /\ data >= 128 -> <<s \ (shiftcode(released) \cup {"E0ESC"}), NO>>
          [] OTHER -> <<now, IF "CAPSLOCK" \in now THEN SwapCase(c) ELSE c>>

\* The loop of cons_intr() changes the shift state and the buffer.
Now == [shift |-> shift, cons |-> cons, waiting |-> waiting]

Following(pos) == IF pos + 1 = CONSBUFSIZE THEN 0 ELSE pos + 1

\* One character, or none.  That which would fill the buffer is lost, with all
\* before it.
Put(r, c) == IF c = NO THEN r
             ELSE [r EXCEPT !.cons.buf[r.cons.wpos] = c, !.cons.wpos = Following(@),
                            !.waiting = IF Len(@) = CONSBUFSIZE - 1 THEN <<>> ELSE Append(@, c)]

\* One byte of the keyboard, and all of them.
PutKey(r, data) == LET p == KbdProcData(r.shift, data) IN Put([r EXCEPT !.shift = p[1]], p[2])

PutKeys(r, bytes) ==
    LET after[k \in 0 .. Len(bytes)] == IF k = 0 THEN r ELSE PutKey(after[k - 1], bytes[k])
    IN  after[Len(bytes)]

Becomes(r) == shift' = r.shift /\ cons' = r.cons /\ waiting' = r.waiting

\* The two routines by themselves.  kern/trap.c has no gate for IRQ_KBD and
\* IRQ_SERIAL (module Traps), so in this kernel only cons_getc() calls them: to
\* let them run at any time allows more than the code does.
kbd_intr == /\ port # <<>> /\ port' = <<>>
            /\ Becomes(PutKeys(Now, port))
            /\ UNCHANGED <<keyboard, uart>>

serial_intr == /\ uart # NO /\ uart' = NO
               /\ Becomes(Put(Now, uart))
               /\ UNCHANGED <<keyboard, port>>

\* cons_getc() polls the serial port, then the keyboard, and takes one.
cons_getc ==
    LET r == PutKeys(Put(Now, uart), port)
    IN  /\ port' = <<>> /\ uart' = NO
        /\ Becomes(IF r.cons.rpos = r.cons.wpos THEN r
                   ELSE [r EXCEPT !.cons.rpos = Following(@), !.waiting = Tail(@)])
        /\ UNCHANGED keyboard

Next == \/ \E k \in Keys : Press(k) \/ Release(k)
        \/ Send
        \/ \E c \in Serial : Receive(c)
        \/ kbd_intr \/ serial_intr \/ cons_getc

Spec == Init /\ [][Next]_vars

-----------------------------------------------------------------------------
Flags == {"SHIFT", "CTL", "ALT", "CAPSLOCK", "E0ESC"}
Chars == {"a", "A", "^A", "DEL"} \cup Serial

ConsoleTypeOK ==
    /\ held \subseteq Keys /\ doubled \subseteq Flags /\ shift \subseteq Flags
    /\ Len(port) <= PortSize /\ uart \in Serial \cup {NO}
    /\ cons.rpos \in 0 .. CONSBUFSIZE - 1 /\ cons.wpos \in 0 .. CONSBUFSIZE - 1
    /\ cons.buf \in [0 .. CONSBUFSIZE - 1 -> Chars \cup {NO}]

\* What cons_getc() will return is what came, each character once and in
\* order, whichever device it came from and wherever the buffer ends; only
\* CONSBUFSIZE characters that nobody takes are lost, and those together
\* (cons_intr and cons_getc).
Held(c) == IF c.rpos <= c.wpos THEN c.wpos - c.rpos ELSE c.wpos + CONSBUFSIZE - c.rpos
Slot(c, n) == IF c.rpos + n - 1 < CONSBUFSIZE THEN c.rpos + n - 1 ELSE c.rpos + n - 1 - CONSBUFSIZE
Contents(c) == [n \in 1 .. Held(c) |-> c.buf[Slot(c, n)]]
BufferIsQueue == ConsoleTypeOK /\ Contents(cons) = waiting

\* When all that the keyboard has sent is processed, no modifier is stuck, and
\* one whose key is down is on; after two of its keys were down together that
\* is not promised.  The E0 that is sent before some of the codes, which an
\* interrupt may find alone, is forgotten (kbd_proc_data).
ModifiersAreHeld ==
    sending = <<>> /\ port = <<>> =>
        /\ "E0ESC" \notin shift
        /\ \A f \in {"SHIFT", "CTL", "ALT"} : /\ f \in shift => Down(f) # {}
                                              /\ Down(f) # {} /\ f \notin doubled => f \in shift

\* What the console has received is what its reader will get, and what the
\* modifiers were when the key was pressed is what they are taken to be.
ConsoleRight == BufferIsQueue /\ ModifiersAreHeld
=============================================================================
