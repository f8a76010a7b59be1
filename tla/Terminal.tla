-------------------------------- MODULE Terminal --------------------------------
(***************************************************************************)
(* What the kernel monitor does with what is typed: readline(), which      *)
(* edits a line and echoes it, cga_putc(), which shows it, and runcmd(),   *)
(* which cuts it into arguments; as functions of the characters.  BS, DEL, *)
(* TAB, NL and CR are characters, and what is none of these or " " is a    *)
(* letter.                                                                 *)
(***************************************************************************)
EXTENDS CString

CRT_ROWS == 2
CRT_COLS == 3
CRT_SIZE == CRT_ROWS * CRT_COLS
BUFLEN == 8
MAXARGS == 3

Blank == [crt_buf |-> [i \in 0 .. CRT_SIZE - 1 |-> " "], crt_pos |-> 0]

\* When the cursor is past the end the rows move up by one.
Scrolled(t) ==
    IF t.crt_pos < CRT_SIZE THEN t
    ELSE [crt_buf |-> [i \in 0 .. CRT_SIZE - 1 |->
                          IF i < CRT_SIZE - CRT_COLS THEN t.crt_buf[i + CRT_COLS] ELSE " "],
          crt_pos |-> t.crt_pos - CRT_COLS]

LineStart(pos) == pos - (pos % CRT_COLS)
Shown(t, c) == Scrolled([crt_buf |-> [t.crt_buf EXCEPT ![t.crt_pos] = c], crt_pos |-> t.crt_pos + 1])

cga_putc(t, c) ==
    CASE c = "BS" -> IF t.crt_pos = 0 THEN t
                     ELSE [crt_buf |-> [t.crt_buf EXCEPT ![t.crt_pos - 1] = " "], crt_pos |-> t.crt_pos - 1]
      [] c = "NL" -> Scrolled([t EXCEPT !.crt_pos = LineStart(@ + CRT_COLS)])
      [] c = "CR" -> [t EXCEPT !.crt_pos = LineStart(@)]
      [] c = "TAB" -> FoldLeft(Shown, t, [i \in 1 .. 5 |-> " "])
      [] OTHER -> Shown(t, c)

cputs(t, s) == FoldLeft(cga_putc, t, s)

-----------------------------------------------------------------------------
Erases(c) == c \in {"BS", "DEL"}
Control(c) == c \in {"BS", "TAB", "NL", "CR"}

\* One character of readline(): a DEL with nothing to erase is a character.
Keyed(r, c) ==
    CASE r.done -> r
      [] ~ r.done /\ Erases(c) /\ r.buf # <<>> -> [r EXCEPT !.buf = Front(@), !.screen = cga_putc(@, "BS")]
      [] ~ r.done /\ ~ (Erases(c) /\ r.buf # <<>>) /\ ~ Control(c) /\ Len(r.buf) < BUFLEN - 1 ->
            [r EXCEPT !.buf = Append(@, c), !.screen = cga_putc(@, c)]
      [] ~ r.done /\ c \in {"NL", "CR"} -> [r EXCEPT !.done = TRUE, !.screen = cga_putc(@, "NL")]
      [] OTHER -> r

readline(screen, prompt, keys) ==
    FoldLeft(Keyed, [buf |-> <<>>, screen |-> cputs(screen, prompt), done |-> FALSE], keys)

\* Until the line ends the cursor is on the screen and follows what has been
\* read, after the prompt, as far as the screen has kept it; what goes up is a
\* row at a time.
ShowsLine(screen, prompt, keys) ==
    LET r == readline(screen, prompt, keys)
        text == prompt \o r.buf
        pos == r.screen.crt_pos
    IN  /\ pos \in 0 .. CRT_SIZE - 1 /\ Len(r.buf) < BUFLEN
        /\ ~ r.done => \A n \in 1 .. Len(text) :
                            n <= pos => r.screen.crt_buf[pos - n] = text[Len(text) + 1 - n]
        /\ (\A i \in DOMAIN keys : ~ Erases(keys[i])) => pos >= Min({Len(text), CRT_SIZE - CRT_COLS})

-----------------------------------------------------------------------------
WHITESPACE == {" ", "TAB", "NL", "CR"}
TooMany == <<"Too many arguments">>

\* The first index from i at which there is whitespace, or the end.
RECURSIVE EndOfWord(_, _)
EndOfWord(s, i) == IF CharAt(s, i) \in WHITESPACE \cup {NUL} THEN i ELSE EndOfWord(s, i + 1)

\* Mutant of Arguments: the last place of argv[] is used.
RECURSIVE ArgumentsFull(_, _, _)
ArgumentsFull(s, i, argv) ==
    LET start == Skip(s, i, WHITESPACE)
        end == EndOfWord(s, start)
    IN  CASE start > Len(s) -> argv
          [] start <= Len(s) /\ Len(argv) = MAXARGS -> TooMany
          [] OTHER -> ArgumentsFull(s, end, Append(argv, SubSeq(s, start, end - 1)))

\* The loop of runcmd() from the i-th character: argv[], which a null ends.
RECURSIVE Arguments(_, _, _)
Arguments(s, i, argv) ==
    LET start == Skip(s, i, WHITESPACE)
        end == EndOfWord(s, start)
    IN  CASE start > Len(s) -> argv
          [] start <= Len(s) /\ Len(argv) = MAXARGS - 1 -> TooMany
          [] OTHER -> Arguments(s, end, Append(argv, SubSeq(s, start, end - 1)))

\* The words of s are its longest runs without whitespace.
WordsOf(s) ==
    LET starts == {i \in 1 .. Len(s) : s[i] \notin WHITESPACE /\ (i = 1 \/ CharAt(s, i - 1) \in WHITESPACE)}
        order == SetToSortSeq(starts, <)
    IN  [k \in DOMAIN order |-> SubSeq(s, order[k], EndOfWord(s, order[k]) - 1)]

ArgumentsAreWords(s) ==
    Arguments(s, 1, <<>>) = IF Len(WordsOf(s)) < MAXARGS THEN WordsOf(s) ELSE TooMany
=============================================================================
