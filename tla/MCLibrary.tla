------------------------------- MODULE MCLibrary -------------------------------
(***************************************************************************)
(* The parts that work alone: the console's input, the exception stack,    *)
(* the content of a file and the start of the CPUs as machines of their    *)
(* own, and single calls of the routines that are functions of their       *)
(* arguments, on every argument up to the bounds below, each compared with *)
(* what the routine is for.  A behaviour runs one of them; the others stay *)
(* as they are at the start.                                               *)
(***************************************************************************)
EXTENDS Console, ExceptionStack, FileContent, StartUp

\* An address space of eight pages.
PGSIZE == 4
PAGES == 8
LPGSIZE == 4
UTOP == 24
USTACKTOP == 20

S == INSTANCE CString
P == INSTANCE PrintFmt
K == INSTANCE Stabs
L == INSTANCE CommandLine
T == INSTANCE Terminal
B == INSTANCE Boot
R == INSTANCE Traps
X == INSTANCE Xargs

VARIABLES
    part,  \* which of the parts runs
    call   \* the routine and its arguments, or NoCall

NoCall == [of |-> "nothing"]

\* Of the buffer, what is in it: the rest is never read.
LibraryView == <<keyboard, port, uart, shift, Contents(cons), waiting, cons.rpos, cons.wpos,
                 stackVars, contentVars, IF part = "start-up" THEN startVars ELSE <<>>, part, call>>

Strings(chars, n) == UNION {[1 .. k -> chars] : k \in 0 .. n}
Begin(name, args) == call' = [of |-> name, args |-> args]

-----------------------------------------------------------------------------
Memory == [a \in 0 .. 11 |-> a]
CallMemmove == \E dst, src \in DOMAIN Memory, n \in 0 .. 8 :
                  dst + n <= 12 /\ src + n <= 12 /\ Begin("memmove", <<dst, src, n>>)

\* Whatever the two ranges share, n bytes of src are at dst afterwards, and
\* nothing else has changed (memmove).
Moved == call.of = "memmove" =>
            LET a == call.args
            IN  S!Memmove(Memory, a[1], a[2], a[3]) = S!MemmoveOf(Memory, a[1], a[2], a[3])

CallStrtol == \E s \in Strings({" ", "-", "0", "x", "7", "a"}, 4), base \in {0, 8, 10, 16} :
                  Begin("strtol", <<s, base>>)

\* strtol() finds the number where the standard says it is, in its base, and
\* *endptr is behind its last digit; what it does where there is no digit, which
\* is not what the standard says, is in Reads.
NumberRead == call.of = "strtol" =>
                 LET a == call.args
                     r == S!Strtol(a[1], a[2])
                 IN  r[2] <= Len(a[1]) + 1 /\ S!Reads(a[1], a[2], r[1], r[2])

CallStrlcpy == \E s \in Strings({"a", "b"}, 4), room \in 0 .. 4 : Begin("strlcpy", <<s, room>>)

\* A string in a buffer ends in it: strlcpy() and vsnprintf() keep what fits
\* and nothing is written after its end.
BufferHolds == call.of = "strlcpy" =>
                  LET s == call.args[1]
                      room == call.args[2]
                      before == <<"-", "-", "-", "-", "-">>
                  IN  /\ S!StrlcpyOf(before, s, room)
                      /\ room > 0 => P!vsnprintf(before, room, s) = S!Strlcpy(before, s, room)[1]

-----------------------------------------------------------------------------
CallPrintNumber == \E flag \in {<<>>, <<"0">>, <<"-">>}, width \in 0 .. 4, long \in 0 .. 2,
                      ch \in {"d", "u", "o", "x"}, arg \in 0 .. 255 :
                      Begin("printf", <<flag, width, long, ch, arg>>)

\* A number is printed as the digits of its value, of the width and sign that
\* the format says, from the smallest int to the largest unsigned long long; the
\* padding is in front, also with the flag -, see NumberAsMeant.
NumberPrinted == call.of = "printf" =>
                    LET a == call.args IN P!NumberAsMeant(a[1], a[2], a[3], a[4], a[5])

CallPrintString == \E flag \in {<<>>, <<"-">>, <<"0">>}, width \in 0 .. 4, precision \in {-1, 1, 2, 3},
                      s \in Strings({"a", "b"}, 3) : Begin("printf %s", <<flag, width, precision, s>>)

\* A string is cut to its precision and padded to its width, and the two are
\* not mixed up (vprintfmt).
StringPrinted == call.of = "printf %s" =>
                    LET a == call.args IN P!StringAsMeant(a[1], a[2], a[3], a[4])

CallPrintLiteral == \E fmt \in Strings({"%", "l", "0", "5", "q", "-", "."}, 4) : Begin("literal", <<fmt>>)

\* What is no conversion is printed as it stands: an escape that vprintfmt()
\* does not know, or that the format ends in, is neither lost nor passed over.
LiteralPrinted == call.of = "literal" =>
                     LET fmt == call.args[1] IN P!VPrintFmt(fmt, 1, <<>>) = P!Literal(fmt)

-----------------------------------------------------------------------------
StabTables == {t \in [0 .. 3 -> [n_type : {"FUN", "SLINE"}, n_value : 0 .. 3]] :
                  \A i, j \in 0 .. 3 : i < j /\ t[i].n_type = t[j].n_type => t[i].n_value < t[j].n_value}
CallSearch == \E stabs \in StabTables, addr \in 0 .. 4 : Begin("stab_binsearch", <<stabs, addr>>)

\* Stabs of several types are mixed, sorted among each type only: the search
\* finds the last of its type that is not above the address, and where the
\* next one is (stab_binsearch).
StabFound == call.of = "stab_binsearch" => K!Promised(call.args[1], 0, 3, "FUN", call.args[2])

CallDebuginfo == \E start \in 2 .. 4, first \in 2 .. 3, gap, last \in 1 .. 3, offset \in 0 .. 11 :
                    LET second == start + first + gap
                        end == second + first + last
                    IN  start + offset < end /\ Begin("debuginfo_eip", <<start, first, second, end, start + offset>>)

\* An address of a backtrace is given the line, file, function and number of
\* arguments it has in the source (debuginfo_eip).
LineFound == call.of = "debuginfo_eip" =>
                LET a == call.args IN K!Located(a[1], a[2], a[3], a[4], a[5])

-----------------------------------------------------------------------------
ShellWords == {L!Word("arg", <<"p">>), L!Word("arg", <<"-", "K", "=", "v">>), L!Word("out", <<"f">>),
               L!Word("err", <<"g">>), L!Word("err", <<"&", "1">>), L!Word("in", <<"f">>),
               L!Word("set", <<"K", "=", "v">>), L!Word("value", <<"K">>), L!Word("value", <<"U">>),
               L!Word("value", <<"?">>)}
Environ == [name \in {<<"?">>, <<"K">>} |-> IF name = <<"K">> THEN <<"v", "v">> ELSE <<"0">>]
Foreground(words) == [words |-> words, back |-> FALSE]
CallParseLine ==
    \E gap \in 1 .. 2, words \in Strings(ShellWords, 3) \ {<<>>} :
       \/ Begin("parse_line", <<<<Foreground(words)>>, gap>>)
       \/ /\ L!Word("err", <<"&", "1">>) \notin ToSet(words)
          /\ Begin("parse_line", <<<<[words |-> words, back |-> TRUE]>>, gap>>)
       \/ \E i \in 1 .. Len(words) - 1 :
             Begin("parse_line", <<<<Foreground(SubSeq(words, 1, i)), Foreground(SubSeq(words, i + 1, Len(words)))>>, gap>>)

\* The shell runs what was typed: each command of a pipe with its arguments in
\* order, its variables, and the last redirection of each kind, whatever the
\* spaces, and in the background only when an & stands for that (parse_line).
LineUnderstood == call.of = "parse_line" => L!ReadAsMeant(call.args[1], call.args[2], Environ)

CallReadline == \E prompt \in {<<>>, <<">">>} :
                   \/ \E keys \in Strings({"a", "b", "BS", "DEL"}, 6) : Begin("readline", <<prompt, keys>>)
                   \/ \E n \in 4 .. 8, keys \in Strings({"b", "BS", "TAB"}, 4) :
                         Begin("readline", <<prompt, [i \in 1 .. n |-> "a"] \o keys>>)

\* What the monitor's user sees is what the monitor will read: after erasing,
\* wrapping at the last column and scrolling at the last row, too.
LineShown == call.of = "readline" => T!ShowsLine(T!Blank, call.args[1], call.args[2])

CallRuncmd == \E s \in Strings({" ", "TAB", "a"}, 6) : Begin("runcmd", <<s>>)

\* The monitor's argv[] has the words of the line and room for the null after
\* them, or the command is refused (runcmd).
CommandCut == call.of = "runcmd" => T!ArgumentsAreWords(call.args[1])

CallXargs == \E lines \in Strings({<<"a">>, <<"b">>}, 8), newline \in BOOLEAN, fails \in 1 .. 4 :
                Begin("xargs", <<lines, newline, fails>>)

\* The command of xargs is run on each line once, NARGS lines at a time, and
\* not on what the run before it left in the array (Fork/xargs.c).
LinesPassed == call.of = "xargs" =>
                  LET a == call.args IN X!RunsOnLines(a[1], a[2], a[3])

-----------------------------------------------------------------------------
CallPageInit == \E n \in 8 .. 10, end \in 20 .. 26, sizes \in Strings(0 .. 5, 3) :
                   Begin("page_init", <<[npages |-> n, mpentry |-> 2, io |-> 4, ext |-> 5, end |-> end], sizes>>)

\* page_alloc() will never give away what the kernel, a device or a chunk of
\* boot_alloc() is in, and no page is lost (page_init).
PagesFree == call.of = "page_init" => B!PagesAccounted(call.args[1], call.args[2])

CallMapRegion == \E va \in 0 .. 7, bytes \in 1 .. 8, pa \in 0 .. 6 :
                    va + bytes <= PAGES /\ Begin("boot_map_region", <<va, bytes, pa>>)

\* Large pages where they fit translate as the small ones they stand for, and
\* nothing outside the region is mapped (boot_map_region).
RegionRight == call.of = "boot_map_region" =>
                  LET a == call.args IN B!RegionMapped(a[1], a[2], a[3])

CallMemCheck == \E mapped \in SUBSET (3 .. 5), va \in 12 .. 24, len \in 1 .. 9, perm \in {{"U"}, {"U", "W"}} :
                   \E ptes \in [mapped -> {{"U"}, {"U", "W"}}] : Begin("user_mem_check", <<ptes, va, len, perm>>)

\* A range that starts or ends inside a page is checked to its last byte, and
\* the address that is reported is the first that is wrong, if the range does
\* not go over UTOP (user_mem_check); see RangeChecked for the others.
RangeRight == call.of = "user_mem_check" =>
                 LET a == call.args IN B!RangeChecked(a[1], a[2], a[3], a[4])

Segments == {s \in [load : BOOLEAN, va : {4, 6, 9, 12}, memsz : {1, 3, 5}, file : Strings({"x"}, 2)] :
                Len(s.file) <= s.memsz}
CallLoadIcode == \E segments \in Strings(Segments, 2) : Begin("load_icode", <<segments>>)

\* A program starts with the bytes of its file and zeros after them, in pages
\* that are not cleared when they are allocated, and with a stack (load_icode).
ImageRight == call.of = "load_icode" => B!ProgramLoaded(call.args[1])

CallMpInit == \E entries \in Strings({"boot", "cpu", "other", "unknown"}, 4) : Begin("mp_init", <<entries>>)

\* bootcpu is the boot processor wherever it is in the table, and the CPUs
\* that are counted fit in cpus[] (mp_init).
CpusRight == call.of = "mp_init" => B!CpusFound(call.args[1])

-----------------------------------------------------------------------------
CallTrap == \E e \in R!Causes, cs \in {"user", "kernel"} :
               (e.cause = "int" => cs = "user") /\ Begin("trap", <<e, cs>>)

\* Whether or not the processor pushes an error code, trap() finds each value
\* in its field; a program goes on with every register as it was; and with int
\* it gets no further than it is meant to (trapentry.S, trap_init, switch.S).
TrapsRight == call.of = "trap" => R!TrapMeant(call.args[1], call.args[2])

\* kern/trap.c:216: "Handle spurious interrupts.  The hardware sometimes raises
\* these because of noise on the IRQ line or other reasons.  We don't care."
\* The table has no gate for them, and trap_dispatch() is told of a protection
\* fault.
SpuriousHarmless == call.of = "trap" => R!SpuriousIgnored(call.args[1], call.args[2])

-----------------------------------------------------------------------------
\* The routines on memory, numbers and formats of lib/string.c and
\* lib/printfmt.c do what their callers count on at every width and boundary.
StringsRight == Moved /\ NumberRead /\ BufferHolds /\ NumberPrinted /\ StringPrinted /\ LiteralPrinted

\* A line is read as it was typed, by the shell (parsing.c), xargs and the monitor
\* (lib/readline.c, kern/monitor.c), on a screen that shows it as it is read,
\* and a backtrace names the right line of the source (kern/kdebug.c).
LinesRight == LineUnderstood /\ LineShown /\ CommandCut /\ LinesPassed /\ StabFound /\ LineFound

\* What the boot sets up, page by page and CPU by CPU, holds for good: memory
\* is free, mapped, filled and checked to the last byte (kern/pmap.c,
\* kern/env.c, kern/mpconfig.c).
BootRight == PagesFree /\ RegionRight /\ RangeRight /\ ImageRight /\ CpusRight

-----------------------------------------------------------------------------
Call == \/ CallMemmove \/ CallStrtol \/ CallStrlcpy
        \/ CallPrintNumber \/ CallPrintString \/ CallPrintLiteral
        \/ CallSearch \/ CallDebuginfo
        \/ CallParseLine \/ CallReadline \/ CallRuncmd \/ CallXargs
        \/ CallPageInit \/ CallMapRegion \/ CallMemCheck \/ CallLoadIcode \/ CallMpInit
        \/ CallTrap

LibraryInit == /\ Init /\ StackInit /\ ContentInit /\ StartInit
               /\ part \in {"console", "exception stack", "file", "start-up", "calls"}
               /\ part # "exception stack" => eip = Min(Eips)
               /\ part # "start-up" => ~pse /\ found = 0
               /\ call = NoCall

LibraryNext ==
    /\ UNCHANGED part
    /\ \/ part = "console" /\ Next /\ UNCHANGED <<stackVars, contentVars, startVars, call>>
       \/ part = "exception stack" /\ StackNext /\ UNCHANGED <<vars, contentVars, startVars, call>>
       \/ part = "file" /\ ContentNext /\ UNCHANGED <<vars, stackVars, startVars, call>>
       \/ part = "start-up" /\ StartNext /\ UNCHANGED <<vars, stackVars, contentVars, call>>
       \/ /\ part = "calls"
          /\ IF call = NoCall THEN Call ELSE call' = NoCall
          /\ UNCHANGED <<vars, stackVars, contentVars, startVars>>

LibrarySpec == LibraryInit /\ [][LibraryNext]_<<vars, stackVars, contentVars, startVars, part, call>>
=============================================================================
