-------------------------------- MODULE PrintFmt -------------------------------
(***************************************************************************)
(* vprintfmt() of lib/printfmt.c, which prints for cprintf() in kernel and *)
(* programs, as a function from a format and its arguments to what it puts *)
(* out, and vsnprintf(), which puts that into a buffer.  The state of one  *)
(* escape is a record; an int has IntBits bits, a long long LongLongBits,  *)
(* and an argument is the unsigned number its bits are, or a string.  %c,  *)
(* %e, %p and # are left out.                                              *)
(***************************************************************************)
EXTENDS CString

IntBits == 6
LongLongBits == 8

Pad(c, n) == IF n <= 0 THEN <<>> ELSE [i \in 1 .. n |-> c]

\* printnum(): the last of the pad characters is dropped for each digit.
RECURSIVE printnum(_, _, _, _)
printnum(num, base, width, padc) ==
    IF num >= base THEN Append(printnum(num \div base, base, width - 1, padc), Digits[(num % base) + 1])
    ELSE Append(Pad(padc, width - 1), Digits[num + 1])

Bits(lflag) == IF lflag >= 2 THEN LongLongBits ELSE IntBits
getuint(arg, lflag) == arg % (2 ^ Bits(lflag))

getint(arg, lflag) ==
    LET n == getuint(arg, lflag) IN IF n >= 2 ^ (Bits(lflag) - 1) THEN n - 2 ^ Bits(lflag) ELSE n

\* %d, %u, %o, %x.
Printed(ch, e, arg) ==
    LET n == IF ch = "d" THEN getint(arg, e.lflag) ELSE getuint(arg, e.lflag)
        base == CASE ch = "o" -> 8 [] ch = "x" -> 16 [] OTHER -> 10
    IN  (IF n < 0 THEN <<"-">> ELSE <<>>) \o printnum(IF n < 0 THEN -n ELSE n, base, e.width, e.padc)

\* %s: at most precision characters, in at least width.
PrintedString(e, s) ==
    LET shown == SubSeq(s, 1, IF e.precision \in 0 .. Len(s) THEN e.precision ELSE Len(s))
        left == IF e.padc # "-" THEN Pad(e.padc, e.width - Len(shown)) ELSE <<>>
    IN  left \o shown \o Pad(" ", e.width - Len(left) - Len(shown))

NewEscape == [padc |-> " ", width |-> -1, precision |-> -1, lflag |-> 0]

\* process_precision: a number is the width, and the precision after that.
ProcessPrecision(e, n) == IF e.width < 0 THEN [e EXCEPT !.width = n, !.precision = -1]
                          ELSE [e EXCEPT !.precision = n]

Conversions == {"d", "u", "o", "x"}

\* One escape, from its i-th character: what it puts out, where the format
\* goes on, and the arguments left.  What it does not know is printed as it
\* is: the format goes on at start, after the %.
RECURSIVE Escape(_, _, _, _, _)
Escape(fmt, start, i, e, args) ==
    LET ch == CharAt(fmt, i)
        run == Skip(fmt, i, {"0", "1", "2", "3", "4", "5", "6", "7", "8", "9"})
    IN  CASE ch = "-" -> Escape(fmt, start, i + 1, [e EXCEPT !.padc = "-"], args)
          [] ch = "0" -> Escape(fmt, start, i + 1, [e EXCEPT !.padc = "0"], args)
          [] Digit(ch) \in 1 .. 9 ->
                Escape(fmt, start, run, ProcessPrecision(e, Number(SubSeq(fmt, i, run - 1), 10)), args)
          [] ch = "*" -> Escape(fmt, start, i + 1, ProcessPrecision(e, Head(args)), Tail(args))
          [] ch = "." -> Escape(fmt, start, i + 1, IF e.width < 0 THEN [e EXCEPT !.width = 0] ELSE e, args)
          [] ch = "l" -> Escape(fmt, start, i + 1, [e EXCEPT !.lflag = @ + 1], args)
          [] ch = "s" -> [out |-> PrintedString(e, Head(args)), next |-> i + 1, args |-> Tail(args)]
          [] ch = "%" -> [out |-> <<"%">>, next |-> i + 1, args |-> args]
          [] ch \in Conversions -> [out |-> Printed(ch, e, Head(args)), next |-> i + 1, args |-> Tail(args)]
          [] OTHER -> [out |-> <<"%">>, next |-> start, args |-> args]

\* vprintfmt(), from the i-th character of the format.
RECURSIVE VPrintFmt(_, _, _)
VPrintFmt(fmt, i, args) ==
    CASE i > Len(fmt) -> <<>>
      [] i <= Len(fmt) /\ fmt[i] # "%" -> <<fmt[i]>> \o VPrintFmt(fmt, i + 1, args)
      [] OTHER -> LET r == Escape(fmt, i + 1, i + 1, NewEscape, args)
                  IN  r.out \o VPrintFmt(fmt, r.next, r.args)

\* vsnprintf(): the buffer after it (it returns Len(out)).
vsnprintf(buf, n, out) ==
    LET end == IF Len(out) < n THEN Len(out) + 1 ELSE n
    IN  [i \in DOMAIN buf |-> IF i < end THEN out[i] ELSE IF i = end THEN NUL ELSE buf[i]]

-----------------------------------------------------------------------------
\* A flag, a width, the size and a conversion, as they are printed and as they
\* are meant: the digits are those of the number, with nothing but padding to
\* make them as wide as was asked.  With the flag -, which is to pad on the right
\* (printfmt.c:111), the padding of a number is still in front, and made of -.
NumberFormat(flag, width, long, ch) ==
    <<"%">> \o flag \o (IF width = 0 THEN <<>> ELSE <<Digits[width + 1]>>)
            \o Pad("l", long) \o <<ch>>

NumberAsMeant(flag, width, long, ch, arg) ==
    LET bits == IF long = 2 THEN LongLongBits ELSE IntBits
        low == arg % (2 ^ bits)
        n == IF ch = "d" /\ low >= 2 ^ (bits - 1) THEN low - 2 ^ bits ELSE low
        base == CASE ch = "x" -> 16 [] ch = "o" -> 8 [] OTHER -> 10
        out == VPrintFmt(NumberFormat(flag, width, long, ch), 1, <<arg>>)
        text == IF n < 0 THEN Tail(out) ELSE out
        pad == Skip(text, 1, IF flag = <<"-">> THEN {"-"} ELSE {" "})
        digits == SubSeq(text, IF flag = <<"0">> THEN 1 ELSE pad, Len(text))
    IN  /\ n < 0 => Head(out) = "-"
        /\ Number(digits, base) = IF n < 0 THEN -n ELSE n
        /\ Len(text) >= width
        /\ Len(text) > width => /\ CharAt(text, 1) \notin {" ", "-"}
                                /\ Len(text) > 1 => CharAt(text, 1) # "0"

\* The characters of s that precision allows, and what makes them as wide as
\* width; -1 is no precision, and 0 cannot be written: it is taken for a flag.
StringFormat(flag, width, precision) ==
    <<"%">> \o flag \o (IF width = 0 THEN <<>> ELSE <<Digits[width + 1]>>)
            \o (IF precision < 0 THEN <<>> ELSE <<".", Digits[precision + 1]>>) \o <<"s">>

StringAsMeant(flag, width, precision, s) ==
    LET text == IF precision \in 0 .. Len(s) THEN SubSeq(s, 1, precision) ELSE s
        room == width - Len(text)
    IN  VPrintFmt(StringFormat(flag, width, precision), 1, <<s>>) =
            CASE flag = <<"-">> -> text \o Pad(" ", room)
              [] flag = <<"0">> -> Pad("0", room) \o text
              [] OTHER -> Pad(" ", room) \o text

\* A format without a conversion or a flag that takes an argument is printed
\* as it is, but for what ends with another %, which is printed as one.
Flags == {"-", ".", "l", "0", "1", "2", "3", "4", "5", "6", "7", "8", "9"}
Unescaped(fmt) == \A i \in 1 .. Len(fmt) : fmt[i] \notin Conversions \cup {"s", "*"}

RECURSIVE Literal(_)
Literal(fmt) == LET end == Skip(fmt, 2, Flags) IN
    CASE fmt = <<>> -> <<>>
      [] CharAt(fmt, 1) = "%" /\ CharAt(fmt, end) = "%" -> <<"%">> \o Literal(SubSeq(fmt, end + 1, Len(fmt)))
      [] OTHER -> <<Head(fmt)>> \o Literal(Tail(fmt))
=============================================================================
