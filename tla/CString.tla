-------------------------------- MODULE CString --------------------------------
(***************************************************************************)
(* The memory and number routines of lib/string.c, which kernel and        *)
(* programs share, as functions of what they are given.                    *)
(***************************************************************************)
EXTENDS Integers, SequencesExt

Word == 4   \* bytes that movsl moves

\* Mutant of Backwards: memory is always moved from its start.
BackwardsNever(dst, src, n) == FALSE

\* memmove() starts with the last bytes when the first would overwrite them.
Backwards(dst, src, n) == src < dst /\ src + n > dst

\* How many bytes memmove() moves at a time.
Unit(dst, src, n) == IF \A x \in {dst, src, n} : x % Word = 0 THEN Word ELSE 1

\* memmove() of n bytes of mem, step by step.
Memmove(mem, dst, src, n) ==
    LET unit == Unit(dst, src, n)
        steps == n \div unit
        At(k) == unit * IF Backwards(dst, src, n) THEN steps - k ELSE k - 1
        after[k \in 0 .. steps] ==
            IF k = 0 THEN mem
            ELSE [a \in DOMAIN mem |-> IF a - dst - At(k) \in 0 .. unit - 1
                                       THEN after[k - 1][a - dst + src] ELSE after[k - 1][a]]
    IN  after[steps]

MemmoveOf(mem, dst, src, n) ==
    [a \in DOMAIN mem |-> IF a \in dst .. dst + n - 1 THEN mem[a - dst + src] ELSE mem[a]]

-----------------------------------------------------------------------------
(* Strings are sequences of characters; NUL is what follows the last.      *)

NUL == "NUL"
CharAt(s, i) == IF i \in 1 .. Len(s) THEN s[i] ELSE NUL

\* strlcpy(): the buffer after it, and what it returns.
Strlcpy(dst, s, size) ==
    LET n == IF Len(s) < size THEN Len(s) ELSE size - 1
    IN  IF size = 0 THEN <<dst, 0>>
        ELSE <<[i \in DOMAIN dst |-> IF i <= n THEN s[i] ELSE IF i = n + 1 THEN NUL ELSE dst[i]], n>>

\* What is read from the buffer is the longest prefix of s that it holds, and
\* nothing is written after size bytes.
StrlcpyOf(dst, s, size) ==
    LET r == Strlcpy(dst, s, size) IN
    /\ \A i \in DOMAIN dst : i > size => r[1][i] = dst[i]
    /\ size > 0 => /\ \E i \in 1 .. size : r[1][i] = NUL
                   /\ IsPrefix(SubSeq(r[1], 1, r[2]), s) /\ r[1][r[2] + 1] = NUL
                   /\ r[2] < Len(s) => r[2] = size - 1

-----------------------------------------------------------------------------
(* strtol().  long has LongBits bits here.                                 *)

LongBits == 8
AsLong(x) == ((x + 2 ^ (LongBits - 1)) % 2 ^ LongBits) - 2 ^ (LongBits - 1)

Digits == <<"0", "1", "2", "3", "4", "5", "6", "7", "8", "9", "a", "b", "c", "d", "e", "f", "g">>
DigitChars == {Digits[i] : i \in DOMAIN Digits}
Digit(c) == IF c \in DigitChars THEN (CHOOSE i \in DOMAIN Digits : Digits[i] = c) - 1 ELSE 99

\* The first index from i at which s has something else than chars.
Skip(s, i, chars) == Min({k \in i .. Len(s) + 1 : CharAt(s, k) \notin chars})

\* Where the digits start, and their base.
Prefix(s, i, base) ==
    CASE base \in {0, 16} /\ CharAt(s, i) = "0" /\ CharAt(s, i + 1) = "x" -> <<i + 2, 16>>
      [] base = 0 /\ CharAt(s, i) = "0" /\ CharAt(s, i + 1) # "x" -> <<i + 1, 8>>
      [] base = 0 /\ CharAt(s, i) # "0" -> <<i, 10>>
      [] OTHER -> <<i, base>>

\* The digits from i on, to the first character that is none.
Accumulate(s, i, base) ==
    LET end == Min({k \in i .. Len(s) + 1 : Digit(CharAt(s, k)) >= base})
        val[k \in i .. end] == IF k = i THEN 0 ELSE AsLong(val[k - 1] * base + Digit(CharAt(s, k - 1)))
    IN  <<val[end], end>>

\* The value, and where *endptr points.
Strtol(s, base) ==
    LET blank == Skip(s, 1, {" "})
        signed == IF CharAt(s, blank) \in {"+", "-"} THEN blank + 1 ELSE blank
        prefix == Prefix(s, signed, base)
        val == Accumulate(s, prefix[1], prefix[2])
    IN  <<IF CharAt(s, blank) = "-" THEN AsLong(-val[1]) ELSE val[1], val[2]>>

\* The number a sequence of digits is in a base.
Number(digits, base) ==
    LET power[k \in 0 .. Len(digits)] ==
            IF k = 0 THEN 0 ELSE power[k - 1] * base + Digit(digits[k])
    IN  power[Len(digits)]

\* What the whole of t is for the standard, if it is of the form that it
\* expects: blanks, a sign, 0x in base 16 or 0, and digits, of which the first
\* tells the base if that is 0.  A number too large is cut to its low bits,
\* where the standard has the largest one (string.c:285 says so).
Meant(t, base) ==
    LET parts == {p \in (0 .. Len(t)) \X {<<>>, <<"+">>, <<"-">>} \X {<<>>, <<"0", "x">>} :
                     /\ IsPrefix([i \in 1 .. p[1] |-> " "] \o p[2] \o p[3], t)
                     /\ p[3] # <<>> => base \in {0, 16}}
        text(p) == SubSeq(t, p[1] + Len(p[2]) + Len(p[3]) + 1, Len(t))
        in(p) == CASE p[3] # <<>> -> 16
                   [] p[3] = <<>> /\ base = 0 -> IF Head(text(p)) = "0" THEN 8 ELSE 10
                   [] OTHER -> base
        size(p) == Number(text(p), in(p))
    IN  {AsLong(IF p[2] = <<"-">> THEN -size(p) ELSE size(p)) :
            p \in {q \in parts : text(q) # <<>> /\ \A i \in DOMAIN text(q) : Digit(text(q)[i]) < in(q)}}

\* How the standard reads s: the longest prefix of that form, which ends at
\* *endptr; if there is none, 0, and *endptr is s.
StandardEnd(s, base) == Max({1} \cup {k + 1 : k \in {k \in 1 .. Len(s) : Meant(SubSeq(s, 1, k), base) # {}}})
StandardValues(s, base) ==
    LET end == StandardEnd(s, base) IN IF end = 1 THEN {0} ELSE Meant(SubSeq(s, 1, end - 1), base)

\* strtol() reads what the standard does and leaves *endptr there, but where it
\* finds no digit: behind the 0x that none follows, of which the standard takes
\* the 0 (string.c:262-264), or behind blanks and sign, where the standard goes
\* back to s (string.c:252-289).
Reads(s, base, value, end) ==
    LET standard == StandardEnd(s, base) IN
    /\ value \in StandardValues(s, base)
    /\ \/ end = standard
       \/ /\ end = standard + 1 /\ base \in {0, 16}
          /\ CharAt(s, end - 2) = "0" /\ CharAt(s, end - 1) = "x" /\ Digit(CharAt(s, end)) >= 16
       \/ /\ standard = 1 /\ Digit(CharAt(s, end)) >= IF base = 0 THEN 10 ELSE base
          /\ \A i \in 1 .. end - 1 : CharAt(s, i) \in {" ", "+", "-"}
=============================================================================
