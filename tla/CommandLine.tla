------------------------------ MODULE CommandLine ------------------------------
(***************************************************************************)
(* How the shell reads a line: parsing.c, createcmd.c and utils.c as       *)
(* functions from the characters of the line, the environment and $? to    *)
(* the commands of a pipe, the first of them first.  Strings are sequences *)
(* of characters.                                                          *)
(***************************************************************************)
EXTENDS Integers, SequencesExt

SPACE == " "

\* block_contains(), counted from 1: where c is first, or 0.
block_contains(s, c) == SelectInSeq(s, LAMBDA x : x = c)

From(s, i) == SubSeq(s, i, Len(s))
Upto(s, i) == SubSeq(s, 1, i)

\* split_line(): what is before the splitter, and after it and spaces.
split_line(s, splitter) ==
    LET at == block_contains(s, splitter)
        rest == From(s, at + 1)
        text == SelectInSeq(rest, LAMBDA x : x # SPACE)
    IN  IF at = 0 THEN <<s, <<>>>>
        ELSE <<Upto(s, at - 1), IF text = 0 THEN <<>> ELSE From(rest, text)>>

\* get_token(), until the end; two spaces have an empty token between them.
Tokens(s) == FoldLeft(LAMBDA ts, c : IF c = SPACE THEN Append(ts, <<>>)
                                     ELSE [ts EXCEPT ![Len(ts)] = Append(@, c)], <<<<>>>>, s)

\* No status and no variable is longer than the buffer it is copied to here.
expand_environ_var(arg, environ) ==
    CASE arg = <<>> \/ arg[1] # "$" -> arg
      [] arg # <<>> /\ arg[1] = "$" /\ IsPrefix(<<"?">>, Tail(arg)) -> environ[<<"?">>]
      [] OTHER -> IF Tail(arg) \in DOMAIN environ THEN environ[Tail(arg)] ELSE <<>>

exec_cmd_create == [type |-> "EXEC", argv |-> <<>>, eargv |-> <<>>,
                    out_file |-> <<>>, err_file |-> <<>>, in_file |-> <<>>]

parse_redir_flow(c, arg) ==
    LET out == block_contains(arg, ">")
        r == [c EXCEPT !.type = "REDIR"]
    IN  CASE out = 1 -> [r EXCEPT !.out_file = From(arg, 2)]
          [] out = 2 -> [r EXCEPT !.err_file = From(arg, 3)]
          [] out > 2 -> r
          [] OTHER -> [r EXCEPT !.in_file = From(arg, 2)]

IsRedir(arg) == block_contains(arg, ">") > 0 \/ block_contains(arg, "<") > 0
IsSetting(arg) == block_contains(arg, "=") > 1 /\ block_contains(arg, "-") = 0

\* One turn of the loop of parse_exec().
parse_token(c, tok, environ) ==
    LET arg == expand_environ_var(tok, environ) IN
    CASE IsRedir(tok) -> parse_redir_flow(c, tok)
      [] ~ IsRedir(tok) /\ IsSetting(tok) -> [c EXCEPT !.eargv = Append(@, tok)]
      [] OTHER -> IF arg = <<>> THEN c ELSE [c EXCEPT !.argv = Append(@, arg)]

parse_exec(s, environ) == FoldLeft(LAMBDA c, tok : parse_token(c, tok, environ), exec_cmd_create, Tokens(s))

\* Where the & of a command in the background is, or 0.
Background(s) == LET at == block_contains(s, "&") IN IF at > 1 /\ s[at - 1] = ">" THEN 0 ELSE at

parse_cmd(s, environ) ==
    [back |-> Background(s) > 0,
     cmd |-> parse_exec(IF Background(s) > 0 THEN Upto(s, Background(s) - 1) ELSE s, environ)]

\* A command with nothing left of the next splitter is NULL, and left out.
RECURSIVE parse_line(_, _)
parse_line(s, environ) ==
    LET part == split_line(s, "|")
        left == IF part[1] = <<>> THEN <<>> ELSE <<parse_cmd(part[1], environ)>>
    IN  IF part[2] = <<>> THEN left ELSE left \o parse_line(part[2], environ)

-----------------------------------------------------------------------------
(* A line as somebody means it: commands, each a sequence of words, of     *)
(* which the last of a kind of redirection counts.                         *)

Word(kind, text) == [kind |-> kind, text |-> text]

Written(w) == CASE w.kind = "out" -> <<">">> \o w.text [] w.kind = "err" -> <<"2", ">">> \o w.text
                [] w.kind = "in" -> <<"<">> \o w.text [] w.kind = "value" -> <<"$">> \o w.text
                [] OTHER -> w.text

Gap(n) == [i \in 1 .. n |-> SPACE]

\* The words with gap spaces between them, and after the last.
WrittenCommand(words, back, gap) ==
    FoldLeft(LAMBDA s, w : s \o Written(w) \o Gap(gap), <<>>, words) \o (IF back THEN <<"&">> ELSE <<>>)

WrittenLine(commands, gap) ==
    FoldLeft(LAMBDA s, c : IF s = <<>> THEN WrittenCommand(c.words, c.back, gap)
                           ELSE s \o <<"|">> \o Gap(gap - 1) \o WrittenCommand(c.words, c.back, gap),
             <<>>, commands)

TextsOf(words, kind) ==
    LET these == SelectSeq(words, LAMBDA w : w.kind = kind) IN [i \in DOMAIN these |-> these[i].text]
LastOf(words, kind) == LET these == TextsOf(words, kind) IN IF these = <<>> THEN <<>> ELSE Last(these)

\* What a word adds to the arguments; a variable that is not set adds nothing.
Argument(w, environ) ==
    CASE w.kind = "arg" -> <<w.text>>
      [] w.kind = "value" /\ w.text \in DOMAIN environ -> <<environ[w.text]>>
      [] OTHER -> <<>>

Meant(words, environ) ==
    [type |-> IF \E i \in DOMAIN words : words[i].kind \in {"out", "err", "in"} THEN "REDIR" ELSE "EXEC",
     argv |-> FoldLeft(LAMBDA a, w : a \o Argument(w, environ), <<>>, words),
     eargv |-> TextsOf(words, "set"),
     out_file |-> LastOf(words, "out"), err_file |-> LastOf(words, "err"), in_file |-> LastOf(words, "in")]

ReadAsMeant(commands, gap, environ) ==
    parse_line(WrittenLine(commands, gap), environ) =
        [i \in DOMAIN commands |-> [back |-> commands[i].back, cmd |-> Meant(commands[i].words, environ)]]
=============================================================================
