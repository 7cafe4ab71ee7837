----------------------------- MODULE MCWorkers -----------------------------
(***************************************************************************)
(* Workers on a small instance: a long of 11 bits, whose texts have up to  *)
(* 5 characters, an int of 9, a float of 6, and texts cut after 4.         *)
(***************************************************************************)
EXTENDS Workers

Command(op, args) == [op |-> op, args |-> args, newline |-> TRUE]

MCLongMin == -1024
MCLongMax == 1023
MCIntMin  == -256
MCIntMax  == 255
MCMinExp  == -11

\* Commands of every kind; words of one become arguments of another when they
\* are read together: a division of 22 by 7, one of 7 by a zero that a newline
\* follows, a sum that fits again after its partial result did not.
MCLines == {
    Command("add", <<MCLongMin, -1>>),
    Command("div", <<>>),
    [op |-> "div", args |-> <<7, 0>>, newline |-> FALSE],
    Command("print", <<Word>>),
    Command("kill", <<22, 7>>),
    Command("blank", <<>>)}

\* A division by zero as a client sends it.
MCZero == {Command("div", <<7, 0>>)}

\* Every answer of the commands that lines have seldom or never is exact for up
\* to three numbers at the ends of the ranges, beyond them, with long quotients
\* and short ones, and for words.
MCNumbers == {MCLongMin, MCLongMax, MCLongMax + 1, 3000, MCIntMin, MCIntMax + 1, -63, 63,
              -22, -1, 0, 1, 7, Word}

ASSUME AnswersChecked ==
    \A op \in {"mul", "sub", "div"}, newline \in BOOLEAN :
        \A args \in UNION {[1 .. n -> MCNumbers] : n \in 0 .. 3} :
            Exact([op |-> op, args |-> args, newline |-> newline], Answer(op, args, newline))
=============================================================================
