----------------------------- MODULE Arithmetic -----------------------------
(***************************************************************************)
(* The arithmetic commands of sockets/server.c, add, multiply, subtract    *)
(* and divide, from the arguments of a command to the bytes the client     *)
(* gets.  Integers have the width of a C long or int and wrap around when  *)
(* they overflow, as the built program does; a quotient is that of floats; *)
(* a number is sent as so many bytes of its decimal text, which may be too *)
(* few.                                                                    *)
(*                                                                         *)
(* An argument is an integer, the number that strtol() or strtod() finds   *)
(* at its beginning, or Word when there is none.                           *)
(***************************************************************************)
EXTENDS Integers, SequencesExt

CONSTANTS Word,              \* an argument that is not a number
          LongMin, LongMax,  \* the range of a long: add, mul
          IntMin, IntMax,    \* the range of an int: sub
          Precision,         \* the bits of a float: div
          MinExp, MaxExp,    \* a float is a multiple of 2 ^ i, for i in this range
          Digits,            \* how many digits the integral part of a number may have
          Cut,               \* sizeof(out): the bytes mul, sub and div send
          Room               \* the bytes add sends

Abs(n) == IF n < 0 THEN -n ELSE n

\* The decimal text of an integer has so many characters.
NumChars(n) ==
    Cardinality({k \in 1 .. Digits - 1 : 10 ^ k <= Abs(n)}) + IF n < 0 THEN 2 ELSE 1

\* As in the program, where they are 64 and 32 bits, 24, -149 and 104, 39, 8
\* and 20.
ASSUME ArithmeticAssumption ==
    /\ LongMin \in Int /\ LongMax \in Int /\ LongMin < -1 /\ LongMax = -(LongMin + 1)
    /\ IntMin \in LongMin .. -1 /\ IntMax = -(IntMin + 1)
    /\ Precision \in Nat \ {0} /\ MinExp \in Int /\ MaxExp \in Nat
    /\ MinExp <= 1 - 2 * Precision
    /\ Digits \in Nat /\ Cut \in Nat \ {0, 1} /\ Cut < Room
    /\ Room = NumChars(LongMin)

-----------------------------------------------------------------------------
(* Numbers.                                                                *)

InLong(n) == n \in LongMin .. LongMax
InInt(n)  == n \in IntMin .. IntMax

\* What is left of an integer that overflows.
Wrap(n, least, greatest) == least + ((n - least) % (greatest - least + 1))
ToLong(n) == Wrap(n, LongMin, LongMax)
ToInt(n)  == Wrap(n, IntMin, IntMax)

\* strtol() stops at the end of the range; the conversion of the double that
\* strtod() returns to an int is IntMin beyond it.
StrToL(arg) == IF arg < LongMin THEN LongMin ELSE IF arg > LongMax THEN LongMax ELSE arg
StrToInt(arg) == IF InInt(arg) THEN arg ELSE IntMin

Words(args) == \E i \in DOMAIN args : args[i] = Word

-----------------------------------------------------------------------------
(* The text that is sent.                                                  *)

Message(kind) == [kind |-> kind, value |-> 0, newline |-> TRUE]

\* write() of the first `bytes' bytes of "%ld\n": the digits that fit, and the
\* newline if it fits too.
Line(n, bytes) ==
    LET excess == IF NumChars(n) > bytes THEN NumChars(n) - bytes ELSE 0
        seen == Abs(n) \div 10 ^ excess
    IN [kind |-> "number", value |-> IF n < 0 THEN -seen ELSE seen,
        newline |-> NumChars(n) < bytes]

-----------------------------------------------------------------------------
(* The commands.  The first word of the command is replaced by "0" or "1". *)

\* Mutants: add sends sizeof(out) bytes like the others; it adds in an int.
Add_Cut(args) ==
    IF Words(args) THEN Message("strings")
    ELSE Line(FoldLeft(LAMBDA val, arg : ToLong(val + StrToL(arg)), 0, args), Cut)

Add_Int(args) ==
    IF Words(args) THEN Message("strings")
    ELSE Line(FoldLeft(LAMBDA val, arg : ToInt(val + StrToL(arg)), 0, args), Room)

Add(args) ==
    IF Words(args) THEN Message("strings")
    ELSE Line(FoldLeft(LAMBDA val, arg : ToLong(val + StrToL(arg)), 0, args), Room)

Multiply(args) ==
    IF Words(args) THEN Message("strings")
    ELSE Line(FoldLeft(LAMBDA val, arg : ToLong(val * StrToL(arg)), 1, args), Cut)

\* The loop takes the "0" that replaced the command as its first number.
Subtract(args) ==
    IF Words(args) THEN Message("strings")
    ELSE Line(FoldLeft(LAMBDA val, arg : ToInt(val - StrToInt(arg)), 0, args), Cut)

\* strtof(), the division and "%.2f" each round to the nearest of the numbers
\* they have, of two that are as near to the even one.  This is q[1] / q[2] as
\* an integer, and as a multiple of 2 ^ i.
Nearest == [q \in Nat \X Nat |->
    IF 2 * (q[1] % q[2]) > q[2] \/ (2 * (q[1] % q[2]) = q[2] /\ (q[1] \div q[2]) % 2 = 1)
    THEN (q[1] \div q[2]) + 1
    ELSE q[1] \div q[2]]

Power(i) == IF i > 0 THEN 2 ^ i ELSE 1
Multiple(q, i) == Nearest[<<q[1] * Power(-i), q[2] * Power(i)>>]

\* The float for q[1] / q[2], as a fraction: the finest multiple that has no
\* more than Precision bits.
Fits(q, i) == Multiple(q, i) < 2 ^ Precision
Step(q) == CHOOSE i \in MinExp .. MaxExp : Fits(q, i) /\ (i > MinExp => ~Fits(q, i - 1))
AtStep == [s \in (Nat \X Nat) \X Int |->
    <<Multiple(s[1], s[2]) * Power(s[2]), Power(-s[2])>>]
Float == [q \in Nat \X Nat |-> AtStep[<<q, Step(q)>>]]

Infinite(arg) == ~Fits(<<Abs(arg), 1>>, MaxExp)

\* The absolute value that "%.2f" shows of the quotient of two floats, in
\* hundredths.
InHundredths == [q \in Nat \X Nat |-> Nearest[<<100 * q[1], q[2]>>]]
Divided == [s \in (Nat \X Nat) \X (Nat \X Nat) |->
    InHundredths[Float[<<s[1][1] * s[2][2], s[1][2] * s[2][1]>>]]]
Hundredths(a, b) ==
    IF Infinite(b) THEN 0 ELSE Divided[<<Float[<<Abs(a), 1>>], Float[<<Abs(b), 1>>]>>]

Negative(a, b) == (a < 0) # (b < 0)
Places(a, b)   == NumChars(Hundredths(a, b) \div 100) + IF Negative(a, b) THEN 4 ELSE 3

\* A text too long for `Cut' loses its newline, its decimals, the point and
\* then digits.
Quotient(a, b) ==
    LET hundredths == Hundredths(a, b)
        lost == IF Places(a, b) > Cut THEN Places(a, b) - Cut ELSE 0
        seen == IF lost <= 2 THEN hundredths - (hundredths % 10 ^ lost)
                ELSE 100 * ((hundredths \div 100) \div 10 ^ (lost - 3))
    IN [kind |-> "quotient", value |-> IF Negative(a, b) THEN -seen ELSE seen,
        newline |-> Places(a, b) < Cut]

\* The divisor is compared with "0" as a text, and the last argument has the
\* newline of the command.  `end' is what the second strtof() left, so that a
\* first argument that is no number counts as 0.
Number(arg) == IF arg = Word THEN 0 ELSE arg

Divide(args, newline) ==
    LET a == Number(args[1])
        b == args[2]
    IN IF Len(args) # 2 THEN Message("usage")
       ELSE IF b = 0 /\ ~newline THEN Message("zero")
       ELSE IF b = Word THEN Message("strings")
       ELSE IF (a = 0 /\ b = 0) \/ (Infinite(a) /\ Infinite(b)) THEN Message("nan")
       ELSE IF b = 0 \/ Infinite(a) THEN Message("inf")
       ELSE Quotient(a, b)

Answer(op, args, newline) ==
    CASE op = "add" -> Add(args)
      [] op = "mul" -> Multiply(args)
      [] op = "sub" -> Subtract(args)
      [] op = "div" -> Divide(args, newline)

-----------------------------------------------------------------------------
(* What the answers should be, in plain arithmetic.                        *)

Sum(args) == FoldLeft(LAMBDA a, b : a + b, 0, args)
Product(args) == FoldLeft(LAMBDA a, b : a * b, 1, args)
=============================================================================
