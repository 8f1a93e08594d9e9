------------------------------- MODULE Format -------------------------------
(***************************************************************************)
(* Numbers and formats as text (scrn.c).  A character is a string of       *)
(* length one, a text a sequence of them.  A real64 is <<n, d>>, n / d with *)
(* d a power of two: such products and differences are exact.              *)
(***************************************************************************)
EXTENDS Loops, Sequences

CONSTANTS Char,       \* characters
          U32,        \* values of a u32
          Bits,       \* of a u32, 32
          LongBits,   \* of a u64, 64
          MantissaBits \* of a real64, 52

MAX_FLOATING_FRACTIONAL_DIGITS == 10
MaxExponent == 1023     \* of a real64
digits == <<"0", "1", "2", "3", "4", "5", "6", "7",
            "8", "9", "a", "b", "c", "d", "e", "f">>
Digit(n) == digits[n + 1]
Text == Seq(Char)

ASSUME FormatAssumption == /\ {Bits, LongBits} \subseteq Nat /\ Bits > 0
                           /\ Bits % 4 = 0 /\ U32 = Power(2, Bits)
                           /\ \A i \in 1..16 : digits[i] \in Char
                           /\ Bits <= LongBits /\ MantissaBits \in Nat
                           /\ MaxExponent < U32 \div 2
                           /\ {"-", ".", "x", " ", "*", "^"} \subseteq Char

-----------------------------------------------------------------------------
(* Division, for a divisor above 1: it is only ever 10 *)

\* X < A / 2 keeps the doubled X within A: no overflow.
Double(A, B) ==
    LET once[i \in 1..LongBits] == [x \in [X : Nat, per : Nat] |->
            IF x.X < A \div 2 THEN [X |-> 2 * x.X, per |-> 2 * x.per] ELSE x]
    IN Loop(once, [X |-> B, per |-> 1], LongBits)

Subtract(A, B, X, per) ==
    LET once[i \in 1..LongBits] == [x \in [A : Nat, X : Nat, per : Nat, q : Nat] |->
            LET fits == x.A >= x.X
            IN IF x.A < B THEN x
               ELSE [A |-> IF fits THEN x.A - x.X ELSE x.A, X |-> x.X \div 2,
                     per |-> x.per \div 2, q |-> IF fits THEN x.q + x.per ELSE x.q]]
    IN Loop(once, [A |-> A, X |-> X, per |-> per, q |-> 0], LongBits)

div64_slow(dividend, divisor) ==
    LET d == Double(dividend, divisor)
        end == Subtract(dividend, divisor, d.X, d.per)
    IN [quotient |-> end.q, remainder |-> end.A]

-----------------------------------------------------------------------------
(* Numbers *)

\* The loops run from the last digit to the first; num = 0 is printed apart.
Unread == [num : Nat, buf : Text]
Digits(num) ==
    LET once[i \in 1..Bits] == [x \in Unread |->
            IF x.num = 0 THEN x
            ELSE [num |-> x.num \div 10, buf |-> <<Digit(x.num % 10)>> \o x.buf]]
    IN Loop(once, [num |-> num, buf |-> <<>>], Bits).buf
Digits64(num) ==
    LET once[i \in 1..LongBits] == [x \in Unread |->
            LET qr == div64_slow(x.num, 10)
            IN IF x.num = 0 THEN x
               ELSE [num |-> qr.quotient, buf |-> <<Digit(qr.remainder)>> \o x.buf]]
    IN Loop(once, [num |-> num, buf |-> <<>>], LongBits).buf

\* mutant of writeUInt: no case for 0
UIntNoZero(num) == Digits(num)
writeUInt(num) == IF num = 0 THEN <<"0">> ELSE Digits(num)
writeUInt64(num) == IF num = 0 THEN <<"0">> ELSE Digits64(num)
writeInt(num) == IF num < 0 THEN <<"-">> \o writeUInt((-num) % U32)
                 ELSE writeUInt(num)
writeInt64(num) == IF num < 0 THEN <<"-">> \o writeUInt64(-num)
                   ELSE writeUInt64(num)

writeHex_bytes(num, nibbles) ==
    <<"0", "x">> \o [i \in 1..nibbles |-> Digit((num \div Power(16, nibbles - i)) % 16)]
writeBinary(num) == <<"0", "b">> \o [i \in 1..Bits |-> Digit((num \div Power(2, Bits - i)) % 2)]

\* The fraction is f / d.
Fraction(f, d, iterations) ==
    LET once[i \in 1..iterations] == [x \in [f : Nat, out : Text, done : BOOLEAN] |->
            LET rest == (10 * x.f) % d
            IN IF x.done THEN x
               ELSE [f |-> rest, out |-> x.out \o writeInt((10 * x.f) \div d),
                     done |-> rest * 10000000 <= d]]
    IN Loop(once, [f |-> f, out |-> <<>>, done |-> FALSE], iterations).out
writeReal_component(num) ==
    LET n == IF num[1] < 0 THEN -num[1] ELSE num[1]
    IN (IF num[1] < 0 THEN <<"-">> ELSE <<>>)
       \o writeInt64(n \div num[2]) \o <<".">>
       \o Fraction(n % num[2], num[2], MAX_FLOATING_FRACTIONAL_DIGITS)

\* A positive num is (1 + Mantissa(num) / 2^MantissaBits) * 2^Exponent(num).
Between(num, e) == Power(2, e) * num[2] <= num[1] /\ num[1] < Power(2, e + 1) * num[2]
Exponent(num) == CHOOSE e \in 0..MaxExponent : Between(num, e)
Mantissa(num) == (num[1] * Power(2, MantissaBits)) \div (num[2] * Power(2, Exponent(num)))
                 - Power(2, MantissaBits)
\* Of a num beyond INT32_MAX.  bit_mask(52) has the bits of an unsigned only.
writeRealDebug(num) == <<"1", ".">> \o writeUInt64(Mantissa(num) % U32)
                       \o <<" ", "*", " ", "2", "^">> \o writeInt(Exponent(num))
INT32_MAX == U32 \div 2 - 1
writeReal(num) == IF num[1] > INT32_MAX * num[2] THEN writeRealDebug(num)
                  ELSE writeReal_component(num)

-----------------------------------------------------------------------------
(* Formats: what kwritef writes for a directive.  The padding of traces, and *)
(* the columns that are counted for it, are in module Trace.               *)

directive(d, arg) == CASE d = "d" -> writeInt(arg)
                       [] d = "u" -> writeUInt(arg)
                       [] d = "q" -> writeUInt64(arg)
                       [] d = "f" -> writeReal(arg)
                       [] d = "b" -> writeBinary(arg)
                       [] d = "x" -> writeHex_bytes(arg, Bits \div 4)
=============================================================================
