----------------------------- MODULE MemoryOps -----------------------------
(***************************************************************************)
(* The memory routines (main.c).  Memory is a function from addresses to   *)
(* bytes.  kmemmove and kmemchr go byte by byte up to an aligned address   *)
(* and word by word from there; a word that holds the byte looked for is   *)
(* what HASZERO finds.                                                     *)
(***************************************************************************)
EXTENDS Loops

CONSTANTS Word,     \* sizeof(size_t), 4
          SizeT     \* its values, 2^32

Byte == 0..255
ASSUME MemoryOpsAssumption == {Word, SizeT} \subseteq Nat \ {0} /\ SizeT > 255

NULL == -1

\* k bytes read at once and then written.
Unit(m, d, s, k) == [i \in DOMAIN m |-> IF i \in d..(d + k - 1) THEN m[i - d + s]
                                        ELSE m[i]]

\* How much a loop handles next: a word, between two words' boundaries, or a byte.
Stride(edge, n) == IF edge % Word = 0 /\ n >= Word THEN Word ELSE 1
Congruent(d, s) == d % Word = s % Word

\* dest, src and n, and the memory they point into.
Moves(m) == [m : [DOMAIN m -> Byte], d : Nat, s : Nat, n : Nat]
Moving(m, d, s, n) == [m |-> m, d |-> d, s |-> s, n |-> n]

Up(m, d, s, n) ==
    LET once[i \in 1..n] == [x \in Moves(m) |->
            LET k == IF Congruent(x.d, x.s) THEN Stride(x.d, x.n) ELSE 1
            IN IF x.n = 0 THEN x
               ELSE Moving(Unit(x.m, x.d, x.s, k), x.d + k, x.s + k, x.n - k)]
    IN Loop(once, Moving(m, d, s, n), n).m

Down(m, d, s, n) ==
    LET once[i \in 1..n] == [x \in Moves(m) |->
            LET k == IF Congruent(x.d, x.s) THEN Stride(x.d + x.n, x.n) ELSE 1
            IN IF x.n = 0 THEN x
               ELSE Moving(Unit(x.m, x.d + x.n - k, x.s + x.n - k, k),
                           x.d, x.s, x.n - k)]
    IN Loop(once, Moving(m, d, s, n), n).m

kmemcpy(m, d, s, n) == Unit(m, d, s, n)

\* mutant of kmemmove: always upwards
MoveUp(m, d, s, n) == IF d = s THEN m ELSE Up(m, d, s, n)
kmemmove(m, d, s, n) ==
    IF d = s THEN m
    ELSE IF s + n <= d \/ d + n <= s THEN kmemcpy(m, d, s, n)
    ELSE IF d < s THEN Up(m, d, s, n) ELSE Down(m, d, s, n)

HasByte(m, s, c) == \E i \in s..(s + Word - 1) : m[i] = c

kmemchr(m, s, c, n) ==
    LET once[i \in 1..n] == [x \in [s : Nat, n : Nat] |->
            LET k == IF Stride(x.s, x.n) = Word /\ ~HasByte(m, x.s, c) THEN Word
                     ELSE 1
            IN IF x.n = 0 \/ m[x.s] = c THEN x ELSE [s |-> x.s + k, n |-> x.n - k]]
        end == Loop(once, [s |-> s, n |-> n], n)
    IN IF end.n = 0 THEN NULL ELSE end.s

kmemrchr(m, s, c, n) ==
    LET once[i \in 1..n] == [left \in 0..n |->
            IF left = 0 \/ m[s + left - 1] = c THEN left ELSE left - 1]
        left == Loop(once, n, n)
    IN IF left = 0 THEN NULL ELSE s + left - 1

\* A size_t: what is below zero in memcmp becomes a large number here.
kmemcmp(m, l, r, n) ==
    LET once[i \in 1..n] == [k \in 0..n |->
            IF k = n \/ m[l + k] # m[r + k] THEN k ELSE k + 1]
        k == Loop(once, 0, n)
    IN IF k = n THEN 0 ELSE (m[l + k] - m[r + k]) % SizeT
=============================================================================
