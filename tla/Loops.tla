------------------------------- MODULE Loops -------------------------------
(***************************************************************************)
(* A loop of the source as its body: body[i][x] is what round i makes of x, *)
(* for the values x of the loop's variables.  A body that has nothing left *)
(* to do returns x, so that a while loop has as many rounds as it could.   *)
(***************************************************************************)
EXTENDS Integers

Loop(body, x, rounds) ==
    LET after[i \in 0..rounds] == IF i = 0 THEN x ELSE body[i][after[i - 1]]
    IN after[rounds]

Power(base, n) == LET once[i \in 1..n] == [x \in Nat |-> base * x]
                  IN Loop(once, 1, n)
=============================================================================
