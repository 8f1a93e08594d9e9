----------------------------- MODULE MCPointer -----------------------------
EXTENDS Pointer

MCControllers == {[dual |-> FALSE, mouse |-> "none"]}
    \cup [dual : {TRUE}, mouse : {"none", "plain", "wheel", "buttons"}]
MCNoise == {<<>>, <<30>>}
Move(dx, dy, b, w) == [dx |-> dx, dy |-> dy, buttons |-> b, wheel |-> w,
                       overflow |-> FALSE]
MCMovements == {Move(5, -3, 1, 0), Move(-9, 2, 0, 1), Move(2, 0, 0, -1),
                [Move(1, 1, 2, 0) EXCEPT !.overflow = TRUE]}
=============================================================================
