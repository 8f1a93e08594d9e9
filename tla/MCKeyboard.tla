---------------------------- MODULE MCKeyboard -----------------------------
(* The keyboard buffer with a ring of three slots behind indices of four   *)
(* values: the ring fills, wraps and is overrun within a few keys.         *)
EXTENDS Keyboard

MCScan == {1, 2, 3}
BothLayouts == {"first_follows", "spare_follows"}
=============================================================================
