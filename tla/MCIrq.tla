------------------------------- MODULE MCIrq -------------------------------
(* Timer, keyboard and mouse, and the two lines on which the controllers   *)
(* invent vectors.                                                         *)
EXTENDS Irq

MCDrivers == {0, 1, 12}
MCLines == {0, 1, 7, 12}
=============================================================================
