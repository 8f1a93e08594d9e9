------------------------------ MODULE MCKmain -------------------------------
(* Delays of two ticks and one on a counter of six values, sectors of  *)
(* two words, eight pages.  Small blocks fill the heap to its last byte    *)
(* and one more is refused.                                                *)
EXTENDS Kmain

MCDelays == <<5, 2>>
MCBootSizes == <<2, 2>>
MCSizes == <<1, 3, 8, 1>>
MCDrives == {"none", "fast", "slow"}
SlowDrive == {"slow"}
MCUsedPages == {0, 1, 5, 7}
=============================================================================
