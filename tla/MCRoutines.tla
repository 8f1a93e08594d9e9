----------------------------- MODULE MCRoutines -----------------------------
(* Ten bytes with repeated values, numbers of twelve bits, all the table      *)
(* sizes and sizes beside them, triangles on a small grid.                 *)
EXTENDS Routines

MCMemory == [i \in 0..9 |-> IF i \in {2, 7} THEN 9 ELSE (i % 6) + 1]
MCChar == STRING
MCNumbers == (0..300) \cup {999, 1000, 1023, 1024, 2047, 2048, 2049, 4090, 4095}
MCLongNumbers == 0..1400
MCReals == ({-41, -40, -8, -1, 0, 1, 3, 5, 13, 200, 320, 323, 1000} \X {1, 8, 16})
           \cup {<<2047, 1>>, <<16377, 8>>, <<32757, 16>>} \* around INT32_MAX
           \cup ({2048, 3000, 4090, 8189} \X {1}) \cup {<<4101, 2>>, <<16385, 8>>, <<32800, 16>>}
MCSizes == DOMAIN width_regs \cup DOMAIN height_regs \cup {0, 199, 320, 640}
MCGrid == {0, 1, 4, 6}
MCTss == {1048576, 1049600, 2097048, 2097047, 2097051, 2097151, 2097152}
MCMasks == {0, 184, 255, 32}
=============================================================================
