-------------------------------- MODULE Scrn --------------------------------
(***************************************************************************)
(* The two writers of scrn.c.  In a behaviour kmain either prints on the   *)
(* screen with kputch, as in Console, or traces on the serial line with    *)
(* serial_write_b, as in Trace: it never does both at once.                *)
(***************************************************************************)
EXTENDS Console, Trace

VARIABLE writer
scrn_vars == <<vars, trace_vars, writer>>

ScrnInit == Init /\ TraceInit /\ writer \in {"kputch", "serial_write_b"}
ScrnNext == /\ \/ writer = "kputch" /\ Next /\ UNCHANGED trace_vars
               \/ writer = "serial_write_b" /\ TraceNext /\ UNCHANGED vars
            /\ UNCHANGED writer
ScrnSpec == ScrnInit /\ [][ScrnNext]_scrn_vars
=============================================================================
