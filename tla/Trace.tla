-------------------------------- MODULE Trace --------------------------------
(***************************************************************************)
(* trace, of kmain, on the serial line (system.h:741, scrn.c).  It prints  *)
(* "file::line: ", then pads to column 30, then prints its message.        *)
(* Margins are counted in cursor, which serial_write_b, kputch and kwritef *)
(* all add to: kmain one access at a time, since ++cursor is a load and a  *)
(* store, and the interrupt handlers, which echo keys on the screen and    *)
(* trace on the serial line themselves, whole, between any two accesses.   *)
(* Texts are their lengths.  Two loops of kmain that trace with kputch     *)
(* (main.c:560, 728) are left out; F2, which does not return, is in Irq.   *)
(***************************************************************************)
EXTENDS Integers

CONSTANTS Names,       \* lengths of the files' names
          Digits,      \* of lines and of the clock's seconds
          Margins,     \* csr_x when the first trace begins
          Leaves,      \* what a handler's last trace leaves in cursor
          MaxDisturbed \* interrupts of all the traces

Width == 80            \* of the screen
TabWidth == 8
padding == 30

ASSUME TraceAssumption == /\ Names \subseteq Nat /\ Digits \subseteq Nat \ {0}
                          /\ Margins \subseteq 0..(Width - 1) /\ Leaves \subseteq Nat
                          /\ MaxDisturbed \in Nat

VARIABLES file, line,  \* lengths of what the trace begins with
          written,     \* characters on the line so far
          pc,          \* kmain's next access
          due,         \* increments of cursor left for the last character
          loaded,      \* cursor as the increment has loaded it
          cursor, csr_x,
          disturbed,   \* interrupts so far
          echoes, traces \* during this trace: keys echoed, traces of handlers
kmain == <<file, line, written, pc, due, loaded>>
history == <<disturbed, echoes, traces>>
trace_vars == <<kmain, cursor, csr_x, history>>

Before == file + 2 + line + 2    \* the column behind "file::line: "
Literal(i) == i \in {file + 1, file + 2, Before - 1, Before}

TraceInit == /\ file = 0 /\ line = 0 /\ written = 0 /\ pc = "message"
             /\ due = 0 /\ loaded = 0 /\ cursor = 0 /\ csr_x \in Margins
             /\ disturbed = 0 /\ echoes = 0 /\ traces = 0

-----------------------------------------------------------------------------
(* kwritef with serial_write_b *)

\* The next trace.  What the message before it counted is lost, as is what the
\* keys of its time did to cursor.
Start(n, d) ==
    /\ pc = "message" /\ pc' = "next" /\ written' = 0
    /\ file' = n /\ line' = d /\ cursor' = 0 /\ echoes' = 0 /\ traces' = 0
    /\ UNCHANGED <<due, loaded, csr_x, disturbed>>

\* The writer counts every character, kwritef counts literals once more.
Increments(i) == IF Literal(i) THEN 2 ELSE 1

Outb == /\ written' = written + 1 /\ pc' = "load"
        /\ UNCHANGED <<file, line, loaded, cursor, csr_x, history>>
WriteHead == /\ pc = "next" /\ written < Before
             /\ Outb /\ due' = Increments(written + 1)

LoadCursor == /\ pc = "load" /\ loaded' = cursor /\ pc' = "store"
              /\ UNCHANGED <<file, line, written, due, cursor, csr_x, history>>
StoreCursor == /\ pc = "store" /\ cursor' = loaded + 1 /\ due' = due - 1
               /\ pc' = IF due > 1 THEN "load" ELSE "next"
               /\ UNCHANGED <<file, line, written, loaded, csr_x, history>>

ComparePadding == /\ pc = "next" /\ written >= Before
                  /\ pc' = IF cursor >= padding THEN "message" ELSE "space"
                  /\ UNCHANGED <<file, line, written, due, loaded, cursor, csr_x, history>>
WriteSpace == pc = "space" /\ Outb /\ due' = 1

-----------------------------------------------------------------------------
(* Interrupts *)

\* A place is a column of the screen and what cursor counts.
Here == [x |-> csr_x, cursor |-> cursor]
Edge(p) == IF p.x >= Width THEN [x |-> 0, cursor |-> p.cursor + Width] ELSE p
Tab(n) == (n \div TabWidth + 1) * TabWidth
Less(n) == IF n = 0 THEN 0 ELSE n - 1
\* mutant of Kputch: a tab sets cursor to the column of the screen
KputchTab(p, ch) ==
    Edge(CASE ch = "print" -> [x |-> p.x + 1, cursor |-> p.cursor + 1]
           [] ch = "back" -> [x |-> Less(p.x), cursor |-> Less(p.cursor)]
           [] ch = "tab" -> [x |-> Tab(p.x), cursor |-> Tab(p.x)]
           [] ch = "nl" -> [x |-> 0, cursor |-> p.cursor + Width]
           [] ch = "none" -> p)
Kputch(p, ch) ==
    Edge(CASE ch = "print" -> [x |-> p.x + 1, cursor |-> p.cursor + 1]
           [] ch = "back" -> [x |-> Less(p.x), cursor |-> Less(p.cursor)]
           [] ch = "tab" -> [x |-> Tab(p.x), cursor |-> Tab(p.cursor)]
           [] ch = "nl" -> [x |-> 0, cursor |-> p.cursor + Width]
           [] ch = "none" -> p)
\* n printable characters, one after the other, each wrapped at the edge
Kputs(p, n) == [x |-> (p.x + n) % Width,
                cursor |-> p.cursor + n + Width * ((p.x + n) \div Width)]

Disturb == disturbed < MaxDisturbed /\ disturbed' = disturbed + 1 /\ UNCHANGED kmain
Echoed(p) == /\ Disturb /\ csr_x' = p.x /\ cursor' = p.cursor
             /\ echoes' = echoes + 1 /\ UNCHANGED traces

\* printHex of the scancode, then its character in brackets
OrdinaryKey(ch) == Echoed(Kputch(Kputch(Kputs(Here, 11), ch), "print"))
\* "Elasped Time (in seconds): ", the seconds, a newline
Enter(d) == Echoed(Kputch(Kputs(Here, 27 + d), "nl"))
\* F3, F4, a request found spurious: the handler's last kwritef leaves c
HandlerTraces(c) == /\ Disturb /\ cursor' = c /\ traces' = traces + 1
                    /\ UNCHANGED <<csr_x, echoes>>

TraceNext == \/ \E n \in Names, d \in Digits : Start(n, d)
             \/ WriteHead \/ LoadCursor \/ StoreCursor \/ ComparePadding \/ WriteSpace
             \/ \E ch \in {"print", "back", "tab", "none"} : OrdinaryKey(ch)
             \/ \E d \in Digits : Enter(d)
             \/ \E c \in Leaves : HandlerTraces(c)
TraceSpec == TraceInit /\ [][TraceNext]_trace_vars

-----------------------------------------------------------------------------
(* Properties *)

\* Four short of what is asked for, since literals count twice.
LinedUp == IF Before > padding - 4 THEN Before ELSE padding - 4

\* Messages of undisturbed traces line up in column 26, behind the longer heads
\* as well.  Keys that are echoed in the middle, be it of an increment, move a
\* message to the left, never into its head and never to the right; a trace in a
\* handler zeroes cursor and may move it to the right by its padding, no further.
PaddingLinesUp ==
    (pc = "message" /\ written > 0) =>
        /\ Before <= written /\ written <= LinedUp + padding * traces
        /\ echoes = 0 /\ traces = 0 => written = LinedUp
=============================================================================
