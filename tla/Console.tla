------------------------------ MODULE Console ------------------------------
(***************************************************************************)
(* The text console (scrn.c).  kmain prints with kputch; the keyboard      *)
(* routine echoes with the same kputch in the middle of it.  kputch is a   *)
(* short program of memory accesses: kmain runs it one access at a time,   *)
(* an interrupt runs whole programs.  Copying and blanking of the screen   *)
(* are one access each.  cursor, which counts columns for kwritef, is left *)
(* to module Trace.                                                        *)
(***************************************************************************)
EXTENDS Integers, Sequences

CONSTANTS W, H,          \* 80 and 25
          TabStop,       \* 8
          Byte,          \* values of a CRT register, 256
          Blank,         \* an empty cell
          Printable,     \* the characters from ' ' on
          MainText,      \* characters kmain prints
          Echoes,        \* what one key press prints
          MaxPrinted, MaxEchoes

Controls == {"back", "tab", "cr", "nl"}
Word == 65536            \* values of csr_x and csr_y, u16
ASSUME ConsoleAssumption ==
    /\ {W, H, TabStop, Byte} \subseteq Nat \ {0} /\ H > 1 /\ W % TabStop = 0
    /\ Printable \cap Controls = {} /\ Blank \in Printable
    /\ {MaxPrinted, MaxEchoes} \subseteq Nat
    \* no string in the kernel has a backspace: it only comes from its key (and
    \* from a drive's raw bytes, main.c:416-433, which are left out)
    /\ MainText \subseteq Printable \cup (Controls \ {"back"})
    /\ Echoes \subseteq Seq(Printable \cup Controls) \ {<<>>}
    \* csr_x and csr_y are u16, the two registers have room for the cursor
    /\ W + TabStop < Word /\ H + 1 < Word /\ H * W <= Byte * Byte

VARIABLES con,          \* csr_x, csr_y, text memory, CRT registers
          me,           \* kmain's kputch: character, code left, register
          paper,        \* history: all lines printed, column in the last
          printed, echoed,
          raced,        \* history: a key was echoed in the middle of a kputch
          cursor_raced  \* history: in the middle of the last move_csr

vars == <<con, me, paper, printed, echoed, raced, cursor_raced>>

\* Two rows below the screen: where an interrupted kputch may write.
Cells == 0..((H + 2) * W - 1)
EmptyLine == [i \in 0..(W - 1) |-> Blank]

Init == /\ con = [x |-> 0, y |-> 0, cell |-> [i \in Cells |-> Blank],
                  index |-> 15, high |-> 0, low |-> 0]
        /\ me = [c |-> Blank, code |-> <<>>, reg |-> 0]
        /\ paper = [lines |-> <<EmptyLine>>, x |-> 0]
        /\ printed = 0 /\ echoed = 0 /\ raced = FALSE /\ cursor_raced = FALSE

-----------------------------------------------------------------------------
(* kputch as a program, and the machine that runs it *)

Own(c) == CASE c \in Printable -> <<"where", "put", "loadx", "storex">>
            [] c = "back" -> <<"back">>
            [] c = "tab" -> <<"loadx", "storex">>
            [] c = "cr" -> <<"margin">>
            [] c = "nl" -> <<"margin", "loady", "storey">>
            [] OTHER -> <<>>
kscroll == <<"temp", "copy", "blank", "last">>
\* mutant of move_csr: register 15 is never selected
MoveCsrOneSelect == <<"where", "select_high", "high", "low">>
move_csr == <<"where", "select_high", "high", "select_low", "low">>
kputch(c) == Own(c) \o <<"edge", "full">> \o move_csr

\* mutant of Advance: a tab always moves by TabStop
AdvanceTab(c, x) == CASE c = "tab" -> x + TabStop
                      [] c = "back" -> (x - 1) % Word
                      [] OTHER -> x + 1
\* csr_x when the character has been dealt with.
Advance(c, x) == CASE c = "tab" -> (x \div TabStop + 1) * TabStop
                   [] c = "back" -> (x - 1) % Word
                   [] OTHER -> x + 1

\* kmemcpyb over the rows above, and kmemsetw of one row, from what temp was.
Copied(m, temp) == [i \in Cells |-> IF i < (H - temp) * W
                                    THEN m.cell[i + temp * W] ELSE m.cell[i]]
Blanked(m, temp) == [i \in Cells |-> IF i \div W = H - temp THEN Blank
                                     ELSE m.cell[i]]

\* mutant of Full: the screen is full one row later
FullLater(m) == m.y > H
Full(m) == m.y >= H

\* One access: what it does to the memory m, to the register, to the code.
Memory(m, p, op) ==
    CASE op = "put" -> [m EXCEPT !.cell[p.reg] = p.c]
      [] op = "storex" -> [m EXCEPT !.x = Advance(p.c, p.reg)]
      [] op = "margin" -> [m EXCEPT !.x = 0]
      [] op = "storey" -> [m EXCEPT !.y = p.reg + 1]
      [] op = "copy" -> [m EXCEPT !.cell = Copied(m, p.reg)]
      [] op = "blank" -> [m EXCEPT !.cell = Blanked(m, p.reg)]
      [] op = "last" -> [m EXCEPT !.y = H - 1]
      [] op = "select_high" -> [m EXCEPT !.index = 14]
      [] op = "select_low" -> [m EXCEPT !.index = 15]
      [] op = "high" /\ m.index = 14 -> [m EXCEPT !.high = p.reg \div Byte]
      [] op = "high" /\ m.index = 15 -> [m EXCEPT !.low = p.reg \div Byte]
      [] op = "low" /\ m.index = 15 -> [m EXCEPT !.low = p.reg % Byte]
      [] op = "low" /\ m.index = 14 -> [m EXCEPT !.high = p.reg % Byte]
      [] OTHER -> m
\* mutant of Register: temp is one row too small
RegisterTempLow(m, p, op) == CASE op = "where" -> m.y * W + m.x
                               [] op = "loadx" -> m.x
                               [] op = "loady" -> m.y
                               [] op = "temp" -> m.y - H
                               [] OTHER -> p.reg
Register(m, p, op) == CASE op = "where" -> m.y * W + m.x
                        [] op = "loadx" -> m.x
                        [] op = "loady" -> m.y
                        [] op = "temp" -> m.y - H + 1
                        [] OTHER -> p.reg
Branch(m, op) == CASE op = "edge" /\ m.x >= W -> <<"margin", "loady", "storey">>
                   [] op = "full" /\ Full(m) -> kscroll
                   [] op = "back" /\ m.x # 0 -> <<"loadx", "storex">>
                   [] OTHER -> <<>>

Exec(m, p) == LET op == Head(p.code)
              IN [mem |-> Memory(m, p, op),
                  pgm |-> [p EXCEPT !.reg = Register(m, p, op),
                                    !.code = Branch(m, op) \o Tail(p.code)]]

\* A kputch without interruption: at most Longest accesses.
Longest == 20
Finish(m, c) ==
    LET run[n \in 0..Longest] ==
            IF n = 0 THEN [mem |-> m, pgm |-> [c |-> c, code |-> kputch(c), reg |-> 0]]
            ELSE LET s == run[n - 1]
                 IN IF s.pgm.code = <<>> THEN s ELSE Exec(s.mem, s.pgm)
    IN run[Longest].mem
kputs(m, text) ==
    LET after[n \in 0..Len(text)] == IF n = 0 THEN m
                                     ELSE Finish(after[n - 1], text[n])
    IN after[Len(text)]

-----------------------------------------------------------------------------
(* The paper: the same text on an endless roll *)

NewLine(p) == [lines |-> Append(p.lines, EmptyLine), x |-> 0]
Wrapped(p) == IF p.x >= W THEN NewLine(p) ELSE p
Type(p, c) ==
    Wrapped(CASE c \in Printable ->
                   [lines |-> [p.lines EXCEPT ![Len(p.lines)][p.x] = c],
                    x |-> p.x + 1]
              [] c = "nl" -> NewLine(p)
              [] c = "cr" -> [p EXCEPT !.x = 0]
              [] c = "back" -> [p EXCEPT !.x = IF @ = 0 THEN 0 ELSE @ - 1]
              [] c = "tab" -> [p EXCEPT !.x = @ + TabStop - (@ % TabStop)]
              [] OTHER -> p)
TypeAll(p, text) == LET after[n \in 0..Len(text)] ==
                            IF n = 0 THEN p ELSE Type(after[n - 1], text[n])
                    IN after[Len(text)]

-----------------------------------------------------------------------------

Begin(c) == /\ me.code = <<>> /\ printed < MaxPrinted
            /\ me' = [c |-> c, code |-> kputch(c), reg |-> 0]
            /\ printed' = printed + 1 /\ paper' = Type(paper, c)
            /\ UNCHANGED <<con, echoed, raced, cursor_raced>>

Access == /\ me.code # <<>>
          /\ LET e == Exec(con, me) IN con' = e.mem /\ me' = e.pgm
          /\ cursor_raced' = IF Len(me.code) = Len(move_csr) THEN FALSE
                             ELSE cursor_raced
          /\ UNCHANGED <<paper, printed, echoed, raced>>

\* keyboard_handler: the whole of its printing, between two accesses of kmain.
Echo(text) == /\ echoed < MaxEchoes /\ echoed' = echoed + 1
              /\ con' = kputs(con, text)
              /\ paper' = TypeAll(paper, text)
              /\ raced' = (raced \/ me.code # <<>>)
              /\ cursor_raced' = (me.code # <<>>)
              /\ UNCHANGED <<me, printed>>

Next == \/ \E c \in MainText : Begin(c)
        \/ Access
        \/ \E t \in Echoes : Echo(t)
Spec == Init /\ [][Next]_vars

-----------------------------------------------------------------------------
(* Properties *)

AtRest == me.code = <<>>

TypeOK == /\ {con.x, con.y} \subseteq 0..(Word - 1)
          /\ con.cell \in [Cells -> Printable]
          /\ con.index \in {14, 15} /\ {con.high, con.low} \subseteq 0..(Byte - 1)
          /\ Len(me.code) <= Longest /\ me.reg \in Nat

\* Wherever an echo falls into a kputch, kmain leaves the cursor on the screen
\* when it is through, and on the way it is at most one row below and at most
\* one column beside it: nothing is written further away (scrn.c:168-189).
CursorOnScreen == /\ con.x <= W /\ con.y <= H
                  /\ AtRest => con.x < W /\ con.y < H

\* Without an echo in the middle of a kputch the screen shows the last lines of
\* everything printed, kmain's and the keyboard's, and the cursor its end.
ShownIsPrinted ==
    (AtRest /\ ~raced) =>
        LET n == Len(paper.lines)
            above == IF n > H THEN n - H ELSE 0
        IN /\ con.x = paper.x /\ con.y = n - above - 1
           /\ \A r \in 0..(H - 1), i \in 0..(W - 1) :
                 con.cell[r * W + i] = IF above + r + 1 > n THEN Blank
                                       ELSE paper.lines[above + r + 1][i]

\* The blinking cursor is where the next character goes, unless an echo fell
\* into the last move_csr: the next character puts it right (scrn.c:73-94).
HardwareCursorFollows == (AtRest /\ ~cursor_raced)
                         => con.high * Byte + con.low = con.y * W + con.x
=============================================================================
