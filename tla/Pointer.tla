------------------------------ MODULE Pointer ------------------------------
(***************************************************************************)
(* The mouse from the wire to the screen: ps2_install brings it up, its    *)
(* packets reach mouse_handler byte by byte while kmain's last loop reads  *)
(* the position and draws a square there.  A report has three bytes, or    *)
(* four on a mouse that was turned into a wheel mouse; MaxLost bytes may   *)
(* be lost.                                                                *)
(***************************************************************************)
EXTENDS Ps2, Mouse

CONSTANTS Movements,         \* set of [dx, dy, buttons, wheel, overflow]
          ScreenW, ScreenH,  \* 320 and 200
          Side,              \* of the square that kmain draws, 10
          MaxReports, MaxLost

ASSUME PointerAssumption == /\ {ScreenW, ScreenH, MaxReports, MaxLost} \subseteq Nat
                            /\ Side \in Nat \ {0}
                            /\ \A m \in Movements :
                                  /\ {m.dx, m.dy} \subseteq -256..255
                                  /\ m.buttons \in 0..7 /\ m.wheel \in -1..1

VARIABLES pc,               \* next step of kmain's loop
          square,           \* x and y of kmain
          pixels,           \* offsets in vga_memory that the last fillrect wrote
          colorIndex,
          reports, lost,    \* bounds' counters
          hand,             \* history: where and how the user holds the mouse
          clean,            \* history: nothing went wrong on the wire
          calm,             \* history: the last report was calm and arrived whole
          seen              \* history: where the pointer was in kmain's last round

loop == <<pc, square, pixels, colorIndex>>
history == <<reports, lost, hand, clean, calm, seen>>
vars == <<ps2vars, mousevars, loop, history>>

PointerInit == /\ Ps2Init /\ MouseInit
               /\ pc = "x" /\ square = <<0, 0>> /\ pixels = {} /\ colorIndex = 0
               /\ reports = 0 /\ lost = 0 /\ hand = <<0, 0, 0>>
               /\ clean = TRUE /\ calm = TRUE /\ seen = {}

Installed == todo = <<>>

BringUp == /\ ps2_install \/ KeyTyped
           /\ UNCHANGED <<mousevars, loop, history>>

-----------------------------------------------------------------------------
(* The mouse *)

Sign(v) == IF v < 0 THEN 1 ELSE 0
First(m) == 8 + m.buttons + 16 * Sign(m.dx) + 32 * Sign(m.dy)
            + (IF m.overflow THEN 64 ELSE 0)
Fourth(m) == IF id = 3 THEN m.wheel % 256 ELSE m.wheel % 16
Bytes(m) == <<First(m), m.dx % 256, m.dy % 256>>
            \o (IF id = 0 THEN <<>> ELSE <<Fourth(m)>>)

\* What the user expects of a movement: up is towards smaller y.
Follow(m) == IF m.overflow THEN hand
             ELSE <<Clamp(hand[1] + m.dx, 0, MaxX),
                    Clamp(hand[2] - m.dy, 0, MaxY), m.buttons>>

Report(m) == /\ Installed /\ streaming /\ obuf = <<>> /\ reports < MaxReports
             /\ reports' = reports + 1
             /\ obuf' = From(2, Bytes(m))
             /\ hand' = Follow(m)
             /\ clean' = (clean /\ ~(id # 0 /\ Starts(Fourth(m))))
             /\ calm' = \A i \in 2..Len(Bytes(m)) : ~Starts(Bytes(m)[i])
             /\ UNCHANGED <<config, latch, fitted, scanning, mouse, todo, locals,
                            keys, late, mousevars, loop, lost, seen>>

Lose == /\ Installed /\ obuf # <<>> /\ lost < MaxLost
        /\ lost' = lost + 1 /\ obuf' = Tail(obuf)
        /\ clean' = FALSE /\ calm' = FALSE
        /\ UNCHANGED <<config, latch, fitted, scanning, mouse, todo, locals, keys,
                       late, mousevars, loop, reports, hand, seen>>

\* A byte interrupts kmain; what ps2_install left there comes first.
Interrupt == /\ Installed /\ obuf # <<>>
             /\ obuf' = Tail(obuf) /\ latch' = Head(obuf).b
             /\ IF Head(obuf).from = 2 /\ IRQ_MOUSE_PS2 \in routines
                THEN mouse_handler(Head(obuf).b, mouse_mode)
                ELSE UNCHANGED mousevars
             /\ clean' = (clean /\ reports > 0)
             /\ calm' = (calm /\ reports > 0)
             /\ seen' = IF pc = "x" THEN seen ELSE seen \cup {<<mouse_x', mouse_y'>>}
             /\ UNCHANGED <<config, fitted, scanning, mouse, todo, locals, keys,
                            late, loop, reports, lost, hand>>

-----------------------------------------------------------------------------
(* kmain: CLAMP compares one reading of the position and takes another.    *)
(* mouse_x is never negative, which leaves its upper half.                 *)

Kmain(from, to) == /\ Installed /\ pc = from /\ pc' = to
                   /\ UNCHANGED <<ps2vars, mousevars, reports, lost, hand, clean,
                                  calm>>

\* mutant of Compare: no bound
CompareNothing == /\ \/ Kmain("x", "take_x") /\ seen' = {<<mouse_x, mouse_y>>}
                     \/ Kmain("y", "take_y") /\ UNCHANGED seen
                  /\ UNCHANGED <<square, pixels, colorIndex>>

Compare == /\ \/ /\ Kmain("x", IF mouse_x < ScreenW THEN "take_x" ELSE "y")
                 /\ square' = IF mouse_x < ScreenW THEN square
                              ELSE <<ScreenW, square[2]>>
                 /\ seen' = {<<mouse_x, mouse_y>>}
              \/ /\ Kmain("y", IF mouse_y < ScreenH THEN "take_y" ELSE "draw")
                 /\ square' = IF mouse_y < ScreenH THEN square
                              ELSE <<square[1], ScreenH>>
                 /\ UNCHANGED seen
           /\ UNCHANGED <<pixels, colorIndex>>

Take == /\ \/ Kmain("take_x", "y") /\ square' = <<mouse_x, square[2]>>
           \/ Kmain("take_y", "draw") /\ square' = <<square[1], mouse_y>>
        /\ UNCHANGED <<seen, pixels, colorIndex>>

\* plot_pixel for each pixel of a square with its upper left corner at p.
fillrect(p) == {(p[2] + j) * ScreenW + p[1] + i : i, j \in 0..(Side - 1)}

Draw == /\ Kmain("draw", "x")
        /\ pixels' = fillrect(square)
        /\ colorIndex' = IF mouse_buttons \div SCROLL_DOWN = 1
                         THEN (colorIndex - 1) % 256 ELSE colorIndex
        /\ UNCHANGED <<square, seen>>

Next == \/ BringUp \/ Interrupt \/ Lose \/ Compare \/ Take \/ Draw
        \/ \E m \in Movements : Report(m)

Fairness == /\ WF_vars(ps2_install /\ UNCHANGED <<mousevars, loop, history>>)
            /\ WF_vars(Compare \/ Take \/ Draw)
            /\ WF_vars(Interrupt)
Spec == PointerInit /\ [][Next]_vars /\ Fairness
-----------------------------------------------------------------------------
(* Properties *)

PointerTypeOK == /\ config \in 0..255 /\ latch \in 0..255 /\ status \in 0..255
                 /\ \A i \in DOMAIN obuf : obuf[i].b \in 0..255
                 /\ mouse_cycle \in 0..3 /\ mouse_mode \in {0, 1}
                 /\ \A i \in 0..3 : mouse_byte[i] \in 0..255
                 /\ mouse_x \in 0..MaxX /\ mouse_y \in 0..MaxY
                 /\ mouse_buttons \in 0..15
                 /\ mouse_packets_last \in 0..(RingSize - 1)

\* ps2_install comes to its end on every controller whose second port, if it
\* has one, has a mouse on it: no key typed meanwhile and no slow reply leaves
\* one of its ACK loops without an ACK (kb.c:467, 544, 582, 613, 649).
BringUpReturns == (fitted.dual => fitted.mouse # "none") => <>Installed

\* When it is done exactly the ports with a routine interrupt, have a clock and
\* a device that sends: the configuration is written from a byte read several
\* commands earlier (kb.c:439), the routines are installed later.  A reply that
\* came too late would have been taken for another one.
HandlersMatchPorts ==
    (Installed /\ late = 0) => LET two == IRQ_MOUSE_PS2 \in routines
                 IN /\ two = Bit(config, 1) /\ two = streaming
                    /\ two => ~Bit(config, 5)
                    /\ IRQ_KEYBOARD \in routines /\ Bit(config, 0) /\ scanning
                    /\ ~Bit(config, 4)

\* Undisturbed, it leaves no reply behind for the routines to take for a key or
\* for the first byte of a packet, though it reads one of the two bytes of
\* GET_MOUSE_ID (kb.c:560) and runs a reply behind from there on.
NothingLeft == (Installed /\ keys = 0 /\ late = 0 /\ reports = 0) => obuf = <<>>

\* As long as nothing is lost, left over or scrolled up, the pointer is where
\* the user moved it and shows his buttons, on mice of three and of four bytes.
TracksReports == (Installed /\ clean /\ obuf = <<>>)
                 => <<mouse_x, mouse_y, mouse_buttons>> = hand

\* However wrong the packets were put together before, one report whose other
\* bytes do not look like a first byte brings mouse_handler back in step.
CalmReportResynchronises ==
    (Installed /\ reports > 0 /\ calm /\ obuf = <<>>) => mouse_cycle = 0

Bound(c) == <<ScreenW, ScreenH>>[c]
Had(c) == {p[c] : p \in seen}
\* A coordinate that the pointer had during the round, cut off at the bound if it had
\* one behind the bound, and itself behind it only if it had one before it as well.
Placed(c) == /\ square[c] \in Had(c) \cup {Bound(c)}
             /\ square[c] >= Bound(c) => \E v \in Had(c) : v >= Bound(c)
             /\ square[c] > Bound(c) => \E v \in Had(c) : v < Bound(c)
Crossed == \E c \in 1..2 : \E v, w \in Had(c) : v < Bound(c) /\ Bound(c) < w

\* The square is drawn where the pointer was in this round of kmain's loop, though
\* CLAMP compares one reading and takes another, x and y are read at different times,
\* and IRQ 12 writes the position in between (main.c:877).  It does not stay on the
\* screen: the bound is the screen's size, and Side pixels are drawn from there.  But
\* it is written beyond what such a square may reach only in a round in which the
\* pointer crossed the bound (67209 bytes from vga_memory here, 131489 then).
SquareWherePointerWas ==
    /\ pc = "draw" => Placed(1) /\ Placed(2)
    /\ (pc = "x" /\ ~Crossed) =>
          \A o \in pixels : o <= (ScreenH + Side - 1) * ScreenW + ScreenW + Side - 1

\* "Try to enable scroll wheel" (kb.c:557): a mouse that was turned into a wheel
\* mouse has its packets taken for a wheel mouse's.
WheelEnabled == (Installed /\ keys = 0 /\ late = 0 /\ id # 0)
                => mouse_mode = MOUSE_SCROLLWHEEL
=============================================================================
