-------------------------------- MODULE Vga --------------------------------
(***************************************************************************)
(* Graphics modes, lines and polygons (vga.c).  A mode switch is the       *)
(* sequence of its port writes; the adapter is what they make of its       *)
(* registers.  The dot clock (0x3c2), the graphics controller, the         *)
(* attribute controller and the palettes are left out.                     *)
(***************************************************************************)
EXTENDS Loops, Sequences

width_regs == [w \in {256, 320, 360, 376, 400} |->
    CASE w = 256 -> <<\h5f, \h3f, \h40, \h82, \h4a, \h9a, \h20>>
      [] w = 320 -> <<\h5f, \h4f, \h50, \h82, \h54, \h80, \h28>>
      [] w = 360 -> <<\h6b, \h59, \h5a, \h8e, \h5e, \h8a, \h2d>>
      [] w = 376 -> <<\h6e, \h5d, \h5e, \h91, \h62, \h8f, \h2f>>
      [] w = 400 -> <<\h70, \h63, \h64, \h92, \h65, \h82, \h32>>]
height_regs == [h \in {200, 224, 240, 256, 270, 300, 360, 400, 480, 564, 600} |->
    CASE h = 200 -> <<\hbf, \h1f, \h41, \h9c, \h8e, \h8f, \h96, \hb9>>
      [] h = 224 -> <<\h0b, \h3e, \h41, \hda, \h9c, \hbf, \hc7, \h04>>
      [] h = 240 -> <<\h0d, \h3e, \h41, \hea, \hac, \hdf, \he7, \h06>>
      [] h = 256 -> <<\h23, \hb2, \h61, \h0a, \hac, \hff, \h07, \h1a>>
      [] h = 270 -> <<\h30, \hf0, \h61, \h20, \ha9, \h1b, \h1f, \h2f>>
      [] h = 300 -> <<\h70, \hf0, \h61, \h5b, \h8c, \h57, \h58, \h70>>
      [] h = 360 -> <<\hbf, \h1f, \h40, \h88, \h85, \h67, \h6d, \hba>>
      [] h = 400 -> <<\hbf, \h1f, \h40, \h9c, \h8e, \h8f, \h96, \hb9>>
      [] h = 480 -> <<\h0d, \h3e, \h40, \hea, \hac, \hdf, \he7, \h06>>
      [] h = 564 -> <<\h62, \hf0, \h60, \h37, \h89, \h33, \h3c, \h5c>>
      [] h = 600 -> <<\h70, \hf0, \h60, \h5b, \h8c, \h57, \h58, \h70>>]
hor_regs == <<0, 1, 2, 3, 4, 5, \h13>>
ver_regs == <<6, 7, 9, \h10, \h11, \h12, \h15, \h16>>

\* One outpw: the low byte selects a register, the high byte goes into it.
Crt(reg, val) == [port |-> "crt", reg |-> reg, val |-> val]
Sequencer(reg, val) == [port |-> "seq", reg |-> reg, val |-> val]
Each(regs, vals) == [i \in DOMAIN regs |-> Crt(regs[i], vals[i])]

\* mutant of ModeSwitch: registers 0 to 7 stay protected
SwitchProtected(width, height, chain4) ==
    Each(hor_regs, width_regs[width]) \o Each(ver_regs, height_regs[height])
ModeSwitch(width, height, chain4) ==
    <<Crt(\h11, \h0e)>>
    \o Each(hor_regs, width_regs[width]) \o Each(ver_regs, height_regs[height])
    \o <<Crt(8, 0), Crt(\h14, IF chain4 THEN \h40 ELSE 0),
         Crt(\h17, IF chain4 THEN \ha3 ELSE \he3),
         Sequencer(4, IF chain4 THEN \h0e ELSE 6), Sequencer(1, 1),
         Sequencer(2, \h0f)>>

\* The writes, none if the mode is refused (return value 0).
init_graph_vga(width, height, chain4) ==
    IF /\ width \in DOMAIN width_regs /\ height \in DOMAIN height_regs
       /\ chain4 => width * height <= 65536
    THEN ModeSwitch(width, height, chain4) ELSE <<>>

\* The adapter: register 0x11 has the protection of 0 to 7 in its top bit.
Protected(a, w) == w.port = "crt" /\ w.reg <= 7 /\ a["crt"][\h11] >= 128
Write(a, w) == IF Protected(a, w) THEN a ELSE [a EXCEPT ![w.port][w.reg] = w.val]
TextMode == [port \in {"crt", "seq"} |->
                [reg \in 0..\h18 |-> IF port = "crt" /\ reg = \h11 THEN \h8e ELSE 0]]
Adapters == [{"crt", "seq"} -> [0..\h18 -> Nat]]
Adapter(writes) ==
    LET once[i \in 1..Len(writes)] == [a \in Adapters |-> Write(a, writes[i])]
    IN Loop(once, TextMode, Len(writes))

-----------------------------------------------------------------------------
(* Lines: the pixels in the order they are plotted *)

abs(v) == IF v < 0 THEN -v ELSE v
sgn(v) == IF v < 0 THEN -1 ELSE IF v > 0 THEN 1 ELSE 0

\* The long coordinate steps, the short one when e runs over.
\* mutant of Carry: the error is never taken back
CarryOnce(e, long) == [over |-> e >= long, e |-> e]
Carry(e, long) == [over |-> e >= long, e |-> IF e >= long THEN e - long ELSE e]

Walk(long, short, start, far, near) ==
    LET once[i \in 1..long] == [x \in [e : Nat, pixels : Seq(Int \X Int)] |->
            LET c == Carry(x.e + short, long)
                at == x.pixels[i]
                Along(k) == at[k] + far[k] + IF c.over THEN near[k] ELSE 0
            IN [e |-> c.e, pixels |-> Append(x.pixels, <<Along(1), Along(2)>>)]]
    IN Loop(once, [e |-> long \div 2, pixels |-> <<start>>], long).pixels

line_fast(p1, p2) ==
    LET dx == p2[1] - p1[1]
        dy == p2[2] - p1[2]
        hor == <<sgn(dx), 0>>
        ver == <<0, sgn(dy)>>
    IN IF abs(dx) >= abs(dy) THEN Walk(abs(dx), abs(dy), p1, hor, ver)
       ELSE Walk(abs(dy), abs(dx), p1, ver, hor)

\* The last line goes from the first vertex to the last.
polygon(vertices) ==
    [i \in 1..(Len(vertices) - 1) |-> line_fast(vertices[i], vertices[i + 1])]
    \o <<line_fast(vertices[1], vertices[Len(vertices)])>>
=============================================================================
