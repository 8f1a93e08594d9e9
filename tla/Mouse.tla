------------------------------- MODULE Mouse -------------------------------
(***************************************************************************)
(* mouse_handler (kb.c): the routine of IRQ 12 puts the bytes of the mouse *)
(* together to packets and follows the pointer.  Bit 3 of a byte is its    *)
(* only mark of a packet's beginning.  Nobody calls read_next_packet, so   *)
(* the packet ring is only ever written.                                   *)
(***************************************************************************)
EXTENDS Integers, Sequences

CONSTANTS MaxX, MaxY,       \* 600 and 400
          RingSize          \* slots of mouse_packets and values of its index

ASSUME MouseAssumption == /\ {MaxX, MaxY} \subseteq Nat
                          /\ RingSize \in Nat \ {0}

VARIABLES mouse_cycle, mouse_byte, mouse_x, mouse_y, mouse_buttons,
          mouse_packets, mouse_packets_last

mousevars == <<mouse_cycle, mouse_byte, mouse_x, mouse_y, mouse_buttons,
               mouse_packets, mouse_packets_last>>

SCROLL_DOWN == 8
NoPacket == [dx |-> 0, dy |-> 0, buttons |-> 0]

MouseInit == /\ mouse_cycle = 0 /\ mouse_byte = [i \in 0..3 |-> 0]
             /\ mouse_x = 0 /\ mouse_y = 0 /\ mouse_buttons = 0
             /\ mouse_packets = [i \in 0..(RingSize - 1) |-> NoPacket]
             /\ mouse_packets_last = 0

BitOf(b, i) == (b \div (2^i)) % 2
Clamp(v, low, high) == IF v < low THEN low ELSE IF v < high THEN v ELSE high

\* mutant of Packet: bits 4 and 5 of the first byte are not used
PacketUnsigned(b, wheel) ==
    [dx |-> b[1], dy |-> -b[2], buttons |-> b[0] % 8]
\* The wheel's byte is a u8: what is not 0 is greater.
Packet(b, wheel) ==
    [dx |-> b[1] - 256 * BitOf(b[0], 4),
     dy |-> -(b[2] - 256 * BitOf(b[0], 5)),
     buttons |-> (b[0] % 8) + (IF wheel /\ b[3] > 0 THEN SCROLL_DOWN ELSE 0)]

Overflowed(b) == BitOf(b[0], 6) = 1 \/ BitOf(b[0], 7) = 1

\* mutant of add_packet: the index has room for one more value
AddPacketNoWrap(p) == /\ mouse_packets' = [mouse_packets EXCEPT
                                              ![mouse_packets_last] = p]
                      /\ mouse_packets_last' = mouse_packets_last + 1
add_packet(p) == /\ mouse_packets' = [mouse_packets EXCEPT
                                         ![mouse_packets_last] = p]
                 /\ mouse_packets_last' = (mouse_packets_last + 1) % RingSize

Finish(b, wheel) ==
    /\ mouse_cycle' = 0
    /\ IF Overflowed(b)
       THEN UNCHANGED <<mouse_x, mouse_y, mouse_buttons, mouse_packets,
                        mouse_packets_last>>
       ELSE LET p == Packet(b, wheel)
            IN /\ mouse_x' = Clamp(mouse_x + p.dx, 0, MaxX)
               /\ mouse_y' = Clamp(mouse_y + p.dy, 0, MaxY)
               /\ mouse_buttons' = p.buttons
               /\ add_packet(p)

\* mode is mouse_mode: 0 for packets of three bytes.
Starts(in) == BitOf(in, 3) = 1
Last(mode) == IF mode = 0 THEN 2 ELSE 3

\* mutant of mouse_handler: the first byte is taken whatever it is
MouseHandlerNoSync(in, mode) ==
    /\ mouse_byte' = [mouse_byte EXCEPT ![mouse_cycle] = in]
    /\ IF mouse_cycle = Last(mode) THEN Finish(mouse_byte', mode = 1)
       ELSE /\ mouse_cycle' = mouse_cycle + 1
            /\ UNCHANGED <<mouse_x, mouse_y, mouse_buttons, mouse_packets,
                           mouse_packets_last>>

mouse_handler(in, mode) ==
    /\ mouse_byte' = [mouse_byte EXCEPT ![mouse_cycle] = in]
    /\ IF mouse_cycle = Last(mode) THEN Finish(mouse_byte', mode = 1)
       ELSE /\ mouse_cycle' = IF mouse_cycle = 0 /\ ~Starts(in) THEN 0
                              ELSE mouse_cycle + 1
            /\ UNCHANGED <<mouse_x, mouse_y, mouse_buttons, mouse_packets,
                           mouse_packets_last>>
=============================================================================
