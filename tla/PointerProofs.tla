---------------------------- MODULE PointerProofs ----------------------------
(***************************************************************************)
(* The mouse, for every controller, noise, key and movement, every size of *)
(* the screen and of the packet ring, and any number of reports and of     *)
(* bytes lost.                                                             *)
(***************************************************************************)
EXTENDS Pointer, SequenceTheorems, TLAPS

Bytes8 == 0..255
Reply == [from : 0..2, b : Bytes8]

-----------------------------------------------------------------------------
(* Types *)

Ps2Types == /\ config \in Bytes8 /\ latch \in Bytes8 /\ status \in Bytes8
            /\ obuf \in Seq(Reply) /\ id \in {0, 3, 4} /\ mouse_mode \in {0, 1}

\* Nothing reaches mouse_handler before ps2_install is through, and from then on
\* the mode stays what it is: the index never passes the last byte of a packet.
MouseTypes == /\ mouse_cycle \in 0..Last(mouse_mode)
              /\ ~Installed => mouse_cycle = 0
              /\ mouse_byte \in [0..3 -> Bytes8]
              /\ mouse_x \in 0..MaxX /\ mouse_y \in 0..MaxY
              /\ mouse_buttons \in 0..15
              /\ mouse_packets_last \in 0..(RingSize - 1)

LEMMA Bits ==
    ASSUME NEW b \in Bytes8
    PROVE  /\ \A i \in {0, 1, 4, 5, 6} : With(b, i) \in Bytes8 /\ Without(b, i) \in Bytes8
           /\ \A i \in {3, 4, 5, 6, 7} : BitOf(b, i) \in 0..1
<1>1. \A i \in {0, 1, 4, 5, 6} : With(b, i) \in Bytes8
  <2>1. /\ With(b, 0) \in Bytes8 /\ With(b, 1) \in Bytes8 /\ With(b, 4) \in Bytes8
        /\ With(b, 5) \in Bytes8 /\ With(b, 6) \in Bytes8
    BY DEF With, Bit, Bytes8
  <2>. QED BY <2>1
<1>2. \A i \in {0, 1, 4, 5, 6} : Without(b, i) \in Bytes8
  <2>1. /\ Without(b, 0) \in Bytes8 /\ Without(b, 1) \in Bytes8
        /\ Without(b, 4) \in Bytes8 /\ Without(b, 5) \in Bytes8
        /\ Without(b, 6) \in Bytes8
    BY DEF Without, Bit, Bytes8
  <2>. QED BY <2>1
<1>3. \A i \in {3, 4, 5, 6, 7} : BitOf(b, i) \in 0..1
  BY DEF BitOf, Bytes8
<1>. QED BY <1>1, <1>2, <1>3

LEMMA Codes ==
    /\ ACK = 250 /\ BAT = 170 /\ RESET = 255 /\ IDENTIFY = 242
    /\ ENABLE_STREAMING = 244 /\ DISABLE_STREAMING = 245 /\ CONFIG_READ = 32
BY DEF ACK, BAT, RESET, IDENTIFY, ENABLE_STREAMING, DISABLE_STREAMING, CONFIG_READ

\* What a device or the controller puts into the buffer.
LEMMA FromIs ==
    ASSUME NEW p \in 0..2, NEW s \in Seq(Bytes8)
    PROVE  /\ From(p, s) \in Seq(Reply) /\ Len(From(p, s)) = Len(s)
           /\ \A i \in 1..Len(s) : From(p, s)[i] = [from |-> p, b |-> s[i]]
<1>1. DOMAIN s = 1..Len(s) /\ Len(s) \in Nat /\ \A i \in 1..Len(s) : s[i] \in Bytes8
  OBVIOUS
<1>2. From(p, s) = [i \in 1..Len(s) |-> [from |-> p, b |-> s[i]]]
  BY <1>1 DEF From
<1>. QED BY <1>1, <1>2 DEF Reply

LEMMA Queued ==
    ASSUME NEW p \in 0..2, NEW s \in Seq(Bytes8), obuf \in Seq(Reply)
    PROVE  obuf \o From(p, s) \in Seq(Reply)
BY FromIs

LEMMA Answers ==
    ASSUME Ps2Types, NEW c
    PROVE  /\ obuf \o Answer(c) \in Seq(Reply)
           /\ obuf \o KeyboardAnswer(c) \in Seq(Reply)
           /\ obuf \o MouseAnswer(c) \in Seq(Reply)
           /\ Configured(c) \in Bytes8 /\ \A s : Becomes(s) \in {0, 3, 4}
<1>1. /\ obuf \in Seq(Reply) /\ config \in Bytes8 /\ id \in {0, 3, 4}
  BY DEF Ps2Types
<1>q. \A p \in 0..2, s \in Seq(Bytes8) : obuf \o From(p, s) \in Seq(Reply)
  BY <1>1, Queued
<1>e. obuf \o <<>> \in Seq(Reply) /\ 0 \in 0..2 /\ 1 \in 0..2 /\ 2 \in 0..2
  BY <1>1
<1>2. obuf \o Answer(c) \in Seq(Reply)
  <2>1. /\ <<config>> \in Seq(Bytes8) /\ <<85>> \in Seq(Bytes8) /\ <<0>> \in Seq(Bytes8)
    BY <1>1 DEF Bytes8
  <2>2. /\ obuf \o From(0, <<config>>) \in Seq(Reply)
        /\ obuf \o From(0, <<85>>) \in Seq(Reply)
        /\ obuf \o From(0, <<0>>) \in Seq(Reply) /\ obuf \o <<>> \in Seq(Reply)
    BY <1>q, <1>e, <2>1
  <2>. QED BY <2>2 DEF Answer
<1>3. obuf \o KeyboardAnswer(c) \in Seq(Reply)
  <2>1. /\ <<ACK, BAT>> \in Seq(Bytes8) /\ <<ACK, 171, 131>> \in Seq(Bytes8)
        /\ <<ACK>> \in Seq(Bytes8)
    BY Codes DEF Bytes8
  <2>2. /\ obuf \o From(1, <<ACK, BAT>>) \in Seq(Reply)
        /\ obuf \o From(1, <<ACK, 171, 131>>) \in Seq(Reply)
        /\ obuf \o From(1, <<ACK>>) \in Seq(Reply)
    BY <1>q, <1>e, <2>1
  <2>. QED BY <2>2 DEF KeyboardAnswer
<1>4. obuf \o MouseAnswer(c) \in Seq(Reply)
  <2>1. /\ <<ACK, BAT, 0>> \in Seq(Bytes8) /\ <<ACK, id>> \in Seq(Bytes8)
        /\ <<ACK>> \in Seq(Bytes8)
    BY <1>1, Codes DEF Bytes8
  <2>2. /\ obuf \o From(2, <<ACK, BAT, 0>>) \in Seq(Reply)
        /\ obuf \o From(2, <<ACK, id>>) \in Seq(Reply)
        /\ obuf \o From(2, <<ACK>>) \in Seq(Reply)
    BY <1>q, <1>e, <2>1
  <2>. QED BY <2>2 DEF MouseAnswer
<1>5. Configured(c) \in Bytes8
  BY <1>1, Bits DEF Configured
<1>6. \A s : Becomes(s) \in {0, 3, 4}
  BY <1>1 DEF Becomes
<1>. QED BY <1>2, <1>3, <1>4, <1>5, <1>6

LEMMA Ps2InitTypes == PointerInit => Ps2Types
<1>. SUFFICES ASSUME PointerInit PROVE Ps2Types
  OBVIOUS
<1>1. PICK n \in Noise : obuf = [i \in DOMAIN n |-> [from |-> 1, b |-> n[i]]]
  BY DEF PointerInit, Ps2Init
<1>2. n \in Seq(Bytes8)
  BY Ps2Assumption DEF Ps2Assumption, Bytes8
<1>3. obuf = From(1, n)
  BY <1>1 DEF From
<1>4. config = 71 /\ latch = 0 /\ status = 0 /\ id = 0 /\ mouse_mode = 0
  BY DEF PointerInit, Ps2Init, MOUSE_DEFAULT
<1>5. obuf \in Seq(Reply)
  BY <1>2, <1>3, FromIs
<1>. QED BY <1>4, <1>5 DEF Ps2Types, Bytes8

\* The bytes of a report.
LEMMA ReportBytes ==
    ASSUME NEW m \in Movements, id \in {0, 3, 4}
    PROVE  /\ Bytes(m) \in Seq(Bytes8) /\ Len(Bytes(m)) = IF id = 0 THEN 3 ELSE 4
           /\ Starts(Bytes(m)[1])
           /\ Bytes(m)[1] = First(m) /\ Bytes(m)[2] = m.dx % 256
           /\ Bytes(m)[3] = m.dy % 256 /\ (id # 0 => Bytes(m)[4] = Fourth(m))
<1>1. /\ m.dx \in -256..255 /\ m.dy \in -256..255 /\ m.buttons \in 0..7
      /\ m.wheel \in -1..1
  BY PointerAssumption DEF PointerAssumption
<1>2. First(m) \in Bytes8 /\ Starts(First(m))
  BY <1>1 DEF First, Sign, Bytes8, Starts, BitOf
<1>3. m.dx % 256 \in Bytes8 /\ m.dy % 256 \in Bytes8 /\ Fourth(m) \in Bytes8
  <2>1. \A v \in -256..255 : v % 256 \in Bytes8 /\ v % 16 \in Bytes8
    BY DEF Bytes8
  <2>2. m.wheel \in -256..255
    BY <1>1
  <2>. QED BY <1>1, <2>1, <2>2 DEF Fourth
<1>. DEFINE s == <<First(m), m.dx % 256, m.dy % 256>>
            t == IF id = 0 THEN <<>> ELSE <<Fourth(m)>>
<1>4. /\ s \in Seq(Bytes8) /\ Len(s) = 3 /\ s[1] = First(m) /\ s[2] = m.dx % 256
      /\ s[3] = m.dy % 256
  BY <1>2, <1>3
<1>5. /\ t \in Seq(Bytes8) /\ Len(t) = IF id = 0 THEN 0 ELSE 1
      /\ id # 0 => t[1] = Fourth(m)
  BY <1>3
<1>6. Bytes(m) = s \o t
  BY DEF Bytes
<1>. HIDE DEF s, t
<1>7. /\ s \o t \in Seq(Bytes8) /\ Len(s \o t) = 3 + Len(t)
      /\ \A i \in 1..3 : (s \o t)[i] = s[i]
      /\ Len(t) = 1 => (s \o t)[4] = t[1]
  <2>1. s \o t \in Seq(Bytes8) /\ Len(s \o t) = 3 + Len(t) /\ Len(t) \in Nat
    <3>1. s \o t \in Seq(Bytes8) /\ Len(s \o t) = Len(s) + Len(t)
      BY ZenonT(30), <1>4, <1>5, ConcatProperties
    <3>2. Len(t) \in Nat
      BY <1>5
    <3>. QED BY <1>4, <3>1, <3>2
  <2>2. \A i \in 1..Len(s) + Len(t) : (s \o t)[i] = IF i <= Len(s) THEN s[i]
                                                    ELSE t[i - Len(s)]
    BY ZenonT(30), <1>4, <1>5, ConcatProperties
  <2>. QED BY <1>4, <2>1, <2>2
<1>. QED BY <1>2, <1>4, <1>5, <1>6, <1>7

LEMMA Ps2NextTypes ==
    ASSUME Ps2Types, ps2_install \/ KeyTyped
    PROVE  Ps2Types'
<1>1. /\ config \in Bytes8 /\ latch \in Bytes8 /\ status \in Bytes8
      /\ obuf \in Seq(Reply) /\ id \in {0, 3, 4} /\ mouse_mode \in {0, 1}
  BY DEF Ps2Types
<1>2. CASE KeyTyped
  <2>1. <<KeyByte>> \in Seq(Bytes8)
    BY Ps2Assumption DEF Ps2Assumption, Bytes8
  <2>2. obuf' \in Seq(Reply)
    <3>1. obuf \o From(1, <<KeyByte>>) \in Seq(Reply)
      <4>1. \A p \in 0..2, s \in Seq(Bytes8) : obuf \o From(p, s) \in Seq(Reply)
        BY <1>1, Queued
      <4>2. 1 \in 0..2
        OBVIOUS
      <4>. QED BY <2>1, <4>1, <4>2
    <3>. QED BY <1>2, <3>1 DEF KeyTyped
  <2>. QED BY <1>1, <1>2, <2>2 DEF KeyTyped, mouse, locals, Ps2Types
<1>3. CASE Command
  BY <1>1, <1>3, Answers DEF Command, mouse, locals, Ps2Types
<1>4. CASE WriteConfig
  <2>1. Quieted \in Bytes8 /\ Enabled \in Bytes8
    BY <1>1, Bits DEF Quieted, Enabled
  <2>. QED BY <1>1, <1>4, <2>1 DEF WriteConfig, mouse, Ps2Types
<1>5. CASE SendKeyboard
  BY <1>1, <1>5, Answers DEF SendKeyboard, mouse, locals, Ps2Types
<1>6. CASE SendMouse
  <2>1. obuf' \in Seq(Reply) /\ id' \in {0, 3, 4}
    <3>1. CASE UNCHANGED <<obuf, mouse>>
      BY <1>1, <3>1 DEF mouse
    <3>2. CASE ~UNCHANGED <<obuf, mouse>>
      <4>1. /\ obuf' = obuf \o MouseAnswer(arg)
            /\ id' = Becomes(rates') \/ id' \in {0, id}
        BY <1>6, <3>2 DEF SendMouse
      <4>. QED BY <1>1, <4>1, Answers
    <3>. QED BY <3>1, <3>2
  <2>. QED BY <1>1, <1>6, <2>1 DEF SendMouse, mouse, locals, Ps2Types
<1>7. ASSUME Arrives \/ GivesUp
      PROVE  obuf' \in Seq(Reply) /\ latch' \in Bytes8
  <2>1. CASE GivesUp
    BY <1>1, <2>1 DEF GivesUp
  <2>2. CASE Arrives
    <3>1. obuf # <<>> /\ obuf' = Tail(obuf) /\ latch' = Head(obuf).b
      BY <2>2 DEF Arrives
    <3>2. Head(obuf) \in Reply /\ Tail(obuf) \in Seq(Reply)
      BY <1>1, <3>1, HeadTailProperties
    <3>. QED BY <3>1, <3>2 DEF Reply
  <2>. QED BY <1>7, <2>1, <2>2
<1>8. ASSUME NEW op, Inb(op) PROVE Ps2Types'
  BY <1>1, <1>7, <1>8 DEF Inb, mouse, Ps2Types
<1>9. CASE ReadByte \/ AwaitAck \/ ReadReset
  BY <1>8, <1>9 DEF ReadByte, AwaitAck, ReadReset
<1>10. CASE Drain
  <2>1. obuf' \in Seq(Reply) /\ latch' \in Bytes8
    <3>1. CASE obuf = <<>>
      BY <1>1, <1>10, <3>1 DEF Drain
    <3>2. CASE obuf # <<>>
      <4>1. obuf' = Tail(obuf) /\ latch' = Head(obuf).b
        BY <1>10, <3>2 DEF Drain
      <4>2. Head(obuf) \in Reply /\ Tail(obuf) \in Seq(Reply)
        BY <1>1, <3>2, HeadTailProperties
      <4>. QED BY <4>1, <4>2 DEF Reply
    <3>. QED BY <3>1, <3>2
  <2>. QED BY <1>1, <1>10, <2>1 DEF Drain, mouse, locals, Ps2Types
<1>11. CASE mouse_read
  BY <1>1, <1>7, <1>11 DEF mouse_read, mouse, Ps2Types
<1>12. CASE GuessDual \/ Confirm \/ Install
  BY <1>1, <1>12 DEF GuessDual, Confirm, Install, Decide, controller, mouse, Ps2Types
<1>13. CASE TryWheel
  BY <1>1, <1>13 DEF TryWheel, Decide, controller, mouse, Ps2Types, MOUSE_SCROLLWHEEL
<1>. QED BY <1>2, <1>3, <1>4, <1>5, <1>6, <1>9, <1>10, <1>11, <1>12, <1>13
         DEF ps2_install

LEMMA Clamped == \A v \in Int, high \in Nat : Clamp(v, 0, high) \in 0..high
BY DEF Clamp

\* mouse_handler keeps its types: the index wraps at the packet's last byte, the
\* pointer stays on its field, the ring's index in the ring.
LEMMA HandlerTypes ==
    ASSUME NEW in \in Bytes8, Ps2Types, MouseTypes, mouse_handler(in, mouse_mode)
    PROVE  /\ mouse_cycle' \in 0..Last(mouse_mode)
           /\ mouse_byte' \in [0..3 -> Bytes8]
           /\ mouse_x' \in 0..MaxX /\ mouse_y' \in 0..MaxY
           /\ mouse_buttons' \in 0..15
           /\ mouse_packets_last' \in 0..(RingSize - 1)
<1>1. /\ mouse_mode \in {0, 1} /\ Last(mouse_mode) \in 2..3
      /\ mouse_cycle \in 0..Last(mouse_mode) /\ mouse_byte \in [0..3 -> Bytes8]
      /\ mouse_x \in 0..MaxX /\ mouse_y \in 0..MaxY /\ mouse_buttons \in 0..15
      /\ mouse_packets_last \in 0..(RingSize - 1)
  BY DEF Ps2Types, MouseTypes, Last
<1>2. MaxX \in Nat /\ MaxY \in Nat /\ RingSize \in Nat \ {0}
  BY MouseAssumption DEF MouseAssumption
<1>3. mouse_byte' \in [0..3 -> Bytes8]
  BY <1>1 DEF mouse_handler
<1>4. CASE mouse_cycle # Last(mouse_mode)
  <2>1. mouse_cycle' \in 0..Last(mouse_mode)
    BY <1>1, <1>4 DEF mouse_handler
  <2>. QED BY <1>1, <1>3, <1>4, <2>1 DEF mouse_handler
<1>5. CASE mouse_cycle = Last(mouse_mode) /\ Overflowed(mouse_byte')
  BY <1>1, <1>3, <1>5 DEF mouse_handler, Finish
<1>6. CASE mouse_cycle = Last(mouse_mode) /\ ~Overflowed(mouse_byte')
  <2>. DEFINE p == Packet(mouse_byte', mouse_mode = 1)
  <2>1. p.dx \in Int /\ p.dy \in Int /\ p.buttons \in 0..15
    <3>1. /\ mouse_byte'[0] \in Bytes8 /\ mouse_byte'[1] \in Bytes8
          /\ mouse_byte'[2] \in Bytes8
      BY <1>3
    <3>2. BitOf(mouse_byte'[0], 4) \in 0..1 /\ BitOf(mouse_byte'[0], 5) \in 0..1
      BY <3>1, Bits
    <3>3. mouse_byte'[0] % 8 \in 0..7
      BY <3>1 DEF Bytes8
    <3>. QED BY SMTT(20), <3>1, <3>2, <3>3 DEF Packet, SCROLL_DOWN, Bytes8
  <2>2. /\ mouse_cycle' = 0
        /\ mouse_x' = Clamp(mouse_x + p.dx, 0, MaxX)
        /\ mouse_y' = Clamp(mouse_y + p.dy, 0, MaxY)
        /\ mouse_buttons' = p.buttons
        /\ mouse_packets_last' = (mouse_packets_last + 1) % RingSize
    BY <1>6 DEF mouse_handler, Finish, add_packet
  <2>. HIDE DEF p
  <2>3. mouse_x' \in 0..MaxX /\ mouse_y' \in 0..MaxY
    <3>1. mouse_x + p.dx \in Int /\ mouse_y + p.dy \in Int
      BY <1>1, <1>2, <2>1
    <3>. QED BY <1>2, <2>2, <3>1, Clamped
  <2>4. mouse_packets_last' \in 0..(RingSize - 1)
    BY <1>1, <1>2, <2>2
  <2>. QED BY <1>1, <1>3, <2>1, <2>2, <2>3, <2>4
<1>. QED BY <1>4, <1>5, <1>6

LEMMA InitTypes == PointerInit => Ps2Types /\ MouseTypes
<1>1. ASSUME PointerInit PROVE MouseTypes
  <2>1. MaxX \in Nat /\ MaxY \in Nat /\ RingSize \in Nat \ {0}
    BY MouseAssumption DEF MouseAssumption
  <2>2. Last(mouse_mode) \in Nat
    BY DEF Last
  <2>. QED BY <1>1, <2>1, <2>2 DEF PointerInit, MouseInit, MouseTypes, Bytes8
<1>. QED BY <1>1, Ps2InitTypes

\* Which steps there are once ps2_install is through, and before.
LEMMA Parts ==
    ASSUME [Next]_vars
    PROVE  \/ UNCHANGED vars
           \/ /\ ps2_install \/ KeyTyped
              /\ todo # <<>> /\ UNCHANGED <<mousevars, loop, history>>
           \/ \E m \in Movements : Report(m)
           \/ Interrupt \/ Lose \/ Compare \/ Take \/ Draw
<1>1. ASSUME BringUp PROVE todo # <<>>
  BY <1>1 DEF BringUp, ps2_install, KeyTyped, Command, WriteConfig, SendKeyboard,
     SendMouse, ReadByte, AwaitAck, ReadReset, Inb, Drain, mouse_read, GuessDual,
     Confirm, TryWheel, Install, Decide, At
<1>. QED BY <1>1 DEF Next, BringUp

LEMMA LoopStep ==
    ASSUME Compare \/ Take \/ Draw
    PROVE  Installed /\ UNCHANGED <<ps2vars, mousevars, reports, lost, hand, clean,
                                    calm>>
BY DEF Compare, Take, Draw, Kmain

LEMMA Unchanged ==
    ASSUME UNCHANGED <<ps2vars, mousevars>>
    PROVE  (Ps2Types => Ps2Types') /\ (MouseTypes => MouseTypes')
BY DEF ps2vars, controller, mouse, locals, mousevars, Ps2Types, MouseTypes, Last,
       Installed

LEMMA NextTypes ==
    ASSUME Ps2Types, MouseTypes, [Next]_vars
    PROVE  Ps2Types' /\ MouseTypes'
<1>1. CASE UNCHANGED vars \/ Compare \/ Take \/ Draw
  <2>1. UNCHANGED <<ps2vars, mousevars>>
    BY <1>1, LoopStep DEF vars
  <2>. QED BY <2>1, Unchanged
<1>2. CASE /\ ps2_install \/ KeyTyped
           /\ todo # <<>> /\ UNCHANGED <<mousevars, loop, history>>
  <2>1. Ps2Types'
    BY <1>2, Ps2NextTypes
  <2>2. mouse_cycle = 0 /\ Last(mouse_mode') \in Nat
    BY <1>2 DEF MouseTypes, Installed, Last
  <2>. QED BY <1>2, <2>1, <2>2 DEF MouseTypes, mousevars
<1>3. ASSUME NEW m \in Movements, Report(m) PROVE Ps2Types' /\ MouseTypes'
  <2>1. Bytes(m) \in Seq(Bytes8)
    BY ReportBytes DEF Ps2Types
  <2>2. obuf' \in Seq(Reply)
    BY <1>3, <2>1, FromIs DEF Report
  <2>3. UNCHANGED <<config, latch, status, id, mouse_mode, todo, mousevars>>
    BY <1>3 DEF Report, mouse, locals
  <2>4. Ps2Types'
    BY <2>2, <2>3 DEF Ps2Types
  <2>5. MouseTypes'
    BY <2>3 DEF MouseTypes, mousevars, Installed, Last
  <2>. QED BY <2>4, <2>5
<1>4. CASE Interrupt \/ Lose
  <2>1. /\ Head(obuf) \in Reply /\ Tail(obuf) \in Seq(Reply)
        /\ obuf' = Tail(obuf) /\ latch' \in {latch, Head(obuf).b}
        /\ UNCHANGED <<config, status, id, mouse_mode, todo>>
    <3>1. obuf # <<>> /\ obuf' = Tail(obuf) /\ latch' \in {latch, Head(obuf).b}
      BY <1>4 DEF Interrupt, Lose
    <3>2. obuf \in Seq(Reply)
      BY DEF Ps2Types
    <3>. QED BY <1>4, <3>1, <3>2, HeadTailProperties DEF Interrupt, Lose, mouse, locals
  <2>2. Ps2Types'
    BY <2>1 DEF Ps2Types, Reply
  <2>3. CASE UNCHANGED mousevars
    BY <2>1, <2>2, <2>3 DEF MouseTypes, mousevars, Installed
  <2>4. CASE Interrupt /\ mouse_handler(Head(obuf).b, mouse_mode)
    <3>1. Head(obuf).b \in Bytes8 /\ Installed /\ Installed'
      BY <2>1, <2>4 DEF Reply, Interrupt, Installed
    <3>2. /\ mouse_cycle' \in 0..Last(mouse_mode)
          /\ mouse_byte' \in [0..3 -> Bytes8]
          /\ mouse_x' \in 0..MaxX /\ mouse_y' \in 0..MaxY
          /\ mouse_buttons' \in 0..15
          /\ mouse_packets_last' \in 0..(RingSize - 1)
      BY <2>4, <3>1, HandlerTypes
    <3>3. mouse_mode' = mouse_mode
      BY <2>1
    <3>. QED BY <2>2, <3>1, <3>2, <3>3 DEF MouseTypes
  <2>. QED BY <1>4, <2>2, <2>3, <2>4 DEF Interrupt, Lose
<1>. QED BY <1>1, <1>2, <1>3, <1>4, Parts

-----------------------------------------------------------------------------
(* The square *)

\* From the first comparison of a round on, the pointer's positions are in seen.  A
\* coordinate to be taken had a value before the bound when it was compared, one that
\* was assigned is placed, and the pixels are those of the square drawn last.
SquareInv ==
    /\ pc \in {"x", "take_x", "y", "take_y", "draw"}
    /\ square \in Nat \X Nat /\ seen \subseteq Nat \X Nat
    /\ pc # "x" => <<mouse_x, mouse_y>> \in seen
    /\ pc = "take_x" => \E v \in Had(1) : v < ScreenW
    /\ pc = "take_y" => \E v \in Had(2) : v < ScreenH
    /\ pc \in {"y", "take_y", "draw"} => Placed(1)
    /\ pc = "draw" => Placed(2)
    /\ pc = "x" => \/ pixels = {}
                   \/ Placed(1) /\ Placed(2) /\ pixels = fillrect(square)

LEMMA SquareInit == PointerInit => SquareInv
BY DEF PointerInit, SquareInv

LEMMA BoundsAre == Bound(1) = ScreenW /\ Bound(2) = ScreenH
BY DEF Bound

\* More positions leave a placed coordinate placed.
LEMMA PlacedStays ==
    ASSUME NEW c \in 1..2, Placed(c), seen \subseteq seen', square'[c] = square[c]
    PROVE  Placed(c)'
<1>1. Had(c) \subseteq Had(c)'
  BY DEF Had
<1>2. Bound(c)' = Bound(c)
  BY DEF Bound
<1>. QED BY <1>1, <1>2 DEF Placed

LEMMA SquareNext ==
    ASSUME Ps2Types, MouseTypes, SquareInv, [Next]_vars
    PROVE  SquareInv'
<1>1. /\ mouse_x \in Nat /\ mouse_y \in Nat /\ mouse_x' \in Nat /\ mouse_y' \in Nat
      /\ ScreenW \in Nat /\ ScreenH \in Nat
  <2>1. MouseTypes'
    BY NextTypes
  <2>. QED BY <2>1, MouseAssumption, PointerAssumption
           DEF MouseTypes, MouseAssumption, PointerAssumption
<1>2. CASE UNCHANGED <<pc, square, pixels, seen, mouse_x, mouse_y>>
  <2>1. \A c \in 1..2 : Had(c)' = Had(c) /\ Placed(c)' = Placed(c)
    BY <1>2 DEF Had, Placed, Bound
  <2>2. fillrect(square)' = fillrect(square)
    BY <1>2 DEF fillrect
  <2>. QED BY <1>2, <2>1, <2>2 DEF SquareInv
<1>3. CASE Interrupt
  <2>1. UNCHANGED <<pc, square, pixels>>
    BY <1>3 DEF Interrupt, loop
  <2>2. seen' = IF pc = "x" THEN seen ELSE seen \cup {<<mouse_x', mouse_y'>>}
    BY <1>3 DEF Interrupt
  <2>3. \A c \in 1..2 : Had(c) \subseteq Had(c)' /\ (Placed(c) => Placed(c)')
    <3>1. seen \subseteq seen'
      BY <2>2
    <3>2. \A c \in 1..2 : Had(c) \subseteq Had(c)'
      BY <3>1 DEF Had
    <3>. QED BY <2>1, <3>1, <3>2, PlacedStays
  <2>4. fillrect(square)' = fillrect(square)
    BY <2>1 DEF fillrect
  <2>5. seen' \subseteq Nat \X Nat /\ (pc' # "x" => <<mouse_x', mouse_y'>> \in seen')
    BY <1>1, <2>1, <2>2 DEF SquareInv
  <2>. QED BY <2>1, <2>3, <2>4, <2>5 DEF SquareInv
<1>4. CASE Compare
  <2>1. mouse_x' = mouse_x /\ mouse_y' = mouse_y
    BY <1>4, LoopStep DEF mousevars
  <2>2. CASE pc = "x"
    <3>1. /\ seen' = {<<mouse_x, mouse_y>>}
          /\ \/ mouse_x < ScreenW /\ pc' = "take_x" /\ square' = square
             \/ ~(mouse_x < ScreenW) /\ pc' = "y" /\ square' = <<ScreenW, square[2]>>
      BY <1>4, <2>2 DEF Compare, Kmain
    <3>2. mouse_x \in Had(1)'
      BY <3>1 DEF Had
    <3>3. CASE pc' = "take_x"
      BY <1>1, <2>1, <3>1, <3>2, <3>3 DEF SquareInv
    <3>4. CASE pc' = "y"
      <4>1. square'[1] = ScreenW /\ mouse_x >= ScreenW /\ square' \in Nat \X Nat
        BY <1>1, <3>1, <3>4 DEF SquareInv
      <4>2. Placed(1)'
        BY <1>1, <3>2, <4>1, BoundsAre DEF Placed, Bound
      <4>. QED BY <1>1, <2>1, <3>1, <3>4, <4>1, <4>2 DEF SquareInv
    <3>. QED BY <3>1, <3>3, <3>4
  <2>3. CASE pc = "y"
    <3>1. /\ seen' = seen
          /\ \/ mouse_y < ScreenH /\ pc' = "take_y" /\ square' = square
             \/ ~(mouse_y < ScreenH) /\ pc' = "draw" /\ square' = <<square[1], ScreenH>>
      BY <1>4, <2>3 DEF Compare, Kmain
    <3>2. mouse_y \in Had(2)' /\ <<mouse_x, mouse_y>> \in seen
      BY <2>3, <3>1 DEF Had, SquareInv
    <3>3. Placed(1)' /\ square' \in Nat \X Nat
      <4>1. square'[1] = square[1] /\ square' \in Nat \X Nat /\ Placed(1)
        BY <1>1, <2>3, <3>1 DEF SquareInv
      <4>. QED BY <3>1, <4>1, PlacedStays
    <3>4. CASE pc' = "take_y"
      BY <1>1, <2>1, <3>1, <3>2, <3>3, <3>4 DEF SquareInv
    <3>5. CASE pc' = "draw"
      <4>1. square'[2] = ScreenH /\ mouse_y >= ScreenH
        BY <1>1, <3>1, <3>5
      <4>2. Placed(2)'
        BY <1>1, <3>2, <4>1, BoundsAre DEF Placed, Bound
      <4>. QED BY <1>1, <2>1, <3>1, <3>2, <3>3, <3>5, <4>2 DEF SquareInv
    <3>. QED BY <3>1, <3>4, <3>5
  <2>. QED BY <1>4, <2>2, <2>3 DEF Compare, Kmain
<1>5. CASE Take
  <2>1. mouse_x' = mouse_x /\ mouse_y' = mouse_y /\ seen' = seen
    BY <1>5, LoopStep DEF mousevars, Take
  <2>2. mouse_x \in Had(1)' /\ mouse_y \in Had(2)' /\ <<mouse_x, mouse_y>> \in seen
    BY <1>5, <2>1 DEF Take, Kmain, Had, SquareInv
  <2>3. \A c \in 1..2 : Had(c)' = Had(c)
    BY <2>1 DEF Had
  <2>4. CASE pc = "take_x"
    <3>1. pc' = "y" /\ square' = <<mouse_x, square[2]>>
      BY <1>5, <2>4 DEF Take, Kmain
    <3>2. Placed(1)'
      <4>1. square'[1] = mouse_x
        BY <2>4, <3>1 DEF SquareInv
      <4>2. \E v \in Had(1)' : v < ScreenW
        BY <2>3, <2>4 DEF SquareInv
      <4>. QED BY <1>1, <2>2, <4>1, <4>2 DEF Placed, Bound
    <3>. QED BY <1>1, <2>1, <2>2, <3>1, <3>2 DEF SquareInv
  <2>5. CASE pc = "take_y"
    <3>1. pc' = "draw" /\ square' = <<square[1], mouse_y>>
      BY <1>5, <2>5 DEF Take, Kmain
    <3>2. Placed(2)'
      <4>1. square'[2] = mouse_y
        BY <2>5, <3>1 DEF SquareInv
      <4>2. \E v \in Had(2)' : v < ScreenH
        BY <2>3, <2>5 DEF SquareInv
      <4>. QED BY <1>1, <2>2, <4>1, <4>2 DEF Placed, Bound
    <3>3. Placed(1)' /\ square' \in Nat \X Nat
      <4>1. square'[1] = square[1] /\ square' \in Nat \X Nat /\ Placed(1)
        BY <1>1, <2>5, <3>1 DEF SquareInv
      <4>. QED BY <2>1, <4>1, PlacedStays
    <3>. QED BY <1>1, <2>1, <2>2, <3>1, <3>2, <3>3 DEF SquareInv
  <2>. QED BY <1>5, <2>4, <2>5 DEF Take, Kmain
<1>6. CASE Draw
  <2>1. /\ pc = "draw" /\ pc' = "x" /\ pixels' = fillrect(square)
        /\ square' = square /\ seen' = seen
    BY <1>6 DEF Draw, Kmain
  <2>2. Placed(1)' /\ Placed(2)'
    BY <2>1, PlacedStays DEF SquareInv
  <2>3. fillrect(square)' = fillrect(square)
    BY <2>1 DEF fillrect
  <2>. QED BY <2>1, <2>2, <2>3 DEF SquareInv
<1>7. CASE UNCHANGED vars \/ Lose \/ (\E m \in Movements : Report(m))
  BY <1>2, <1>7 DEF vars, loop, history, mousevars, Lose, Report
<1>8. CASE UNCHANGED <<mousevars, loop, history>>
  BY <1>2, <1>8 DEF loop, history, mousevars
<1>. QED BY <1>3, <1>4, <1>5, <1>6, <1>7, <1>8, Parts

\* A coordinate behind the bound was placed by a pointer that crossed it.
LEMMA PlacedWithin ==
    ASSUME NEW c \in 1..2, Placed(c), ~Crossed, seen \subseteq Nat \X Nat,
           Bound(c) \in Nat, square[c] \in Nat
    PROVE  square[c] <= Bound(c)
<1>. SUFFICES ASSUME Bound(c) < square[c] PROVE FALSE
  OBVIOUS
<1>1. square[c] \in Had(c) /\ \E v \in Had(c) : v < Bound(c)
  BY DEF Placed
<1>. QED BY <1>1 DEF Crossed

\* How far the pixels of a square go.
LEMMA FillWithin ==
    ASSUME NEW x \in Nat, NEW y \in Nat, x <= ScreenW, y <= ScreenH,
           NEW o \in fillrect(<<x, y>>)
    PROVE  o <= (ScreenH + Side - 1) * ScreenW + ScreenW + Side - 1
<1>0. ScreenW \in Nat /\ ScreenH \in Nat /\ Side \in Nat
  BY PointerAssumption DEF PointerAssumption
<1>1. PICK i \in 0..(Side - 1), j \in 0..(Side - 1) : o = (y + j) * ScreenW + x + i
  BY DEF fillrect
<1>. DEFINE a == y + j
            b == ScreenH + Side - 1
<1>2. a \in Nat /\ b \in Nat /\ a <= b
  BY <1>0, <1>1
<1>3. a * ScreenW <= b * ScreenW
  <2>. DEFINE d == b - a
  <2>1. d \in Nat /\ b = a + d
    BY <1>2
  <2>. HIDE DEF a, b, d
  <2>2. b * ScreenW = a * ScreenW + d * ScreenW
    BY <1>0, <1>2, <2>1
  <2>3. d * ScreenW \in Nat /\ a * ScreenW \in Nat
    BY <1>0, <1>2, <2>1
  <2>. QED BY <2>2, <2>3
<1>4. a * ScreenW \in Nat /\ b * ScreenW \in Nat
  BY <1>0, <1>2
<1>5. o = a * ScreenW + x + i
  BY <1>1
<1>. HIDE DEF a, b
<1>6. o <= b * ScreenW + ScreenW + Side - 1
  BY <1>0, <1>1, <1>3, <1>4, <1>5
<1>. QED BY <1>6 DEF b

-----------------------------------------------------------------------------
(* Back in step *)

\* A report has as many bytes as mouse_handler takes for a packet, or more.
LongEnough == mouse_mode = MOUSE_SCROLLWHEEL => id # 0
ReportLength == IF id = 0 THEN 3 ELSE 4

\* What is left of a calm report: all of it, or bytes that cannot begin a packet,
\* and at least as many as the packet at hand still needs.
CalmLeft ==
    /\ \A i \in 1..Len(obuf) : obuf[i].from = 2
    /\ \/ /\ Len(obuf) = ReportLength /\ Starts(obuf[1].b)
          /\ \A i \in 2..Len(obuf) : ~Starts(obuf[i].b)
       \/ /\ \A i \in 1..Len(obuf) : ~Starts(obuf[i].b)
          /\ mouse_cycle = 0 \/ Last(mouse_mode) - mouse_cycle < Len(obuf)

StepInv ==
    /\ ~Installed => reports = 0
    /\ IRQ_MOUSE_PS2 \notin routines => mouse_cycle = 0
    /\ (Installed /\ reports > 0 /\ calm /\ LongEnough) => CalmLeft

LEMMA StepInit == PointerInit => StepInv
<1>. SUFFICES ASSUME PointerInit PROVE StepInv
  OBVIOUS
<1>1. reports = 0 /\ mouse_cycle = 0
  BY DEF PointerInit, MouseInit
<1>. QED BY <1>1 DEF StepInv

\* A byte is taken by mouse_handler or by nobody.
LEMMA ByteTaken ==
    ASSUME Ps2Types, MouseTypes, Interrupt
    PROVE  /\ obuf \in Seq(Reply) /\ Len(obuf) \in Nat /\ Len(obuf) > 0
           /\ obuf' \in Seq(Reply) /\ Len(obuf') = Len(obuf) - 1
           /\ \A i \in 1..Len(obuf') : obuf'[i] = obuf[i + 1]
           /\ Head(obuf) = obuf[1]
           /\ UNCHANGED <<id, mouse_mode, routines, reports, todo, streaming, hand>>
<1>1. obuf \in Seq(Reply) /\ obuf # <<>> /\ obuf' = Tail(obuf)
  BY DEF Interrupt, Ps2Types
<1>2. /\ Len(obuf) \in Nat /\ Len(obuf) > 0 /\ obuf' \in Seq(Reply)
      /\ Len(obuf') = Len(obuf) - 1 /\ \A i \in 1..Len(obuf') : obuf'[i] = obuf[i + 1]
      /\ Head(obuf) = obuf[1]
  BY <1>1, EmptySeq, HeadTailProperties
<1>. QED BY <1>1, <1>2 DEF Interrupt, mouse, locals

LEMMA CalmNext ==
    ASSUME Ps2Types, MouseTypes, StepInv, Interrupt,
           Installed, reports > 0, calm, LongEnough
    PROVE  CalmLeft'
<1>1. /\ obuf \in Seq(Reply) /\ Len(obuf) \in Nat /\ Len(obuf) > 0
      /\ Len(obuf') = Len(obuf) - 1 /\ \A i \in 1..Len(obuf') : obuf'[i] = obuf[i + 1]
      /\ Head(obuf) = obuf[1] /\ id' = id /\ mouse_mode' = mouse_mode
  BY ByteTaken
<1>2. CalmLeft /\ obuf[1].from = 2
  BY <1>1 DEF StepInv, CalmLeft
<1>3. /\ mouse_cycle \in 0..Last(mouse_mode) /\ Last(mouse_mode) \in {2, 3}
      /\ Last(mouse_mode) < ReportLength
  BY DEF MouseTypes, Ps2Types, Last, LongEnough, ReportLength, MOUSE_SCROLLWHEEL
<1>4. \A i \in 1..Len(obuf') : obuf'[i].from = 2 /\ ~Starts(obuf'[i].b)
  <2>1. \A i \in 1..Len(obuf') : i + 1 \in 2..Len(obuf)
    BY <1>1
  <2>2. \A i \in 2..Len(obuf) : obuf[i].from = 2 /\ ~Starts(obuf[i].b)
    BY <1>1, <1>2 DEF CalmLeft
  <2>. QED BY <1>1, <2>1, <2>2
<1>5. mouse_cycle' = 0 \/ Last(mouse_mode) - mouse_cycle' < Len(obuf')
  <2>1. CASE IRQ_MOUSE_PS2 \notin routines
    BY <1>1, <2>1 DEF Interrupt, mousevars, StepInv
  <2>2. CASE IRQ_MOUSE_PS2 \in routines
    <3>1. mouse_handler(obuf[1].b, mouse_mode)
      BY <1>1, <1>2, <2>2 DEF Interrupt
    <3>2. CASE mouse_cycle = Last(mouse_mode)
      BY <3>1, <3>2 DEF mouse_handler, Finish
    <3>3. CASE mouse_cycle # Last(mouse_mode)
      <4>1. mouse_cycle' = IF mouse_cycle = 0 /\ ~Starts(obuf[1].b) THEN 0
                           ELSE mouse_cycle + 1
        BY <3>1, <3>3 DEF mouse_handler
      <4>2. \/ Len(obuf) = ReportLength
            \/ ~Starts(obuf[1].b) /\ mouse_cycle = 0
            \/ Last(mouse_mode) - mouse_cycle < Len(obuf)
        BY <1>1, <1>2 DEF CalmLeft
      <4>. QED BY <1>1, <1>3, <4>1, <4>2 DEF ReportLength
    <3>. QED BY <3>2, <3>3
  <2>. QED BY <2>1, <2>2
<1>. QED BY <1>1, <1>4, <1>5 DEF CalmLeft, Last

LEMMA StepNext ==
    ASSUME Ps2Types, MouseTypes, StepInv, [Next]_vars
    PROVE  StepInv'
<1>1. CASE UNCHANGED vars \/ Compare \/ Take \/ Draw
  <2>1. UNCHANGED <<todo, reports, routines, mouse_cycle, calm, mouse_mode, id, obuf>>
    BY <1>1, LoopStep DEF vars, history, ps2vars, controller, mouse, locals, mousevars
  <2>. QED BY <2>1 DEF StepInv, Installed, LongEnough, CalmLeft, ReportLength, Last
<1>2. CASE /\ ps2_install \/ KeyTyped
           /\ todo # <<>> /\ UNCHANGED <<mousevars, loop, history>>
  <2>1. mouse_cycle' = 0 /\ reports' = 0
    BY <1>2 DEF StepInv, MouseTypes, Installed, mousevars, history
  <2>. QED BY <2>1 DEF StepInv
<1>3. ASSUME NEW m \in Movements, Report(m) PROVE StepInv'
  <2>1. /\ Installed /\ Installed' /\ obuf' = From(2, Bytes(m))
        /\ calm' = \A i \in 2..Len(Bytes(m)) : ~Starts(Bytes(m)[i])
        /\ UNCHANGED <<routines, mouse_cycle, mouse_mode, id>>
    BY <1>3 DEF Report, Installed, locals, mouse, mousevars
  <2>2. /\ Bytes(m) \in Seq(Bytes8) /\ Len(Bytes(m)) = ReportLength
        /\ Starts(Bytes(m)[1])
    BY ReportBytes DEF Ps2Types, ReportLength
  <2>3. /\ Len(obuf') = ReportLength
        /\ \A i \in 1..ReportLength : obuf'[i] = [from |-> 2, b |-> Bytes(m)[i]]
    BY <2>1, <2>2, FromIs
  <2>4. \A i \in 1..ReportLength : obuf'[i].from = 2 /\ obuf'[i].b = Bytes(m)[i]
    BY <2>3
  <2>5. ReportLength' = ReportLength /\ ReportLength \in {3, 4}
    BY <2>1 DEF ReportLength
  <2>6. ASSUME calm' PROVE CalmLeft'
    <3>0. \A i \in 2..Len(Bytes(m)) : ~Starts(Bytes(m)[i])
      BY <2>1, <2>6, Zenon
    <3>1. \A i \in 2..ReportLength : ~Starts(obuf'[i].b)
      <4>1. \A i \in 2..ReportLength : i \in 1..ReportLength
        BY <2>5
      <4>. QED BY <2>2, <2>4, <3>0, <4>1
    <3>2. Starts(obuf'[1].b)
      BY <2>2, <2>4, <2>5
    <3>. QED BY <2>3, <2>4, <2>5, <3>1, <3>2 DEF CalmLeft
  <2>. QED BY <2>1, <2>6 DEF StepInv
<1>4. CASE Lose
  BY <1>4 DEF Lose, StepInv, Installed, locals, mousevars
<1>5. CASE Interrupt
  <2>1. /\ Installed /\ Installed'
        /\ calm' => calm
        /\ UNCHANGED <<routines, reports, mouse_mode, id>>
    BY <1>5, ByteTaken DEF Interrupt, Installed
  <2>2. IRQ_MOUSE_PS2 \notin routines' => mouse_cycle' = 0
    BY <1>5, <2>1 DEF Interrupt, mousevars, StepInv
  <2>3. ASSUME reports' > 0, calm', LongEnough' PROVE CalmLeft'
    BY <1>5, <2>1, <2>3, CalmNext DEF LongEnough
  <2>. QED BY <2>1, <2>2, <2>3 DEF StepInv
<1>. QED BY <1>1, <1>2, <1>3, <1>4, <1>5, Parts

-----------------------------------------------------------------------------
(* The mouse does not send before its routine is installed *)

Names == {"cmd", "read", "ack", "mread", "mouse", "kbd", "drain", "config", "guess",
          "confirm", "reset", "wheel", "install"}
Arguments == Int \cup {"quiet", "final"}
Instr == {i \in [op : Names, arg : Arguments] : i.op = "drain" => i.arg \in Int}
Starting == I("mouse", ENABLE_STREAMING)
Installing == I("install", IRQ_MOUSE_PS2)
Mute == Instr \ {Starting}

\* Code that starts the mouse only behind the installation of its routine.
Guarded(s) == /\ s \in Seq(Instr)
              /\ \A i \in 1..Len(s) : s[i] = Starting
                                      => \E j \in 1..i - 1 : s[j] = Installing

LEMMA Muted ==
    /\ \A op \in Names \ {"mouse", "drain"}, a \in Arguments : I(op, a) \in Mute
    /\ \A a \in Int \ {244} : I("mouse", a) \in Mute
    /\ \A a \in Int : I("drain", a) \in Mute
    /\ Starting \in Instr /\ Installing \in Mute
<1>1. /\ \A op \in Names, a \in Arguments : /\ I(op, a) \in [op : Names, arg : Arguments]
                                            /\ I(op, a).op = op /\ I(op, a).arg = a
  BY DEF I
<1>2. Starting = I("mouse", 244) /\ Installing = I("install", 12)
  BY Codes DEF Starting, Installing, IRQ_MOUSE_PS2
<1>3. /\ "mouse" \in Names /\ "install" \in Names /\ "drain" \in Names
      /\ "mouse" # "install" /\ "mouse" # "drain" /\ 244 \in Int /\ 12 \in Int
      /\ \A a \in Int : a \in Arguments
  BY DEF Names, Arguments
<1>. QED BY <1>1, <1>2, <1>3 DEF Mute, Instr

LEMMA MuteTuples ==
    ASSUME NEW a \in Mute, NEW b \in Mute, NEW c \in Mute, NEW d \in Mute
    PROVE  /\ <<a>> \in Seq(Mute) /\ <<a, b>> \in Seq(Mute)
           /\ <<a, b, c>> \in Seq(Mute) /\ <<a, b, c, d>> \in Seq(Mute)
OBVIOUS

LEMMA MuteConcat == \A s, t \in Seq(Mute) : s \o t \in Seq(Mute)
OBVIOUS

LEMMA MuteGuarded == \A s \in Seq(Mute) : Guarded(s)
<1>. SUFFICES ASSUME NEW s \in Seq(Mute) PROVE Guarded(s)
  OBVIOUS
<1>1. s \in Seq(Instr) /\ \A i \in 1..Len(s) : s[i] # Starting
  BY DEF Mute
<1>. QED BY <1>1 DEF Guarded

LEMMA Pieces ==
    /\ \A c \in Int : <<Cmd(c)>> \in Seq(Mute)
    /\ \A p \in {1, 2} : /\ Quiet(p) \in Seq(Mute) /\ Test(p) \in Seq(Mute)
                         /\ Reset(p) \in Seq(Mute) /\ Identify(p) \in Seq(Mute)
    /\ Stream(1) \in Seq(Mute) /\ Stream(2) \in Seq(Instr)
    /\ \A n \in {1, 2} : FinalConfig(n) \in Seq(Mute)
    /\ Probe \in Seq(Mute) /\ SelfTest \in Seq(Mute) /\ ConfirmDual \in Seq(Mute)
    /\ Wheel \in Seq(Mute)
    /\ \A i \in Int : <<I("install", i)>> \in Seq(Mute)
<1>0. /\ \A c \in Int : Cmd(c) \in Mute
      /\ Read \in Mute /\ Ack \in Mute /\ MouseRead \in Mute
      /\ \A c \in Int : Send(1, c) \in Mute
      /\ \A c \in Int \ {244} : Send(2, c) \in Mute
      /\ I("config", "quiet") \in Mute /\ I("config", "final") \in Mute
      /\ I("guess", 0) \in Mute /\ I("confirm", 0) \in Mute /\ I("reset", 0) \in Mute
      /\ I("drain", 3) \in Mute /\ I("wheel", 3) \in Mute /\ I("wheel", 4) \in Mute
      /\ \A i \in Int : I("install", i) \in Mute
  <2>1. \A op \in Names \ {"mouse", "drain"}, a \in Arguments : I(op, a) \in Mute
    BY Muted
  <2>2. /\ "quiet" \in Arguments /\ "final" \in Arguments /\ 0 \in Arguments
        /\ 3 \in Arguments /\ 4 \in Arguments /\ \A c \in Int : c \in Arguments
    BY DEF Arguments
  <2>3. {"cmd", "read", "ack", "mread", "kbd", "config", "guess", "confirm", "reset",
         "wheel", "install"} \subseteq Names \ {"mouse", "drain"}
    BY DEF Names
  <2>4. /\ \A c \in Int : /\ I("cmd", c) \in Mute /\ I("kbd", c) \in Mute
                          /\ I("install", c) \in Mute
        /\ I("read", 0) \in Mute /\ I("ack", 0) \in Mute /\ I("mread", 0) \in Mute
    BY <2>1, <2>2, <2>3
  <2>5. /\ I("config", "quiet") \in Mute /\ I("config", "final") \in Mute
        /\ I("guess", 0) \in Mute /\ I("confirm", 0) \in Mute /\ I("reset", 0) \in Mute
        /\ I("wheel", 3) \in Mute /\ I("wheel", 4) \in Mute
    BY <2>1, <2>2, <2>3
  <2>6. \A c \in Int : Send(1, c) = I("kbd", c) /\ Send(2, c) = I("mouse", c)
    BY DEF Send
  <2>7. I("drain", 3) \in Mute /\ \A c \in Int \ {244} : I("mouse", c) \in Mute
    BY Muted
  <2>. QED BY <2>4, <2>5, <2>6, <2>7 DEF Cmd, Read, Ack, MouseRead
<1>c. /\ 255 \in Int \ {244} /\ 245 \in Int \ {244} /\ 242 \in Int \ {244}
      /\ 243 \in Int \ {244} /\ 200 \in Int \ {244} /\ 100 \in Int \ {244}
      /\ 80 \in Int \ {244} /\ 244 \in Int /\ CONFIG_READ \in Int
      /\ RESET = 255 /\ DISABLE_STREAMING = 245 /\ IDENTIFY = 242
      /\ SET_SAMPLE_RATE = 243 /\ ENABLE_STREAMING = 244
  BY Codes DEF SET_SAMPLE_RATE
<1>1. \A p \in {1, 2} : /\ Quiet(p) \in Seq(Mute) /\ Test(p) \in Seq(Mute)
                        /\ Reset(p) \in Seq(Mute) /\ Identify(p) \in Seq(Mute)
  <2>1. \A p \in {1, 2} : /\ Send(p, DISABLE_STREAMING) \in Mute
                          /\ Send(p, RESET) \in Mute /\ Send(p, IDENTIFY) \in Mute
    BY <1>0, <1>c
  <2>2. \A p \in {1, 2} : Cmd(IF p = 2 THEN \hA9 ELSE \hAB) \in Mute
    BY <1>0
  <2>. QED BY <1>0, <2>1, <2>2, MuteTuples DEF Quiet, Test, Reset, Identify
<1>2. Stream(1) \in Seq(Mute) /\ Stream(2) \in Seq(Instr)
  <2>1. Send(1, ENABLE_STREAMING) \in Mute /\ Send(2, ENABLE_STREAMING) = Starting
    BY <1>0, <1>c DEF Send, Starting
  <2>2. Stream(1) \in Seq(Mute)
    BY <1>0, <2>1, MuteTuples DEF Stream
  <2>3. Starting \in Instr /\ Ack \in Instr
    BY <1>0, Muted DEF Mute
  <2>. QED BY <2>1, <2>2, <2>3 DEF Stream
<1>3. ConfigRead \in Seq(Mute) /\ <<>> \in Seq(Mute)
  BY <1>0, <1>c, MuteTuples DEF ConfigRead
<1>4. \A n \in {1, 2} : FinalConfig(n) \in Seq(Mute)
  <2>1. <<I("config", "final"), Cmd(\hAE)>> \in Seq(Mute) /\ <<Cmd(\hA8)>> \in Seq(Mute)
    BY <1>0, MuteTuples
  <2>. QED BY <1>3, <2>1, MuteConcat DEF FinalConfig
<1>5. Probe \in Seq(Mute) /\ SelfTest \in Seq(Mute) /\ ConfirmDual \in Seq(Mute)
  <2>1. /\ <<Cmd(\hAD), Cmd(\hA7), I("drain", 3)>> \in Seq(Mute)
        /\ <<I("config", "quiet")>> \in Seq(Mute) /\ <<I("guess", 0)>> \in Seq(Mute)
        /\ <<Cmd(\hAA), Read>> \in Seq(Mute) /\ <<Cmd(\hA8)>> \in Seq(Mute)
        /\ <<I("confirm", 0)>> \in Seq(Mute)
    BY <1>0, MuteTuples
  <2>. QED BY <1>3, <2>1, MuteConcat DEF Probe, SelfTest, ConfirmDual
<1>6. Wheel \in Seq(Mute)
  <2>1. \A r \in Int \ {244} : Rate(r) \in Seq(Mute)
    BY <1>0, <1>c, MuteTuples DEF Rate
  <2>2. \A k \in {3, 4} : <<Send(2, IDENTIFY), Ack, MouseRead, I("wheel", k)>> \in Seq(Mute)
    BY <1>0, <1>c, MuteTuples
  <2>3. \A r \in {100, 200}, k \in {3, 4} : Knock(r, k) \in Seq(Mute)
    BY <1>c, <2>1, <2>2, MuteConcat DEF Knock
  <2>4. <<Send(2, IDENTIFY), MouseRead>> \in Seq(Mute)
    BY <1>0, <1>c, MuteTuples
  <2>. QED BY <2>3, <2>4, MuteConcat DEF Wheel
<1>. QED BY <1>0, <1>1, <1>2, <1>4, <1>5, <1>6, MuteTuples

LEMMA MuteConcats ==
    ASSUME NEW a \in Seq(Mute), NEW b \in Seq(Mute), NEW c \in Seq(Mute),
           NEW d \in Seq(Mute), NEW e \in Seq(Mute), NEW f \in Seq(Mute),
           NEW g \in Seq(Mute)
    PROVE  a \o b \o c \o d \o e \o f \o g \in Seq(Mute)
<1>1. a \o b \in Seq(Mute)
  BY MuteConcat
<1>2. a \o b \o c \in Seq(Mute)
  BY <1>1, MuteConcat
<1>3. a \o b \o c \o d \in Seq(Mute)
  BY <1>2, MuteConcat
<1>4. a \o b \o c \o d \o e \in Seq(Mute)
  BY <1>3, MuteConcat
<1>5. a \o b \o c \o d \o e \o f \in Seq(Mute)
  BY <1>4, MuteConcat
<1>. QED BY <1>5, MuteConcat

LEMMA GuardedBehind ==
    ASSUME NEW a \in Seq(Mute), NEW b \in Seq(Instr)
    PROVE  Guarded((a \o <<Installing>>) \o b)
<1>. DEFINE c == a \o <<Installing>>
<1>1. /\ c \in Seq(Mute) /\ Len(c) = Len(a) + 1 /\ c[Len(a) + 1] = Installing
      /\ Len(a) \in Nat /\ Len(b) \in Nat
  BY Muted
<1>2. \A i \in 1..Len(c) : c[i] # Starting
  BY <1>1 DEF Mute
<1>3. c \in Seq(Instr)
  BY <1>1 DEF Mute
<1>. HIDE DEF c
<1>4. /\ c \o b \in Seq(Instr) /\ Len(c \o b) = Len(c) + Len(b)
      /\ \A i \in 1..Len(c) : (c \o b)[i] = c[i]
  BY <1>3
<1>5. ASSUME NEW i \in 1..Len(c \o b), (c \o b)[i] = Starting
      PROVE  \E j \in 1..i - 1 : (c \o b)[j] = Installing
  <2>1. i > Len(c)
    BY <1>1, <1>2, <1>4, <1>5
  <2>2. Len(a) + 1 \in 1..i - 1 /\ Len(a) + 1 \in 1..Len(c)
    BY <1>1, <2>1
  <2>3. (c \o b)[Len(a) + 1] = Installing
    BY <1>1, <1>4, <2>2
  <2>. QED BY <2>2, <2>3
<1>6. Guarded(c \o b)
  BY <1>4, <1>5 DEF Guarded
<1>. QED BY <1>6 DEF c

LEMMA GuardedFront ==
    ASSUME NEW x \in Mute, NEW s, Guarded(s)
    PROVE  Guarded(<<x>> \o s)
<1>. DEFINE u == <<x>> \o s
<1>1. s \in Seq(Instr) /\ Len(s) \in Nat /\ x \in Instr /\ x # Starting
  BY DEF Guarded, Mute
<1>2. /\ u \in Seq(Instr) /\ Len(u) = Len(s) + 1 /\ u[1] = x
      /\ \A i \in 1..Len(s) : u[i + 1] = s[i]
  BY <1>1
<1>. HIDE DEF u
<1>3. ASSUME NEW i \in 1..Len(u), u[i] = Starting
      PROVE  \E j \in 1..i - 1 : u[j] = Installing
  <2>1. i # 1 /\ i - 1 \in 1..Len(s) /\ (i - 1) + 1 = i
    BY <1>1, <1>2, <1>3
  <2>2. s[i - 1] = Starting
    BY <1>2, <1>3, <2>1
  <2>3. PICK j \in 1..(i - 1) - 1 : s[j] = Installing
    BY <2>1, <2>2 DEF Guarded
  <2>4. j + 1 \in 1..i - 1 /\ j \in 1..Len(s)
    BY <1>1, <2>1, <2>3
  <2>. QED BY <1>2, <2>3, <2>4
<1>4. Guarded(u)
  BY <1>2, <1>3 DEF Guarded
<1>. QED BY <1>4 DEF u

\* What is left after an instruction that does not install the mouse's routine.
LEMMA GuardedTail ==
    ASSUME NEW s, Guarded(s), s # <<>>
    PROVE  /\ Head(s) \in Instr /\ Tail(s) \in Seq(Instr) /\ Head(s) # Starting
           /\ Head(s) # Installing => Guarded(Tail(s))
<1>. DEFINE t == Tail(s)
<1>1. /\ s \in Seq(Instr) /\ Len(s) \in Nat /\ Len(s) > 0 /\ Head(s) = s[1]
      /\ Head(s) \in Instr
      /\ t \in Seq(Instr) /\ Len(t) = Len(s) - 1
      /\ \A i \in 1..Len(t) : t[i] = s[i + 1]
  BY EmptySeq, HeadTailProperties DEF Guarded
<1>. HIDE DEF t
<1>2. Head(s) # Starting
  <2>1. \A j \in Int : j \notin 1..1 - 1
    OBVIOUS
  <2>. QED BY <1>1, <2>1 DEF Guarded
<1>3. ASSUME Head(s) # Installing, NEW i \in 1..Len(t), t[i] = Starting
      PROVE  \E j \in 1..i - 1 : t[j] = Installing
  <2>1. i + 1 \in 1..Len(s) /\ s[i + 1] = Starting
    BY <1>1, <1>3
  <2>2. PICK j \in 1..(i + 1) - 1 : s[j] = Installing
    BY <2>1 DEF Guarded
  <2>3. j # 1
    BY <1>1, <1>3, <2>2
  <2>4. j - 1 \in 1..i - 1 /\ j - 1 \in 1..Len(t) /\ (j - 1) + 1 = j
    BY <1>1, <2>1, <2>2, <2>3
  <2>. QED BY <1>1, <2>2, <2>4
<1>4. Head(s) # Installing => Guarded(t)
  BY <1>1, <1>3 DEF Guarded
<1>. QED BY <1>1, <1>2, <1>4 DEF t

\* All of ps2_install: only on a controller with two ports the mouse is started, and
\* its routine comes first.
LEMMA AllGuarded ==
    /\ Guarded(Probe) /\ Guarded(SelfTest \o ConfirmDual)
    /\ Guarded(SelfTest \o Rest(1)) /\ Guarded(Rest(1))
    /\ Guarded(<<Cmd(\hA7)>> \o Rest(2))
<1>0. /\ 1 \in {1, 2} /\ 2 \in {1, 2} /\ <<>> \in Seq(Mute)
      /\ <<I("install", IRQ_KEYBOARD)>> \in Seq(Mute)
  BY Pieces DEF IRQ_KEYBOARD
<1>1. Rest(1) \in Seq(Mute)
  <2>1. Rest(1) = FinalConfig(1) \o Quiet(1) \o Test(1) \o Reset(1) \o Identify(1)
                  \o <<>> \o <<I("install", IRQ_KEYBOARD)>> \o <<>> \o Stream(1)
    BY DEF Rest, Ports
  <2>2. /\ FinalConfig(1) \in Seq(Mute) /\ Quiet(1) \in Seq(Mute)
        /\ Test(1) \in Seq(Mute) /\ Reset(1) \in Seq(Mute) /\ Identify(1) \in Seq(Mute)
        /\ Stream(1) \in Seq(Mute)
    BY <1>0, Pieces
  <2>. DEFINE h == FinalConfig(1) \o Quiet(1) \o Test(1) \o Reset(1) \o Identify(1)
                   \o <<>> \o <<I("install", IRQ_KEYBOARD)>>
  <2>3. h \in Seq(Mute)
    BY <1>0, <2>2, MuteConcats
  <2>4. Rest(1) = h \o <<>> \o Stream(1)
    BY <2>1
  <2>. HIDE DEF h
  <2>5. h \o <<>> \in Seq(Mute)
    BY <1>0, <2>3, MuteConcat
  <2>. QED BY <2>2, <2>4, <2>5, MuteConcat
<1>. DEFINE q == Quiet(1) \o Quiet(2)
            t == Test(1) \o Test(2)
            r == Reset(1) \o Reset(2)
            d == Identify(1) \o Identify(2)
            a == FinalConfig(2) \o q \o t \o r \o d \o Wheel
                 \o <<I("install", IRQ_KEYBOARD)>>
            b == Stream(1) \o Stream(2)
<1>2. Rest(2) = (a \o <<Installing>>) \o b
  BY DEF Rest, Ports, Installing
<1>3. a \in Seq(Mute)
  <2>1. /\ FinalConfig(2) \in Seq(Mute) /\ Wheel \in Seq(Mute)
        /\ q \in Seq(Mute) /\ t \in Seq(Mute) /\ r \in Seq(Mute) /\ d \in Seq(Mute)
    BY <1>0, Pieces, MuteConcat
  <2>. HIDE DEF q, t, r, d
  <2>. QED BY <1>0, <2>1, MuteConcats
<1>4. b \in Seq(Instr)
  <2>1. Stream(1) \in Seq(Instr) /\ Stream(2) \in Seq(Instr)
    BY SMTT(20), Pieces DEF Mute
  <2>. QED BY <2>1
<1>. HIDE DEF a, b
<1>5. Guarded(Rest(2))
  BY <1>2, <1>3, <1>4, GuardedBehind
<1>6. Cmd(\hA7) \in Mute
  <2>1. "cmd" \in Names \ {"mouse", "drain"} /\ 167 \in Arguments
    BY DEF Names, Arguments
  <2>. QED BY <2>1, Muted DEF Cmd
<1>7. Guarded(<<Cmd(\hA7)>> \o Rest(2))
  BY <1>5, <1>6, GuardedFront
<1>8. SelfTest \o Rest(1) \in Seq(Mute) /\ SelfTest \o ConfirmDual \in Seq(Mute)
  BY <1>1, Pieces, MuteConcat
<1>. QED BY <1>1, <1>7, <1>8, Pieces, MuteGuarded


\* Until its routine is installed the mouse does not stream, and what is left of
\* ps2_install starts it only behind that.
StreamInv == /\ todo \in Seq(Instr)
             /\ IRQ_MOUSE_PS2 \in routines \/ (~streaming /\ Guarded(todo))

LEMMA StreamInit == PointerInit => StreamInv
<1>. SUFFICES ASSUME PointerInit PROVE StreamInv
  OBVIOUS
<1>1. todo = Probe /\ streaming = FALSE
  BY DEF PointerInit, Ps2Init
<1>2. Guarded(todo)
  BY <1>1, AllGuarded
<1>. QED BY <1>1, <1>2 DEF StreamInv, Guarded

\* An instruction in general: what follows it, with what it puts in front.
LEMMA AfterHead ==
    ASSUME StreamInv, todo # <<>>
    PROVE  /\ Head(todo) \in Instr /\ Tail(todo) \in Seq(Instr)
           /\ IRQ_MOUSE_PS2 \notin routines
              => /\ ~streaming /\ Guarded(todo) /\ Head(todo) # Starting
                 /\ Head(todo) # Installing => Guarded(Tail(todo))
<1>1. todo \in Seq(Instr)
  BY DEF StreamInv
<1>2. Head(todo) \in Instr /\ Tail(todo) \in Seq(Instr)
  BY <1>1, EmptySeq, HeadTailProperties
<1>3. IRQ_MOUSE_PS2 \notin routines => ~streaming /\ Guarded(todo)
  BY DEF StreamInv
<1>4. Guarded(todo) => /\ Head(todo) # Starting
                       /\ Head(todo) # Installing => Guarded(Tail(todo))
  BY GuardedTail
<1>. QED BY <1>2, <1>3, <1>4

LEMMA InstructionStream ==
    ASSUME StreamInv, ps2_install
    PROVE  StreamInv'
<1>1. todo # <<>>
  BY DEF ps2_install, Command, WriteConfig, SendKeyboard, SendMouse, ReadByte, AwaitAck,
         ReadReset, Drain, mouse_read, GuessDual, Confirm, TryWheel, Install, Inb, Decide, At
<1>2. /\ Head(todo) \in Instr /\ Tail(todo) \in Seq(Instr)
      /\ IRQ_MOUSE_PS2 \notin routines
         => /\ ~streaming /\ Guarded(todo) /\ Head(todo) # Starting
            /\ Head(todo) # Installing => Guarded(Tail(todo))
  BY <1>1, AfterHead
<1>3. Installing.op = "install" /\ Installing.arg = 12 /\ IRQ_MOUSE_PS2 = 12
      /\ Starting.op = "mouse" /\ Starting.arg = ENABLE_STREAMING
  BY DEF Installing, Starting, I, IRQ_MOUSE_PS2
\* The instructions that only finish.
<1>5. ASSUME Done, UNCHANGED streaming, UNCHANGED routines, Head(todo).op # "install"
      PROVE  StreamInv'
  <2>1. Head(todo) # Installing
    BY <1>3, <1>5
  <2>. QED BY <1>2, <1>5, <2>1 DEF StreamInv, Done
<1>6. CASE Command \/ WriteConfig \/ SendKeyboard \/ ReadByte \/ mouse_read \/ TryWheel
  <2>1. /\ Done /\ UNCHANGED streaming /\ UNCHANGED routines
        /\ Head(todo).op \in {"cmd", "config", "kbd", "read", "mread", "wheel"}
    BY <1>6 DEF Command, WriteConfig, SendKeyboard, ReadByte, mouse_read, TryWheel, Inb,
                Decide, At, mouse, locals
  <2>. QED BY <1>5, <2>1
<1>7. CASE SendMouse
  <2>1. /\ Done /\ UNCHANGED routines /\ Head(todo).op = "mouse"
        /\ \/ UNCHANGED streaming
           \/ streaming' = (\/ arg = ENABLE_STREAMING
                            \/ streaming /\ arg \notin {DISABLE_STREAMING, RESET})
    BY <1>7 DEF SendMouse, At, mouse, locals
  <2>2. ASSUME IRQ_MOUSE_PS2 \notin routines PROVE ~streaming' /\ Guarded(todo')
    <3>1. Head(todo) \in [op : Names, arg : Arguments]
      BY <1>2 DEF Instr
    <3>2. Head(todo) = [op |-> Head(todo).op, arg |-> Head(todo).arg]
      BY <3>1
    <3>3. arg # ENABLE_STREAMING
      BY <1>2, <2>1, <2>2, <3>2 DEF arg, Starting, I
    <3>4. ~streaming' 
      BY <1>2, <2>1, <2>2, <3>3
    <3>5. Head(todo) # Installing
      BY <1>3, <2>1
    <3>. QED BY <1>2, <2>1, <2>2, <3>4, <3>5 DEF Done
  <2>. QED BY <1>2, <2>1, <2>2 DEF StreamInv, Done
<1>8. CASE Install
  <2>1. /\ Done /\ UNCHANGED streaming /\ routines' = routines \cup {arg}
        /\ Head(todo).op = "install"
    BY <1>8 DEF Install, Decide, At, mouse
  <2>2. CASE Head(todo) = Installing
    BY <1>2, <1>3, <2>1, <2>2 DEF StreamInv, Done, arg
  <2>3. CASE Head(todo) # Installing
    <3>1. IRQ_MOUSE_PS2 \notin routines => Guarded(todo') /\ ~streaming'
      BY <1>2, <2>1, <2>3 DEF Done
    <3>. QED BY <1>2, <2>1, <3>1 DEF StreamInv, Done
  <2>. QED BY <2>2, <2>3
<1>9. CASE AwaitAck
  <2>1. /\ UNCHANGED streaming /\ UNCHANGED routines /\ Head(todo).op = "ack"
        /\ todo' \in {todo, Tail(todo)}
    BY <1>9 DEF AwaitAck, Inb, At, mouse
  <2>2. Head(todo) # Installing
    BY <1>3, <2>1
  <2>. QED BY <1>2, <2>1, <2>2 DEF StreamInv
<1>10. ASSUME NEW x \in Mute, todo' = <<x>> \o Tail(todo), UNCHANGED streaming,
              UNCHANGED routines, Head(todo).op # "install"
       PROVE  StreamInv'
  <2>1. Head(todo) # Installing
    BY <1>3, <1>10
  <2>2. <<x>> \o Tail(todo) \in Seq(Instr)
    BY <1>2 DEF Mute
  <2>3. Guarded(Tail(todo)) => Guarded(<<x>> \o Tail(todo))
    BY GuardedFront
  <2>. QED BY <1>2, <1>10, <2>1, <2>2, <2>3 DEF StreamInv
<1>11. CASE ReadReset
  <2>1. /\ UNCHANGED streaming /\ UNCHANGED routines /\ Head(todo).op = "reset"
        /\ todo' = <<Read>> \o Tail(todo) \/ Done
    BY <1>11 DEF ReadReset, Inb, At, mouse, Done
  <2>2. Read \in Mute
    <3>1. "read" \in Names \ {"mouse", "drain"} /\ 0 \in Arguments
      BY DEF Names, Arguments
    <3>. QED BY <3>1, Muted DEF Read
  <2>. QED BY <1>5, <1>10, <2>1, <2>2
<1>12. CASE Drain
  <2>1. /\ UNCHANGED streaming /\ UNCHANGED routines /\ Head(todo).op = "drain"
        /\ todo' = <<I("drain", arg - 1)>> \o Tail(todo) \/ Done
    BY <1>12 DEF Drain, At, mouse, locals, Done
  <2>2. I("drain", arg - 1) \in Mute
    BY <1>2, <2>1, Muted DEF Instr, arg
  <2>. QED BY <1>5, <1>10, <2>1, <2>2
<1>13. CASE GuessDual \/ Confirm
  <2>1. /\ UNCHANGED streaming /\ UNCHANGED routines
        /\ todo' \in {SelfTest \o ConfirmDual, SelfTest \o Rest(1), Rest(1),
                      <<Cmd(\hA7)>> \o Rest(2)}
    BY <1>13 DEF GuessDual, Confirm, Decide, mouse
  <2>2. Guarded(todo')
    BY <2>1, AllGuarded
  <2>3. todo' \in Seq(Instr)
    BY <2>2 DEF Guarded
  <2>. QED BY <1>2, <2>1, <2>2, <2>3 DEF StreamInv
<1>. QED BY <1>6, <1>7, <1>8, <1>9, <1>11, <1>12, <1>13 DEF ps2_install

LEMMA StreamNext ==
    ASSUME StreamInv, [Next]_vars
    PROVE  StreamInv'
<1>1. CASE ps2_install
  BY <1>1, InstructionStream
<1>2. CASE ~ps2_install
  <2>1. UNCHANGED <<todo, streaming, routines>>
    BY <1>2, LoopStep DEF Next, BringUp, KeyTyped, Report, Lose, Interrupt, vars, ps2vars,
       controller, mouse, locals
  <2>. QED BY <2>1 DEF StreamInv, Guarded
<1>. QED BY <1>1, <1>2
-----------------------------------------------------------------------------
(* Where the pointer is *)

Position == <<mouse_x, mouse_y, mouse_buttons>>

\* Where a movement takes the pointer.
After(m) == IF m.overflow THEN Position
            ELSE <<Clamp(mouse_x + m.dx, 0, MaxX), Clamp(mouse_y - m.dy, 0, MaxY),
                   m.buttons>>

\* The last report is m's, j of its bytes are taken.
Taken(m, j) ==
    /\ Len(obuf) = ReportLength - j
    /\ \A i \in 1..Len(obuf) : obuf[i] = [from |-> 2, b |-> Bytes(m)[j + i]]
    /\ id # 0 => ~Starts(Fourth(m))
    /\ j < 3 => /\ mouse_cycle = j /\ hand = After(m)
                /\ \A i \in 0..j - 1 : mouse_byte[i] = Bytes(m)[i + 1]
    /\ j >= 3 => mouse_cycle = 0 /\ hand = Position

TrackInv ==
    /\ reports \in Nat
    /\ reports = 0 => hand = <<0, 0, 0>> /\ (clean => Position = hand /\ mouse_cycle = 0)
    /\ reports > 0 => Installed /\ IRQ_MOUSE_PS2 \in routines
    /\ (reports > 0 /\ clean /\ mouse_mode = MOUSE_DEFAULT)
       => \E m \in Movements, j \in 0..ReportLength : Taken(m, j)

LEMMA TrackInit == PointerInit => TrackInv
BY DEF PointerInit, MouseInit, TrackInv, Position

\* The three bytes say where to, whatever the fourth.
LEMMA Decoded ==
    ASSUME NEW m \in Movements, NEW b, b[0] = First(m), b[1] = m.dx % 256,
           b[2] = m.dy % 256
    PROVE  /\ m.overflow => Overflowed(b)
           /\ ~m.overflow => ~Overflowed(b)
           /\ Packet(b, FALSE) = [dx |-> m.dx, dy |-> -m.dy, buttons |-> m.buttons]
<1>1. /\ m.dx \in -256..255 /\ m.dy \in -256..255 /\ m.buttons \in 0..7
  BY PointerAssumption DEF PointerAssumption
<1>. DEFINE sx == Sign(m.dx)
            sy == Sign(m.dy)
            o == IF m.overflow THEN 64 ELSE 0
<1>2. sx \in 0..1 /\ sy \in 0..1 /\ o \in {0, 64}
  BY DEF Sign
<1>3. b[0] = 8 + m.buttons + 16 * sx + 32 * sy + o
  BY DEF First
<1>4. /\ (m.dx % 256) - 256 * sx = m.dx /\ (m.dy % 256) - 256 * sy = m.dy
  BY SMTT(30), <1>1 DEF Sign
<1>5. (m.overflow => o = 64) /\ (~m.overflow => o = 0)
  OBVIOUS
<1>. HIDE DEF sx, sy, o
<1>6. /\ BitOf(b[0], 4) = sx /\ BitOf(b[0], 5) = sy /\ b[0] % 8 = m.buttons
  BY <1>1, <1>2, <1>3 DEF BitOf
<1>7. /\ (o = 64 => BitOf(b[0], 6) = 1)
      /\ (o = 0 => BitOf(b[0], 6) = 0) /\ BitOf(b[0], 7) = 0
  BY <1>1, <1>2, <1>3 DEF BitOf
<1>8. b[1] - 256 * BitOf(b[0], 4) = m.dx /\ b[2] - 256 * BitOf(b[0], 5) = m.dy
  BY <1>4, <1>6
<1>9. (b[0] % 8) + 0 = m.buttons
  BY <1>1, <1>6
<1>10. Packet(b, FALSE) = [dx |-> m.dx, dy |-> -m.dy, buttons |-> m.buttons]
  BY <1>6, <1>8, <1>9 DEF Packet
<1>11. (m.overflow => Overflowed(b)) /\ (~m.overflow => ~Overflowed(b))
  BY <1>5, <1>7 DEF Overflowed
<1>. QED BY <1>10, <1>11

\* mouse_handler in step: one byte more is taken.
LEMMA TakenNext ==
    ASSUME Ps2Types, MouseTypes, TrackInv, Interrupt, reports > 0,
           mouse_mode = MOUSE_DEFAULT,
           NEW m \in Movements, NEW j \in 0..ReportLength, Taken(m, j)
    PROVE  j + 1 \in 0..ReportLength /\ Taken(m, j + 1)'
<1>1. /\ Len(obuf) \in Nat /\ Len(obuf) > 0
      /\ Len(obuf') = Len(obuf) - 1 /\ \A i \in 1..Len(obuf') : obuf'[i] = obuf[i + 1]
      /\ Head(obuf) = obuf[1] /\ id' = id /\ mouse_mode' = mouse_mode /\ hand' = hand
  BY ByteTaken
<1>2. /\ Len(obuf) = ReportLength - j /\ ReportLength \in {3, 4} /\ j \in Nat
      /\ \A i \in 1..Len(obuf) : obuf[i] = [from |-> 2, b |-> Bytes(m)[j + i]]
  BY DEF Taken, ReportLength
<1>3. j < ReportLength /\ j + 1 \in 0..ReportLength
  BY <1>1, <1>2
<1>4. /\ Bytes(m)[1] = First(m) /\ Bytes(m)[2] = m.dx % 256 /\ Bytes(m)[3] = m.dy % 256
      /\ id # 0 => Bytes(m)[4] = Fourth(m)
      /\ Starts(Bytes(m)[1])
  BY ReportBytes DEF Ps2Types
<1>5. mouse_handler(Bytes(m)[j + 1], 0)
  <2>1. IRQ_MOUSE_PS2 \in routines
    BY DEF TrackInv
  <2>2. obuf[1].from = 2 /\ obuf[1].b = Bytes(m)[j + 1]
    <3>1. 1 \in 1..Len(obuf)
      BY <1>1
    <3>2. obuf[1] = [from |-> 2, b |-> Bytes(m)[j + 1]]
      BY ONLY Zenon, <1>2, <3>1
    <3>. QED BY ONLY <3>2
  <2>. QED BY <1>1, <2>1, <2>2 DEF Interrupt, MOUSE_DEFAULT
<1>6. /\ Bytes(m)' = Bytes(m) /\ ReportLength' = ReportLength /\ Fourth(m)' = Fourth(m)
  BY <1>1 DEF Bytes, ReportLength, Fourth
<1>7. /\ Len(obuf') = ReportLength - (j + 1)
      /\ \A i \in 1..Len(obuf') : obuf'[i] = [from |-> 2, b |-> Bytes(m)[(j + 1) + i]]
  <2>1. Len(obuf') = ReportLength - (j + 1)
    BY <1>1, <1>2
  <2>2. \A i \in 1..Len(obuf') : i + 1 \in 1..Len(obuf) /\ j + (i + 1) = (j + 1) + i
    BY <1>1, <1>2
  <2>3. \A i \in 1..Len(obuf') : obuf'[i] = [from |-> 2, b |-> Bytes(m)[j + (i + 1)]]
    BY <1>1, <1>2, <2>2
  <2>. QED BY <2>1, <2>2, <2>3
<1>8. /\ mouse_byte \in [0..3 -> Bytes8]
      /\ mouse_byte' = [mouse_byte EXCEPT ![mouse_cycle] = Bytes(m)[j + 1]]
  BY <1>5 DEF mouse_handler, MouseTypes
<1>9. CASE j < 2
  <2>1. /\ mouse_cycle = j /\ hand = After(m)
        /\ \A i \in 0..j - 1 : mouse_byte[i] = Bytes(m)[i + 1]
    BY <1>9 DEF Taken
  <2>2. /\ mouse_cycle' = j + 1 /\ UNCHANGED <<mouse_x, mouse_y, mouse_buttons>>
    <3>1. j = 0 => Starts(Bytes(m)[j + 1])
      BY <1>4
    <3>2. mouse_cycle # Last(0)
      BY <1>2, <1>9, <2>1 DEF Last
    <3>. QED BY <1>2, <1>5, <2>1, <3>1, <3>2 DEF mouse_handler
  <2>3. \A i \in 0..(j + 1) - 1 : mouse_byte'[i] = Bytes(m)[i + 1]
    BY <1>2, <1>8, <1>9, <2>1
  <2>4. After(m)' = After(m)
    BY <2>2 DEF After, Position
  <2>5. /\ (j + 1 < 3) /\ ~(j + 1 >= 3)
        /\ id' # 0 => ~Starts(Fourth(m)')
    BY <1>1, <1>2, <1>6, <1>9 DEF Taken
  <2>6. hand' = After(m)'
    BY <1>1, <2>1, <2>4
  <2>7. Taken(m, j + 1)'
    BY <1>6, <1>7, <2>2, <2>3, <2>5, <2>6 DEF Taken
  <2>. QED BY <1>3, <2>7
<1>10. CASE j = 2
  <2>1. /\ mouse_cycle = 2 /\ hand = After(m)
        /\ mouse_byte[0] = Bytes(m)[1] /\ mouse_byte[1] = Bytes(m)[2]
    BY <1>10 DEF Taken
  <2>2. mouse_byte'[0] = First(m) /\ mouse_byte'[1] = m.dx % 256
        /\ mouse_byte'[2] = m.dy % 256
    BY <1>4, <1>8, <1>10, <2>1
  <2>3. Finish(mouse_byte', FALSE)
    <3>1. mouse_cycle = Last(0) /\ (0 = 1) = FALSE
      BY <2>1 DEF Last
    <3>. QED BY <1>5, <3>1 DEF mouse_handler
  <2>4. /\ m.overflow => Overflowed(mouse_byte')
        /\ ~m.overflow => ~Overflowed(mouse_byte')
        /\ Packet(mouse_byte', FALSE) = [dx |-> m.dx, dy |-> -m.dy, buttons |-> m.buttons]
    BY <2>2, Decoded
  <2>5. mouse_cycle' = 0 /\ Position' = After(m)
    <3>1. CASE m.overflow
      BY <2>3, <2>4, <3>1 DEF Finish, Position, After
    <3>2. CASE ~m.overflow
      <4>1. /\ mouse_cycle' = 0
            /\ mouse_x' = Clamp(mouse_x + m.dx, 0, MaxX)
            /\ mouse_y' = Clamp(mouse_y + (-m.dy), 0, MaxY)
            /\ mouse_buttons' = m.buttons
        <5>. DEFINE p == Packet(mouse_byte', FALSE)
        <5>1. p = [dx |-> m.dx, dy |-> -m.dy, buttons |-> m.buttons]
          BY <2>4
        <5>2. /\ mouse_cycle' = 0
              /\ mouse_x' = Clamp(mouse_x + p.dx, 0, MaxX)
              /\ mouse_y' = Clamp(mouse_y + p.dy, 0, MaxY)
              /\ mouse_buttons' = p.buttons
          BY <2>3, <2>4, <3>2 DEF Finish
        <5>. HIDE DEF p
        <5>3. p.dx = m.dx /\ p.dy = -m.dy /\ p.buttons = m.buttons
          BY <5>1
        <5>. QED BY <5>2, <5>3
      <4>2. mouse_y + (-m.dy) = mouse_y - m.dy
        <5>1. mouse_y \in Int /\ m.dy \in Int
          BY SMTT(20), PointerAssumption, MouseAssumption
             DEF PointerAssumption, MouseAssumption, MouseTypes
        <5>. QED BY <5>1
      <4>. QED BY <3>2, <4>1, <4>2 DEF Position, After
    <3>. QED BY <3>1, <3>2
  <2>. QED BY <1>1, <1>2, <1>3, <1>6, <1>7, <1>10, <2>1, <2>5 DEF Taken
<1>11. CASE j = 3
  <2>1. mouse_cycle = 0 /\ hand = Position /\ id # 0 /\ ~Starts(Bytes(m)[4])
    BY <1>2, <1>3, <1>4, <1>11 DEF Taken, ReportLength
  <2>2. mouse_cycle' = 0 /\ UNCHANGED <<mouse_x, mouse_y, mouse_buttons>>
    BY <1>5, <1>11, <2>1 DEF mouse_handler, Last
  <2>3. Position' = Position
    BY <2>2 DEF Position
  <2>. QED BY <1>1, <1>2, <1>3, <1>6, <1>7, <1>11, <2>1, <2>2, <2>3 DEF Taken
<1>12. j \in {0, 1, 2, 3}
  BY <1>2, <1>3
<1>. QED BY <1>3, <1>9, <1>10, <1>11, <1>12

LEMMA TrackNext ==
    ASSUME Ps2Types, MouseTypes, StepInv, StreamInv, TrackInv, [Next]_vars
    PROVE  TrackInv'
<1>1. CASE UNCHANGED vars \/ Compare \/ Take \/ Draw
  <2>1. UNCHANGED <<obuf, id, mouse_mode, todo, routines, mousevars, hand, reports, clean>>
    BY <1>1, LoopStep DEF vars, history, ps2vars, controller, mouse, locals
  <2>2. /\ ReportLength' = ReportLength /\ Position' = Position
        /\ \A m : Fourth(m)' = Fourth(m)
        /\ \A m : Bytes(m)' = Bytes(m) /\ After(m)' = After(m)
    BY <2>1 DEF ReportLength, Position, Fourth, Bytes, After, mousevars
  <2>3. \A m, j : Taken(m, j)' <=> Taken(m, j)
    BY <2>1, <2>2 DEF Taken, mousevars
  <2>. QED BY <2>1, <2>2, <2>3 DEF TrackInv, Installed, mousevars
<1>2. CASE /\ ps2_install \/ KeyTyped
           /\ todo # <<>> /\ UNCHANGED <<mousevars, loop, history>>
  <2>1. reports = 0 /\ UNCHANGED <<mousevars, hand, reports, clean>>
    BY <1>2 DEF StepInv, Installed, history
  <2>. QED BY <2>1 DEF TrackInv, Position, mousevars
<1>3. ASSUME NEW m \in Movements, Report(m) PROVE TrackInv'
  <2>1. /\ Installed /\ streaming /\ obuf = <<>> /\ reports' = reports + 1
        /\ obuf' = From(2, Bytes(m)) /\ hand' = Follow(m)
        /\ clean' = (clean /\ ~(id # 0 /\ Starts(Fourth(m))))
        /\ UNCHANGED <<todo, routines, mouse_mode, id, mousevars>>
    BY <1>3 DEF Report, locals, mouse
  <2>2. reports' \in Nat /\ reports' > 0
    BY <2>1 DEF TrackInv
  <2>3. Installed' /\ IRQ_MOUSE_PS2 \in routines'
    BY <2>1 DEF StreamInv, Installed
  <2>4. ASSUME clean', mouse_mode' = MOUSE_DEFAULT PROVE Taken(m, 0)'
    <3>1. clean /\ mouse_mode = MOUSE_DEFAULT /\ (id # 0 => ~Starts(Fourth(m)))
      BY <2>1, <2>4
    <3>2. Position = hand /\ mouse_cycle = 0
      <4>1. CASE reports = 0
        BY <3>1, <4>1 DEF TrackInv
      <4>2. CASE reports # 0
        <5>1. PICK n \in Movements, j \in 0..ReportLength : Taken(n, j)
          BY <3>1, <4>2 DEF TrackInv
        <5>2. Len(obuf) = 0 /\ ReportLength \in {3, 4} /\ Len(obuf) = ReportLength - j
          BY <2>1, <5>1 DEF Taken, ReportLength
        <5>3. j >= 3
          BY <5>2
        <5>. QED BY <5>1, <5>3 DEF Taken
      <4>. QED BY <4>1, <4>2
    <3>3. hand' = After(m)'
      <4>1. hand' = IF m.overflow THEN hand
                    ELSE <<Clamp(hand[1] + m.dx, 0, MaxX),
                           Clamp(hand[2] - m.dy, 0, MaxY), m.buttons>>
        BY <2>1 DEF Follow
      <4>2. hand[1] = mouse_x /\ hand[2] = mouse_y
        BY <3>2 DEF Position
      <4>3. After(m)' = After(m)
        BY <2>1 DEF After, Position, mousevars
      <4>. QED BY <3>2, <4>1, <4>2, <4>3 DEF After
    <3>4. /\ Bytes(m) \in Seq(Bytes8) /\ Len(Bytes(m)) = ReportLength
      BY ReportBytes DEF Ps2Types, ReportLength
    <3>5. /\ Len(obuf') = ReportLength
          /\ \A i \in 1..ReportLength : obuf'[i] = [from |-> 2, b |-> Bytes(m)[i]]
      BY <2>1, <3>4, FromIs
    <3>6. /\ Bytes(m)' = Bytes(m) /\ ReportLength' = ReportLength /\ Fourth(m)' = Fourth(m)
          /\ id' = id /\ mouse_cycle' = 0 /\ ReportLength \in {3, 4}
      BY <2>1, <3>2 DEF Bytes, ReportLength, Fourth, mousevars
    <3>7. Len(obuf') = ReportLength' - 0
      BY <3>5, <3>6
    <3>8. \A i \in 1..Len(obuf') : obuf'[i] = [from |-> 2, b |-> Bytes(m)'[0 + i]]
      BY <3>5, <3>6
    <3>9. \A i \in Int : i \notin 0..0 - 1
      OBVIOUS
    <3>. QED BY <3>1, <3>3, <3>6, <3>7, <3>8, <3>9 DEF Taken
  <2>5. 0 \in 0..ReportLength'
    BY DEF ReportLength
  <2>. QED BY <2>2, <2>3, <2>4, <2>5 DEF TrackInv
<1>4. CASE Lose
  <2>1. /\ clean' = FALSE /\ Installed
        /\ UNCHANGED <<todo, routines, reports, hand>>
    BY <1>4 DEF Lose, locals
  <2>. QED BY <2>1 DEF TrackInv, Installed
<1>5. CASE Interrupt
  <2>1. /\ clean' = (clean /\ reports > 0) /\ Installed
        /\ UNCHANGED <<todo, routines, reports, hand, mouse_mode, id>>
    BY <1>5, ByteTaken DEF Interrupt
  <2>2. ASSUME reports' > 0, clean', mouse_mode' = MOUSE_DEFAULT
        PROVE  \E m \in Movements, j \in 0..ReportLength' : Taken(m, j)'
    <3>1. PICK m \in Movements, j \in 0..ReportLength : Taken(m, j)
      BY <2>1, <2>2 DEF TrackInv
    <3>2. j + 1 \in 0..ReportLength /\ Taken(m, j + 1)'
      BY <1>5, <2>1, <2>2, <3>1, TakenNext
    <3>3. ReportLength' = ReportLength
      BY <2>1 DEF ReportLength
    <3>. QED BY <3>2, <3>3
  <2>3. ASSUME reports = 0 PROVE ~clean'
    <3>1. ~(reports > 0)
      BY <2>3
    <3>. QED BY <2>1, <3>1, Zenon
  <2>. QED BY <2>1, <2>2, <2>3 DEF TrackInv, Installed
<1>. QED BY <1>1, <1>2, <1>3, <1>4, <1>5, Parts


-----------------------------------------------------------------------------
(* What ps2_install leaves behind, if no reply is given up                 *)

\* The four stretches of code between its decisions.
Confirming == SelfTest \o ConfirmDual
One == SelfTest \o Rest(1)
Two == <<Cmd(\hA7)>> \o Rest(2)

left == Len(todo)
Line(code, n) == code[Len(code) + 1 - n]     \* with n instructions left

\* A dummy read counts down, and an answered reset is followed by another read.
Stands(i, c) == \/ i = c
                \/ c.op = "drain" /\ i \in {I("drain", 1), I("drain", 2)}
                \/ c.op = "reset" /\ i = Read
On(code) == /\ todo \in Seq(Instr) /\ Len(todo) <= Len(code)
            /\ \A i \in 2..Len(todo) : todo[i] = code[Len(code) - Len(todo) + i]
            /\ todo # <<>> => Stands(todo[1], Line(code, left))

Waits(b) == obuf = <<[from |-> 0, b |-> b]>>
Empty == obuf = <<>>

\* The first port's clock is off: nothing but the replies asked for arrives.
Probing ==
    /\ On(Probe) /\ left >= 1 /\ routines = {} /\ ~streaming
    /\ left = 9 => config = 71 /\ todo = Probe
    /\ left = 8 => config = 87 /\ Len(obuf) <= 3
    /\ left = 7 => /\ config = IF fitted.dual THEN 119 ELSE 87
                   /\ Head(todo).arg \in 1..3 /\ Len(obuf) <= Head(todo).arg
    /\ left \in {6, 5, 4} => config = IF fitted.dual THEN 119 ELSE 87
    /\ left \in {3, 2, 1} => config = IF fitted.dual THEN 52 ELSE 20
    /\ left \in {6, 4, 3, 1} => Empty
    /\ left \in {5, 2} => Waits(config)
    /\ left \in {4, 1} => status = config
    /\ left = 3 => status = IF fitted.dual THEN 119 ELSE 87

Deciding ==
    /\ On(Confirming) /\ left >= 1 /\ routines = {} /\ ~streaming
    /\ fitted.dual /\ is_dual_device
    /\ config = IF left >= 4 THEN 52 ELSE 20
    /\ left \in {6, 4, 3, 1} => Empty
    /\ left = 5 => Waits(85)
    /\ left = 2 => Waits(20)
    /\ left = 1 => status = 20

\* n replies wait, and the a-th are ACKs, for the a in A.
Holds(n, A) == /\ Len(obuf) = n
               /\ \A i \in 1..n : (obuf[i].b = ACK) <=> (i \in A)

WaitingOne ==
    /\ left \in {13, 11, 9, 7, 3, 2, 0} => Empty
    /\ left \in {12, 1} => Holds(1, {1})
    /\ left \in {10, 4} => Holds(1, {})
    /\ left = 8 => IF Head(todo).op = "reset" THEN Holds(2, {1})
                   ELSE Holds(1, {})
    /\ left = 6 => Holds(3, {1})
    /\ left = 5 => Holds(2, {})

OnePort ==
    /\ On(One) /\ ~fitted.dual /\ ~is_dual_device /\ ~streaming
    /\ routines = IF left >= 3 THEN {} ELSE {IRQ_KEYBOARD}
    /\ config = IF left >= 15 THEN 20 ELSE IF left = 14 THEN 85 ELSE 69
    /\ left \in {19, 17, 15, 14} => Empty
    /\ left = 18 => Waits(85)
    /\ left = 16 => Waits(20)
    /\ left = 15 => status = 20
    /\ left <= 1 => scanning
    /\ keys = 0 /\ reports = 0 => WaitingOne

WaitingTwo ==
    /\ left \in {60, 58, 56, 54, 52, 50, 44, 41, 40, 2, 0} => Empty
    /\ left \in {59, 57, 36, 34, 32, 30, 28, 26, 20, 18, 16, 14, 12, 10, 1}
       => Holds(1, {1})
    /\ left \in {55, 53, 48, 45, 42, 38, 23, 22, 7, 6, 5, 4} => Holds(1, {})
    /\ left = 51 => IF Head(todo).op = "reset" THEN Holds(2, {1})
                    ELSE Holds(1, {})
    /\ left = 49 => IF Head(todo).op = "reset" THEN Holds(3, {1})
                    ELSE Holds(2, {})
    /\ left = 47 => Holds(4, {2}) \/ Holds(3, {1})
    /\ left = 46 => Holds(2, {})
    /\ left \in {43, 39, 24, 8} => Holds(2, {1})
    /\ left \in {37, 21} => Holds(2, {2})
    /\ left \in {35, 33, 31, 29, 27, 19, 17, 15, 13, 11} => Holds(2, {1, 2})
    /\ left \in {25, 9} => Holds(3, {1, 2})
    /\ left = 3 => Holds(2, {2}) \/ Holds(1, {1})

\* On a second port without a mouse: the loop at kb.c:544 waits for an ACK that
\* nothing sends, whatever the user types.
NoAck == \A i \in 1..Len(obuf) : obuf[i].b # ACK
OneAck(a) == /\ a \in 1..Len(obuf)
             /\ \A i \in 1..Len(obuf) : (obuf[i].b = ACK) <=> (i = a)
Unanswered ==
    /\ left >= 43
    /\ left \in {61, 60, 50, 49, 48, 46, 45, 44, 43} => NoAck
    /\ left \in 52..59 => ~scanning
    /\ left = 59 => OneAck(Len(obuf))
    /\ left \in {58, 57, 56, 54, 52} => Empty
    /\ left \in {55, 53} => Waits(0)
    /\ left = 51 => /\ obuf # <<>>
                    /\ IF Head(todo).op = "reset" THEN OneAck(1) /\ Len(obuf) >= 2
                       ELSE NoAck
    /\ left = 49 => Head(todo).op = "reset"
    /\ left \in {50, 49, 48, 45, 44, 43} => latch # ACK
    /\ left = 47 => \E a \in 1..Len(obuf) - 1 : OneAck(a)
    /\ left = 46 => obuf # <<>>

TwoPorts ==
    /\ On(Two) /\ fitted.dual /\ is_dual_device
    /\ routines = IF left >= 6 THEN {}
                  ELSE IF left = 5 THEN {IRQ_KEYBOARD}
                  ELSE {IRQ_KEYBOARD, IRQ_MOUSE_PS2}
    /\ left = 66 => config = 20
    /\ left \in {65, 64, 63} => config = 52
    /\ left = 62 => config = 119
    /\ left = 61 => config = 103
    /\ left <= 60 => config = 71
    /\ left \in {66, 65, 63, 62} => Empty
    /\ left = 64 => Waits(52)
    /\ left = 63 => status = 52
    /\ left = 61 /\ keys = 0 => Empty
    /\ left <= 3 => scanning
    /\ streaming <=> (left <= 1)
    /\ IF fitted.mouse = "none" THEN Unanswered
       ELSE (keys = 0 /\ reports = 0) => WaitingTwo

PortsInv == late = 0 => Probing \/ Deciding \/ OnePort \/ TwoPorts

\* A stretch of n instructions.
Code(s, n) == s \in Seq(Instr) /\ Len(s) = n

\* u is s and t, one behind the other.
Joins(u, s, m, t, n) == /\ Code(u, m + n)
                        /\ \A i \in 1..m : u[i] = s[i]
                        /\ \A i \in m + 1..m + n : u[i] = t[i - m]

\* Code behind code.
LEMMA Joined ==
    ASSUME NEW m \in Nat, NEW n \in Nat, NEW s, NEW t, Code(s, m), Code(t, n)
    PROVE  Joins(s \o t, s, m, t, n)
<1>1. s \in Seq(Instr) /\ Len(s) = m /\ t \in Seq(Instr) /\ Len(t) = n
  BY DEF Code
<1>2. /\ s \o t \in Seq(Instr) /\ Len(s \o t) = Len(s) + Len(t)
      /\ \A i \in 1..Len(s) : (s \o t)[i] = s[i]
      /\ \A i \in Len(s) + 1..Len(s) + Len(t) : (s \o t)[i] = t[i - Len(s)]
  BY <1>1
<1>. QED BY <1>1, <1>2 DEF Joins, Code

\* The instructions by their names.
LEMMA Letters ==
    /\ \A c \in Int : /\ Cmd(c) = I("cmd", c) /\ Send(1, c) = I("kbd", c)
                      /\ Send(2, c) = I("mouse", c)
    /\ Read = I("read", 0) /\ Ack = I("ack", 0) /\ MouseRead = I("mread", 0)
BY DEF Cmd, Send, Read, Ack, MouseRead

\* The pieces ps2_install is made of, instruction by instruction.
LEMMA PieceTypes ==
    /\ \A c \in Int : <<Cmd(c)>> \in Seq(Instr) /\ <<I("install", c)>> \in Seq(Instr)
    /\ \A p \in {1, 2} : /\ Quiet(p) \in Seq(Instr) /\ Test(p) \in Seq(Instr)
                         /\ Reset(p) \in Seq(Instr) /\ Identify(p) \in Seq(Instr)
                         /\ Stream(p) \in Seq(Instr) /\ FinalConfig(p) \in Seq(Instr)
    /\ SelfTest \in Seq(Instr) /\ ConfirmDual \in Seq(Instr) /\ Probe \in Seq(Instr)
    /\ Wheel \in Seq(Instr)
<1>1. \A s \in Seq(Mute) : s \in Seq(Instr)
  BY DEF Mute
<1>2. \A p \in {1, 2} : Stream(p) \in Seq(Instr)
  BY <1>1, Pieces
<1>. QED BY <1>1, <1>2, Pieces

\* What is done to one port.
LEMMA PortPieces ==
    /\ Code(Quiet(1), 2) /\ Quiet(1)[1] = I("kbd", 245) /\ Quiet(1)[2] = I("ack", 0)
    /\ Code(Quiet(2), 2) /\ Quiet(2)[1] = I("mouse", 245) /\ Quiet(2)[2] = I("ack", 0)
    /\ Code(Test(1), 2) /\ Test(1)[1] = I("cmd", 171) /\ Test(1)[2] = I("read", 0)
    /\ Code(Test(2), 2) /\ Test(2)[1] = I("cmd", 169) /\ Test(2)[2] = I("read", 0)
    /\ Code(Reset(1), 2) /\ Reset(1)[1] = I("kbd", 255) /\ Reset(1)[2] = I("reset", 0)
    /\ Code(Reset(2), 2) /\ Reset(2)[1] = I("mouse", 255)
    /\ Reset(2)[2] = I("reset", 0)
    /\ Code(Identify(1), 4) /\ Identify(1)[1] = I("kbd", 242)
    /\ Identify(1)[2] = I("ack", 0) /\ Identify(1)[3] = I("read", 0)
    /\ Identify(1)[4] = I("read", 0)
    /\ Code(Identify(2), 4) /\ Identify(2)[1] = I("mouse", 242)
    /\ Identify(2)[2] = I("ack", 0) /\ Identify(2)[3] = I("read", 0)
    /\ Identify(2)[4] = I("read", 0)
    /\ Code(Stream(1), 2) /\ Stream(1)[1] = I("kbd", 244)
    /\ Stream(1)[2] = I("ack", 0)
    /\ Code(Stream(2), 2) /\ Stream(2)[1] = I("mouse", 244)
    /\ Stream(2)[2] = I("ack", 0)
<1>t. \A p \in {1, 2} : /\ Quiet(p) \in Seq(Instr) /\ Test(p) \in Seq(Instr)
                        /\ Reset(p) \in Seq(Instr) /\ Identify(p) \in Seq(Instr)
                        /\ Stream(p) \in Seq(Instr)
  BY PieceTypes
<1>c. /\ RESET = 255 /\ IDENTIFY = 242 /\ ENABLE_STREAMING = 244
      /\ DISABLE_STREAMING = 245
  BY Codes
<1>1. /\ Code(Quiet(1), 2) /\ Quiet(1)[1] = I("kbd", 245) /\ Quiet(1)[2] = I("ack", 0)
      /\ Code(Quiet(2), 2) /\ Quiet(2)[1] = I("mouse", 245) /\ Quiet(2)[2] = I("ack", 0)
  BY <1>c, <1>t, Letters DEF Code, Quiet
<1>2. /\ Code(Test(1), 2) /\ Test(1)[1] = I("cmd", 171) /\ Test(1)[2] = I("read", 0)
      /\ Code(Test(2), 2) /\ Test(2)[1] = I("cmd", 169) /\ Test(2)[2] = I("read", 0)
  BY <1>t, Letters DEF Code, Test
<1>3. /\ Code(Reset(1), 2) /\ Reset(1)[1] = I("kbd", 255) /\ Reset(1)[2] = I("reset", 0)
      /\ Code(Reset(2), 2) /\ Reset(2)[1] = I("mouse", 255)
      /\ Reset(2)[2] = I("reset", 0)
  BY <1>c, <1>t, Letters DEF Code, Reset
<1>4. /\ Code(Identify(1), 4) /\ Identify(1)[1] = I("kbd", 242)
      /\ Identify(1)[2] = I("ack", 0) /\ Identify(1)[3] = I("read", 0)
      /\ Identify(1)[4] = I("read", 0)
      /\ Code(Identify(2), 4) /\ Identify(2)[1] = I("mouse", 242)
      /\ Identify(2)[2] = I("ack", 0) /\ Identify(2)[3] = I("read", 0)
      /\ Identify(2)[4] = I("read", 0)
  BY <1>c, <1>t, Letters DEF Code, Identify
<1>5. /\ Code(Stream(1), 2) /\ Stream(1)[1] = I("kbd", 244)
      /\ Stream(1)[2] = I("ack", 0)
      /\ Code(Stream(2), 2) /\ Stream(2)[1] = I("mouse", 244)
      /\ Stream(2)[2] = I("ack", 0)
  BY <1>c, <1>t, Letters DEF Code, Stream
<1>. QED BY <1>1, <1>2, <1>3, <1>4, <1>5

\* Two pieces of the same kind, one for each port.
LEMMA Pairs ==
    /\ LET q == Quiet(1) \o Quiet(2)
       IN /\ Code(q, 4)
          /\ q[1] = I("kbd", 245) /\ q[2] = I("ack", 0)
          /\ q[3] = I("mouse", 245) /\ q[4] = I("ack", 0)
    /\ LET t == Test(1) \o Test(2)
       IN /\ Code(t, 4)
          /\ t[1] = I("cmd", 171) /\ t[2] = I("read", 0)
          /\ t[3] = I("cmd", 169) /\ t[4] = I("read", 0)
    /\ LET r == Reset(1) \o Reset(2)
       IN /\ Code(r, 4)
          /\ r[1] = I("kbd", 255) /\ r[2] = I("reset", 0)
          /\ r[3] = I("mouse", 255) /\ r[4] = I("reset", 0)
    /\ LET d == Identify(1) \o Identify(2)
       IN /\ Code(d, 8)
          /\ d[1] = I("kbd", 242) /\ d[2] = I("ack", 0) /\ d[3] = I("read", 0)
          /\ d[4] = I("read", 0) /\ d[5] = I("mouse", 242) /\ d[6] = I("ack", 0)
          /\ d[7] = I("read", 0) /\ d[8] = I("read", 0)
    /\ LET s == Stream(1) \o Stream(2)
       IN /\ Code(s, 4)
          /\ s[1] = I("kbd", 244) /\ s[2] = I("ack", 0)
          /\ s[3] = I("mouse", 244) /\ s[4] = I("ack", 0)
<1>1. /\ Code(Quiet(1), 2) /\ Quiet(1)[1] = I("kbd", 245) /\ Quiet(1)[2] = I("ack", 0)
      /\ Code(Quiet(2), 2) /\ Quiet(2)[1] = I("mouse", 245) /\ Quiet(2)[2] = I("ack", 0)
  BY PortPieces
<1>2. /\ Code(Test(1), 2) /\ Test(1)[1] = I("cmd", 171) /\ Test(1)[2] = I("read", 0)
      /\ Code(Test(2), 2) /\ Test(2)[1] = I("cmd", 169) /\ Test(2)[2] = I("read", 0)
  BY PortPieces
<1>3. /\ Code(Reset(1), 2) /\ Reset(1)[1] = I("kbd", 255) /\ Reset(1)[2] = I("reset", 0)
      /\ Code(Reset(2), 2) /\ Reset(2)[1] = I("mouse", 255)
      /\ Reset(2)[2] = I("reset", 0)
  BY PortPieces
<1>4. /\ Code(Identify(1), 4) /\ Identify(1)[1] = I("kbd", 242)
      /\ Identify(1)[2] = I("ack", 0) /\ Identify(1)[3] = I("read", 0)
      /\ Identify(1)[4] = I("read", 0)
      /\ Code(Identify(2), 4) /\ Identify(2)[1] = I("mouse", 242)
      /\ Identify(2)[2] = I("ack", 0) /\ Identify(2)[3] = I("read", 0)
      /\ Identify(2)[4] = I("read", 0)
  BY PortPieces
<1>5. /\ Code(Stream(1), 2) /\ Stream(1)[1] = I("kbd", 244)
      /\ Stream(1)[2] = I("ack", 0)
      /\ Code(Stream(2), 2) /\ Stream(2)[1] = I("mouse", 244)
      /\ Stream(2)[2] = I("ack", 0)
  BY PortPieces
<1>. HIDE DEF Quiet, Test, Reset, Identify, Stream
<1>j. ASSUME NEW a, NEW b, NEW u, Joins(u, a, 2, b, 2)
      PROVE  /\ Code(u, 4) /\ u[1] = a[1] /\ u[2] = a[2] /\ u[3] = b[1] /\ u[4] = b[2]
  BY <1>j DEF Joins
<1>k. ASSUME NEW a, NEW b, NEW u, Joins(u, a, 4, b, 4)
      PROVE  /\ Code(u, 8) /\ u[1] = a[1] /\ u[2] = a[2] /\ u[3] = a[3] /\ u[4] = a[4]
             /\ u[5] = b[1] /\ u[6] = b[2] /\ u[7] = b[3] /\ u[8] = b[4]
  BY <1>k DEF Joins
<1>6. LET q == Quiet(1) \o Quiet(2)
      IN  /\ Code(q, 4)
          /\ q[1] = I("kbd", 245) /\ q[2] = I("ack", 0)
          /\ q[3] = I("mouse", 245) /\ q[4] = I("ack", 0)
  <2>. DEFINE u == Quiet(1) \o Quiet(2)
  <2>1. Joins(u, Quiet(1), 2, Quiet(2), 2)
    BY <1>1, Joined
  <2>. HIDE DEF u
  <2>2. /\ Code(u, 4)
        /\ u[1] = I("kbd", 245) /\ u[2] = I("ack", 0)
        /\ u[3] = I("mouse", 245) /\ u[4] = I("ack", 0)
    BY <1>1, <1>j, <2>1
  <2>. QED BY <2>2 DEF u
<1>7. LET t == Test(1) \o Test(2)
      IN  /\ Code(t, 4)
          /\ t[1] = I("cmd", 171) /\ t[2] = I("read", 0)
          /\ t[3] = I("cmd", 169) /\ t[4] = I("read", 0)
  <2>. DEFINE u == Test(1) \o Test(2)
  <2>1. Joins(u, Test(1), 2, Test(2), 2)
    BY <1>2, Joined
  <2>. HIDE DEF u
  <2>2. /\ Code(u, 4)
        /\ u[1] = I("cmd", 171) /\ u[2] = I("read", 0)
        /\ u[3] = I("cmd", 169) /\ u[4] = I("read", 0)
    BY <1>2, <1>j, <2>1
  <2>. QED BY <2>2 DEF u
<1>8. LET r == Reset(1) \o Reset(2)
      IN  /\ Code(r, 4)
          /\ r[1] = I("kbd", 255) /\ r[2] = I("reset", 0)
          /\ r[3] = I("mouse", 255) /\ r[4] = I("reset", 0)
  <2>. DEFINE u == Reset(1) \o Reset(2)
  <2>1. Joins(u, Reset(1), 2, Reset(2), 2)
    BY <1>3, Joined
  <2>. HIDE DEF u
  <2>2. /\ Code(u, 4)
        /\ u[1] = I("kbd", 255) /\ u[2] = I("reset", 0)
        /\ u[3] = I("mouse", 255) /\ u[4] = I("reset", 0)
    BY <1>3, <1>j, <2>1
  <2>. QED BY <2>2 DEF u
<1>9. LET d == Identify(1) \o Identify(2)
      IN  /\ Code(d, 8)
          /\ d[1] = I("kbd", 242) /\ d[2] = I("ack", 0) /\ d[3] = I("read", 0)
          /\ d[4] = I("read", 0) /\ d[5] = I("mouse", 242) /\ d[6] = I("ack", 0)
          /\ d[7] = I("read", 0) /\ d[8] = I("read", 0)
  <2>. DEFINE u == Identify(1) \o Identify(2)
  <2>1. Joins(u, Identify(1), 4, Identify(2), 4)
    BY <1>4, Joined
  <2>. HIDE DEF u
  <2>2. /\ Code(u, 8)
        /\ u[1] = I("kbd", 242) /\ u[2] = I("ack", 0) /\ u[3] = I("read", 0)
        /\ u[4] = I("read", 0) /\ u[5] = I("mouse", 242) /\ u[6] = I("ack", 0)
        /\ u[7] = I("read", 0) /\ u[8] = I("read", 0)
    BY <1>4, <1>k, <2>1
  <2>. QED BY <2>2 DEF u
<1>10. LET s == Stream(1) \o Stream(2)
      IN  /\ Code(s, 4)
          /\ s[1] = I("kbd", 244) /\ s[2] = I("ack", 0)
          /\ s[3] = I("mouse", 244) /\ s[4] = I("ack", 0)
  <2>. DEFINE u == Stream(1) \o Stream(2)
  <2>1. Joins(u, Stream(1), 2, Stream(2), 2)
    BY <1>5, Joined
  <2>. HIDE DEF u
  <2>2. /\ Code(u, 4)
        /\ u[1] = I("kbd", 244) /\ u[2] = I("ack", 0)
        /\ u[3] = I("mouse", 244) /\ u[4] = I("ack", 0)
    BY <1>5, <1>j, <2>1
  <2>. QED BY <2>2 DEF u
<1>. QED BY <1>6, <1>7, <1>8, <1>9, <1>10

\* The three sample rates and what comes after them, and mouse_enable_scrollwheel's
\* two knocks.
LEMMA KnockIs ==
    ASSUME NEW r \in {100, 200}, NEW k \in {3, 4}
    PROVE  LET u == Knock(r, k)
           IN /\ Code(u, 16)
              /\ \A i \in {1, 5, 9} : u[i] = I("mouse", 243)
              /\ \A i \in {2, 4, 6, 8, 10, 12, 15} : u[i] = I("mread", 0)
              /\ u[3] = I("mouse", 200) /\ u[7] = I("mouse", r)
              /\ u[11] = I("mouse", 80) /\ u[13] = I("mouse", 242)
              /\ u[14] = I("ack", 0) /\ u[16] = I("wheel", k)
<1>1. \A x \in {80, 100, 200} :
         /\ Code(Rate(x), 4)
         /\ Rate(x)[1] = I("mouse", 243) /\ Rate(x)[2] = I("mread", 0)
         /\ Rate(x)[3] = I("mouse", x) /\ Rate(x)[4] = I("mread", 0)
  <2>. SUFFICES ASSUME NEW x \in {80, 100, 200}
                PROVE  /\ Code(Rate(x), 4)
                       /\ Rate(x)[1] = I("mouse", 243) /\ Rate(x)[2] = I("mread", 0)
                       /\ Rate(x)[3] = I("mouse", x) /\ Rate(x)[4] = I("mread", 0)
    OBVIOUS
  <2>1. Rate(x) = <<I("mouse", 243), I("mread", 0), I("mouse", x), I("mread", 0)>>
    BY Letters DEF Rate, SET_SAMPLE_RATE
  <2>2. I("mouse", 243) \in Instr /\ I("mread", 0) \in Instr /\ I("mouse", x) \in Instr
    BY DEF I, Instr, Names, Arguments
  <2>. QED BY <2>1, <2>2 DEF Code
<1>. DEFINE a == Rate(200)
            b == Rate(r)
            c == Rate(80)
            d == <<Send(2, IDENTIFY), Ack, MouseRead, I("wheel", k)>>
<1>2. /\ Code(d, 4) /\ d[1] = I("mouse", 242)
      /\ d[2] = I("ack", 0) /\ d[3] = I("mread", 0) /\ d[4] = I("wheel", k)
  <2>1. d = <<I("mouse", 242), I("ack", 0), I("mread", 0), I("wheel", k)>>
    BY Letters, Codes
  <2>2. /\ I("mouse", 242) \in Instr /\ I("mread", 0) \in Instr
        /\ I("ack", 0) \in Instr /\ I("wheel", k) \in Instr
    BY DEF I, Instr, Names, Arguments
  <2>. HIDE DEF d
  <2>. QED BY <2>1, <2>2 DEF Code
<1>3. /\ Code(a, 4) /\ a[1] = I("mouse", 243)
      /\ a[2] = I("mread", 0) /\ a[3] = I("mouse", 200) /\ a[4] = I("mread", 0)
      /\ Code(b, 4) /\ b[1] = I("mouse", 243)
      /\ b[2] = I("mread", 0) /\ b[3] = I("mouse", r) /\ b[4] = I("mread", 0)
      /\ Code(c, 4) /\ c[1] = I("mouse", 243)
      /\ c[2] = I("mread", 0) /\ c[3] = I("mouse", 80) /\ c[4] = I("mread", 0)
  BY <1>1
<1>4. Knock(r, k) = a \o b \o c \o d
  BY DEF Knock
<1>. HIDE DEF a, b, c, d
<1>. DEFINE v == a \o b
            w == v \o c
            u == w \o d
<1>5. Joins(v, a, 4, b, 4)
  BY <1>3, Joined
<1>. HIDE DEF v
<1>6. Joins(w, v, 8, c, 4)
  <2>1. Code(v, 8)
    BY <1>5 DEF Joins
  <2>. QED BY <1>3, <2>1, Joined
<1>. HIDE DEF w
<1>7. Joins(u, w, 12, d, 4)
  <2>1. Code(w, 12)
    BY <1>6 DEF Joins
  <2>. QED BY <1>2, <2>1, Joined
<1>8. Knock(r, k) = u
  BY <1>4 DEF v, w
<1>. HIDE DEF u
<1>9. /\ Code(u, 16)
      /\ \A i \in 1..4 : u[i] = a[i]
      /\ \A i \in 5..8 : u[i] = b[i - 4]
      /\ \A i \in 9..12 : u[i] = c[i - 8]
      /\ \A i \in 13..16 : u[i] = d[i - 12]
  BY <1>5, <1>6, <1>7 DEF Joins
<1>. QED BY <1>2, <1>3, <1>8, <1>9

\* The wheel is asked for twice, behind the mouse's first identity.
LEMMA WheelIs ==
    LET u == Wheel
    IN  /\ Code(u, 34) /\ u[1] = I("mouse", 242) /\ u[2] = I("mread", 0)
        /\ \A i \in 3..18 : u[i] = Knock(100, 3)[i - 2]
        /\ \A i \in 19..34 : u[i] = Knock(200, 4)[i - 18]
<1>. DEFINE a == <<Send(2, IDENTIFY), MouseRead>>
            b == Knock(100, 3)
            c == Knock(200, 4)
            v == a \o b
            u == v \o c
<1>1. Code(a, 2) /\ a[1] = I("mouse", 242) /\ a[2] = I("mread", 0)
  <2>1. a = <<I("mouse", 242), I("mread", 0)>>
    BY Letters, Codes
  <2>2. I("mouse", 242) \in Instr /\ I("mread", 0) \in Instr
    BY DEF I, Instr, Names, Arguments
  <2>. HIDE DEF a
  <2>. QED BY <2>1, <2>2 DEF Code
<1>2. Code(b, 16) /\ Code(c, 16)
  BY KnockIs
<1>3. Wheel = u
  BY DEF Wheel
<1>. HIDE DEF a, b, c
<1>4. Joins(v, a, 2, b, 16)
  BY <1>1, <1>2, Joined
<1>. HIDE DEF v
<1>5. Joins(u, v, 18, c, 16)
  <2>1. Code(v, 18)
    BY <1>4 DEF Joins
  <2>. QED BY <1>2, <2>1, Joined
<1>. HIDE DEF u
<1>6. /\ Code(u, 34) /\ u[1] = a[1] /\ u[2] = a[2]
      /\ \A i \in 3..18 : u[i] = b[i - 2]
      /\ \A i \in 19..34 : u[i] = c[i - 18]
  BY <1>4, <1>5 DEF Joins
<1>. QED BY <1>1, <1>3, <1>6 DEF b, c

\* The final configuration, for one port and for two.
LEMMA FinalIs ==
    /\ LET f == FinalConfig(1)
       IN /\ Code(f, 4) /\ f[1] = I("cmd", 32) /\ f[2] = I("read", 0)
          /\ f[3] = I("config", "final") /\ f[4] = I("cmd", 174)
    /\ LET f == FinalConfig(2)
       IN /\ Code(f, 5) /\ f[1] = I("cmd", 32) /\ f[2] = I("read", 0)
          /\ f[3] = I("config", "final") /\ f[4] = I("cmd", 174)
          /\ f[5] = I("cmd", 168)
<1>. DEFINE a == ConfigRead
            b == <<I("config", "final"), Cmd(\hAE)>>
            e == <<>>
            c == <<Cmd(\hA8)>>
            v == a \o b
<1>1. /\ Code(a, 2) /\ a[1] = I("cmd", 32) /\ a[2] = I("read", 0)
      /\ Code(b, 2) /\ b[1] = I("config", "final") /\ b[2] = I("cmd", 174)
      /\ Code(c, 1) /\ c[1] = I("cmd", 168) /\ Code(e, 0)
  <2>1. /\ a = <<I("cmd", 32), I("read", 0)>>
        /\ b = <<I("config", "final"), I("cmd", 174)>> /\ c = <<I("cmd", 168)>>
    BY Letters, Codes DEF ConfigRead
  <2>2. /\ I("cmd", 32) \in Instr /\ I("read", 0) \in Instr
        /\ I("config", "final") \in Instr /\ I("cmd", 174) \in Instr
        /\ I("cmd", 168) \in Instr
    BY DEF I, Instr, Names, Arguments
  <2>3. e = <<>>
    OBVIOUS
  <2>. HIDE DEF a, b, c, e
  <2>. QED BY <2>1, <2>2, <2>3 DEF Code
<1>2. FinalConfig(1) = v \o e /\ FinalConfig(2) = v \o c
  BY DEF FinalConfig
<1>. HIDE DEF a, b, c, e
<1>3. Joins(v, a, 2, b, 2)
  BY <1>1, Joined
<1>. HIDE DEF v
<1>4. Code(v, 4)
  BY <1>3 DEF Joins
<1>. DEFINE f == v \o e
            g == v \o c
<1>5. Joins(f, v, 4, e, 0) /\ Joins(g, v, 4, c, 1)
  BY <1>1, <1>4, Joined
<1>. HIDE DEF f, g
<1>6. /\ Code(f, 4) /\ f[1] = a[1] /\ f[2] = a[2] /\ f[3] = b[1] /\ f[4] = b[2]
      /\ Code(g, 5) /\ g[1] = a[1] /\ g[2] = a[2] /\ g[3] = b[1] /\ g[4] = b[2]
      /\ g[5] = c[1]
  BY <1>3, <1>5 DEF Joins
<1>7. FinalConfig(1) = f /\ FinalConfig(2) = g
  BY <1>2 DEF f, g
<1>. QED BY <1>1, <1>6, <1>7

\* The 66 instructions on two ports.
LEMMA TwoIs ==
    /\ Code(Two, 66)
    /\ Line(Two, 66) = I("cmd", 167)
    /\ Line(Two, 65) = I("cmd", 32)
    /\ \A n \in {64, 55, 53, 46, 45, 42, 41} : Line(Two, n) = I("read", 0)
    /\ Line(Two, 63) = I("config", "final")
    /\ Line(Two, 62) = I("cmd", 174)
    /\ Line(Two, 61) = I("cmd", 168)
    /\ Line(Two, 60) = I("kbd", 245)
    /\ \A n \in {59, 57, 47, 43, 25, 9, 3, 1} : Line(Two, n) = I("ack", 0)
    /\ Line(Two, 58) = I("mouse", 245)
    /\ Line(Two, 56) = I("cmd", 171)
    /\ Line(Two, 54) = I("cmd", 169)
    /\ Line(Two, 52) = I("kbd", 255)
    /\ \A n \in {51, 49} : Line(Two, n) = I("reset", 0)
    /\ Line(Two, 50) = I("mouse", 255)
    /\ Line(Two, 48) = I("kbd", 242)
    /\ \A n \in {44, 40, 26, 10} : Line(Two, n) = I("mouse", 242)
    /\ \A n \in {39, 37, 35, 33, 31, 29, 27, 24, 21, 19, 17, 15, 13, 11,
                8} : Line(Two, n) = I("mread", 0)
    /\ \A n \in {38, 34, 30, 22, 18, 14} : Line(Two, n) = I("mouse", 243)
    /\ \A n \in {36, 20, 16} : Line(Two, n) = I("mouse", 200)
    /\ Line(Two, 32) = I("mouse", 100)
    /\ \A n \in {28, 12} : Line(Two, n) = I("mouse", 80)
    /\ Line(Two, 23) = I("wheel", 3)
    /\ Line(Two, 7) = I("wheel", 4)
    /\ Line(Two, 6) = I("install", 1)
    /\ Line(Two, 5) = I("install", 12)
    /\ Line(Two, 4) = I("kbd", 244)
    /\ Line(Two, 2) = I("mouse", 244)
<1>. DEFINE h == <<Cmd(\hA7)>>
            f == FinalConfig(2)
            q == Quiet(1) \o Quiet(2)
            t == Test(1) \o Test(2)
            r == Reset(1) \o Reset(2)
            d == Identify(1) \o Identify(2)
            w == Wheel
            k == <<I("install", 1)>>
            l == <<I("install", 12)>>
            s == Stream(1) \o Stream(2)
            c1 == f \o q
            c2 == c1 \o t
            c3 == c2 \o r
            c4 == c3 \o d
            c5 == c4 \o w
            c6 == c5 \o k
            c7 == c6 \o l
            c8 == c7 \o s
            c == h \o c8
<1>1. /\ Code(h, 1) /\ h[1] = I("cmd", 167) /\ Code(k, 1) /\ k[1] = I("install", 1)
      /\ Code(l, 1) /\ l[1] = I("install", 12)
  <2>1. h \in Seq(Instr) /\ k \in Seq(Instr) /\ l \in Seq(Instr)
    BY SMTT(20), PieceTypes
  <2>2. h = <<I("cmd", 167)>>
    BY Letters
  <2>. QED BY <2>1, <2>2 DEF Code
<1>2. Two = c
  BY DEF Two, Rest, Ports, IRQ_KEYBOARD, IRQ_MOUSE_PS2
<1>3. /\ Code(f, 5) /\ Code(q, 4) /\ Code(t, 4) /\ Code(r, 4) /\ Code(d, 8)
      /\ Code(w, 34) /\ Code(s, 4)
  BY Pairs, WheelIs, FinalIs
<1>4. /\ f[1] = I("cmd", 32) /\ f[2] = I("read", 0) /\ f[3] = I("config", "final")
      /\ f[4] = I("cmd", 174) /\ f[5] = I("cmd", 168)
  BY FinalIs
<1>5. /\ q[1] = I("kbd", 245) /\ q[2] = I("ack", 0) /\ q[3] = I("mouse", 245)
      /\ q[4] = I("ack", 0)
      /\ t[1] = I("cmd", 171) /\ t[2] = I("read", 0) /\ t[3] = I("cmd", 169)
      /\ t[4] = I("read", 0)
      /\ r[1] = I("kbd", 255) /\ r[2] = I("reset", 0) /\ r[3] = I("mouse", 255)
      /\ r[4] = I("reset", 0)
  BY Pairs
<1>6. /\ d[1] = I("kbd", 242) /\ d[2] = I("ack", 0) /\ d[3] = I("read", 0)
      /\ d[4] = I("read", 0) /\ d[5] = I("mouse", 242) /\ d[6] = I("ack", 0)
      /\ d[7] = I("read", 0) /\ d[8] = I("read", 0)
      /\ s[1] = I("kbd", 244) /\ s[2] = I("ack", 0) /\ s[3] = I("mouse", 244)
      /\ s[4] = I("ack", 0)
  BY Pairs
<1>7. /\ w[1] = I("mouse", 242) /\ w[2] = I("mread", 0)
      /\ \A i \in {3, 7, 11, 19, 23, 27} : w[i] = I("mouse", 243)
      /\ \A i \in {4, 6, 8, 10, 12, 14, 17, 20, 22, 24, 26, 28, 30, 33} :
            w[i] = I("mread", 0)
      /\ \A i \in {5, 21, 25} : w[i] = I("mouse", 200)
      /\ \A i \in {13, 29} : w[i] = I("mouse", 80)
      /\ \A i \in {15, 31} : w[i] = I("mouse", 242)
      /\ \A i \in {16, 32} : w[i] = I("ack", 0)
      /\ w[9] = I("mouse", 100) /\ w[18] = I("wheel", 3) /\ w[34] = I("wheel", 4)
  <2>. DEFINE u == Knock(100, 3)
              v == Knock(200, 4)
  <2>1. /\ \A i \in {1, 5, 9} : u[i] = I("mouse", 243)
        /\ \A i \in {2, 4, 6, 8, 10, 12, 15} : u[i] = I("mread", 0)
        /\ u[3] = I("mouse", 200) /\ u[7] = I("mouse", 100)
        /\ u[11] = I("mouse", 80) /\ u[13] = I("mouse", 242)
        /\ u[14] = I("ack", 0) /\ u[16] = I("wheel", 3)
    BY KnockIs
  <2>2. /\ \A i \in {1, 5, 9} : v[i] = I("mouse", 243)
        /\ \A i \in {2, 4, 6, 8, 10, 12, 15} : v[i] = I("mread", 0)
        /\ v[3] = I("mouse", 200) /\ v[7] = I("mouse", 200)
        /\ v[11] = I("mouse", 80) /\ v[13] = I("mouse", 242)
        /\ v[14] = I("ack", 0) /\ v[16] = I("wheel", 4)
    BY KnockIs
  <2>3. /\ w[1] = I("mouse", 242) /\ w[2] = I("mread", 0)
        /\ \A i \in 3..18 : w[i] = u[i - 2]
        /\ \A i \in 19..34 : w[i] = v[i - 18]
    BY WheelIs
  <2>. HIDE DEF u, v, w
  <2>. QED BY <2>1, <2>2, <2>3
<1>. HIDE DEF h, f, q, t, r, d, w, k, l, s
<1>8. Joins(c1, f, 5, q, 4)
  BY <1>3, Joined
<1>. HIDE DEF c1
<1>9. Joins(c2, c1, 9, t, 4)
  <2>1. Code(c1, 9)
    BY <1>8 DEF Joins
  <2>. QED BY <1>1, <1>3, <2>1, Joined
<1>. HIDE DEF c2
<1>10. Joins(c3, c2, 13, r, 4)
  <2>1. Code(c2, 13)
    BY <1>9 DEF Joins
  <2>. QED BY <1>1, <1>3, <2>1, Joined
<1>. HIDE DEF c3
<1>11. Joins(c4, c3, 17, d, 8)
  <2>1. Code(c3, 17)
    BY <1>10 DEF Joins
  <2>. QED BY <1>1, <1>3, <2>1, Joined
<1>. HIDE DEF c4
<1>12. Joins(c5, c4, 25, w, 34)
  <2>1. Code(c4, 25)
    BY <1>11 DEF Joins
  <2>. QED BY <1>1, <1>3, <2>1, Joined
<1>. HIDE DEF c5
<1>13. Joins(c6, c5, 59, k, 1)
  <2>1. Code(c5, 59)
    BY <1>12 DEF Joins
  <2>. QED BY <1>1, <1>3, <2>1, Joined
<1>. HIDE DEF c6
<1>14. Joins(c7, c6, 60, l, 1)
  <2>1. Code(c6, 60)
    BY <1>13 DEF Joins
  <2>. QED BY <1>1, <1>3, <2>1, Joined
<1>. HIDE DEF c7
<1>15. Joins(c8, c7, 61, s, 4)
  <2>1. Code(c7, 61)
    BY <1>14 DEF Joins
  <2>. QED BY <1>1, <1>3, <2>1, Joined
<1>. HIDE DEF c8
<1>16. Joins(c, h, 1, c8, 65)
  <2>1. Code(c8, 65)
    BY <1>15 DEF Joins
  <2>. QED BY <1>1, <2>1, Joined
<1>. HIDE DEF c
<1>17. /\ Code(c, 66) /\ c[1] = h[1]
       /\ \A i \in 2..6 : c[i] = f[i - 1]
       /\ \A i \in 7..10 : c[i] = q[i - 6]
       /\ \A i \in 11..14 : c[i] = t[i - 10]
       /\ \A i \in 15..18 : c[i] = r[i - 14]
       /\ \A i \in 19..26 : c[i] = d[i - 18]
       /\ \A i \in 27..60 : c[i] = w[i - 26]
       /\ c[61] = k[1]
       /\ c[62] = l[1]
       /\ \A i \in 63..66 : c[i] = s[i - 62]
  BY <1>8, <1>9, <1>10, <1>11, <1>12, <1>13, <1>14, <1>15, <1>16 DEF Joins
<1>18. \A n \in 1..66 : Line(Two, n) = c[67 - n]
  BY <1>2, <1>17 DEF Line, Code
<1>19. Code(Two, 66)
  BY <1>2, <1>17
<1>. HIDE DEF Two
<1>20. /\ Line(Two, 66) = I("cmd", 167)
       /\ Line(Two, 65) = I("cmd", 32)
       /\ Line(Two, 64) = I("read", 0)
       /\ Line(Two, 63) = I("config", "final")
       /\ Line(Two, 62) = I("cmd", 174)
       /\ Line(Two, 61) = I("cmd", 168)
  BY <1>17, <1>18, <1>1, <1>4
<1>21. /\ Line(Two, 60) = I("kbd", 245)
       /\ \A n \in {59, 57} : Line(Two, n) = I("ack", 0)
       /\ Line(Two, 58) = I("mouse", 245)
       /\ Line(Two, 56) = I("cmd", 171)
       /\ \A n \in {55, 53} : Line(Two, n) = I("read", 0)
       /\ Line(Two, 54) = I("cmd", 169)
       /\ Line(Two, 52) = I("kbd", 255)
       /\ \A n \in {51, 49} : Line(Two, n) = I("reset", 0)
       /\ Line(Two, 50) = I("mouse", 255)
  BY <1>17, <1>18, <1>5
<1>22. /\ Line(Two, 48) = I("kbd", 242)
       /\ \A n \in {47, 43} : Line(Two, n) = I("ack", 0)
       /\ \A n \in {46, 45, 42, 41} : Line(Two, n) = I("read", 0)
       /\ Line(Two, 44) = I("mouse", 242)
  BY <1>17, <1>18, <1>6
<1>23. /\ \A n \in {40, 26} : Line(Two, n) = I("mouse", 242)
       /\ \A n \in {39, 37, 35, 33, 31, 29, 27, 24} : Line(Two, n) = I("mread", 0)
       /\ \A n \in {38, 34, 30} : Line(Two, n) = I("mouse", 243)
       /\ Line(Two, 36) = I("mouse", 200)
       /\ Line(Two, 32) = I("mouse", 100)
       /\ Line(Two, 28) = I("mouse", 80)
       /\ Line(Two, 25) = I("ack", 0)
       /\ Line(Two, 23) = I("wheel", 3)
  BY <1>17, <1>18, <1>7
<1>24. /\ \A n \in {22, 18, 14} : Line(Two, n) = I("mouse", 243)
       /\ \A n \in {21, 19, 17, 15, 13, 11, 8} : Line(Two, n) = I("mread", 0)
       /\ \A n \in {20, 16} : Line(Two, n) = I("mouse", 200)
       /\ Line(Two, 12) = I("mouse", 80)
       /\ Line(Two, 10) = I("mouse", 242)
       /\ Line(Two, 9) = I("ack", 0)
       /\ Line(Two, 7) = I("wheel", 4)
  BY <1>17, <1>18, <1>7
<1>25. /\ Line(Two, 6) = I("install", 1)
       /\ Line(Two, 5) = I("install", 12)
       /\ Line(Two, 4) = I("kbd", 244)
       /\ \A n \in {3, 1} : Line(Two, n) = I("ack", 0)
       /\ Line(Two, 2) = I("mouse", 244)
  BY <1>17, <1>18, <1>1, <1>6
<1>. QED BY <1>19, <1>20, <1>21, <1>22, <1>23, <1>24, <1>25

\* The 19 instructions on one port.
LEMMA OneIs ==
    /\ Code(One, 19)
    /\ Line(One, 19) = I("cmd", 170)
    /\ \A n \in {18, 16, 10, 5, 4} : Line(One, n) = I("read", 0)
    /\ Line(One, 17) = I("cmd", 32)
    /\ Line(One, 15) = I("config", "final")
    /\ Line(One, 14) = I("cmd", 174)
    /\ Line(One, 13) = I("kbd", 245)
    /\ \A n \in {12, 6, 1} : Line(One, n) = I("ack", 0)
    /\ Line(One, 11) = I("cmd", 171)
    /\ Line(One, 9) = I("kbd", 255)
    /\ Line(One, 8) = I("reset", 0)
    /\ Line(One, 7) = I("kbd", 242)
    /\ Line(One, 3) = I("install", 1)
    /\ Line(One, 2) = I("kbd", 244)
<1>. DEFINE h == SelfTest
            f == FinalConfig(1)
            q == Quiet(1)
            t == Test(1)
            r == Reset(1)
            d == Identify(1)
            e == <<>>
            k == <<I("install", 1)>>
            s == Stream(1)
            c1 == f \o q
            c2 == c1 \o t
            c3 == c2 \o r
            c4 == c3 \o d
            c5 == c4 \o e
            c6 == c5 \o k
            c7 == c6 \o e
            c8 == c7 \o s
            c == h \o c8
<1>1. /\ Code(h, 2) /\ h[1] = I("cmd", 170) /\ h[2] = I("read", 0)
      /\ Code(k, 1) /\ k[1] = I("install", 1) /\ Code(e, 0)
  <2>1. h \in Seq(Instr) /\ k \in Seq(Instr)
    BY PieceTypes
  <2>2. h = <<I("cmd", 170), I("read", 0)>> /\ e = <<>>
    BY Letters DEF SelfTest
  <2>. QED BY <2>1, <2>2 DEF Code
<1>2. One = c
  <2>1. Rest(1) = c8
    BY DEF Rest, Ports, IRQ_KEYBOARD
  <2>. HIDE DEF c8
  <2>. QED BY <2>1 DEF One
<1>3. /\ Code(f, 4) /\ Code(q, 2) /\ Code(t, 2) /\ Code(r, 2) /\ Code(d, 4)
      /\ Code(s, 2)
  BY PortPieces, FinalIs
<1>4. /\ f[1] = I("cmd", 32) /\ f[2] = I("read", 0) /\ f[3] = I("config", "final")
      /\ f[4] = I("cmd", 174)
  BY FinalIs
<1>5. /\ q[1] = I("kbd", 245) /\ q[2] = I("ack", 0)
      /\ t[1] = I("cmd", 171) /\ t[2] = I("read", 0)
      /\ r[1] = I("kbd", 255) /\ r[2] = I("reset", 0)
      /\ d[1] = I("kbd", 242) /\ d[2] = I("ack", 0) /\ d[3] = I("read", 0)
      /\ d[4] = I("read", 0) /\ s[1] = I("kbd", 244) /\ s[2] = I("ack", 0)
  BY PortPieces
<1>. HIDE DEF h, f, q, t, r, d, e, k, s
<1>6. Joins(c1, f, 4, q, 2)
  BY <1>3, Joined
<1>. HIDE DEF c1
<1>7. Joins(c2, c1, 6, t, 2)
  <2>1. Code(c1, 6)
    BY <1>6 DEF Joins
  <2>. QED BY <1>1, <1>3, <2>1, Joined
<1>. HIDE DEF c2
<1>8. Joins(c3, c2, 8, r, 2)
  <2>1. Code(c2, 8)
    BY <1>7 DEF Joins
  <2>. QED BY <1>1, <1>3, <2>1, Joined
<1>. HIDE DEF c3
<1>9. Joins(c4, c3, 10, d, 4)
  <2>1. Code(c3, 10)
    BY <1>8 DEF Joins
  <2>. QED BY <1>1, <1>3, <2>1, Joined
<1>. HIDE DEF c4
<1>10. Joins(c5, c4, 14, e, 0)
  <2>1. Code(c4, 14)
    BY <1>9 DEF Joins
  <2>. QED BY <1>1, <1>3, <2>1, Joined
<1>. HIDE DEF c5
<1>11. Joins(c6, c5, 14, k, 1)
  <2>1. Code(c5, 14)
    BY <1>10 DEF Joins
  <2>. QED BY <1>1, <1>3, <2>1, Joined
<1>. HIDE DEF c6
<1>12. Joins(c7, c6, 15, e, 0)
  <2>1. Code(c6, 15)
    BY <1>11 DEF Joins
  <2>. QED BY <1>1, <1>3, <2>1, Joined
<1>. HIDE DEF c7
<1>13. Joins(c8, c7, 15, s, 2)
  <2>1. Code(c7, 15)
    BY <1>12 DEF Joins
  <2>. QED BY <1>1, <1>3, <2>1, Joined
<1>. HIDE DEF c8
<1>14. Joins(c, h, 2, c8, 17)
  <2>1. Code(c8, 17)
    BY <1>13 DEF Joins
  <2>. QED BY <1>1, <2>1, Joined
<1>. HIDE DEF c
<1>15. /\ Code(c, 19) /\ c[1] = h[1] /\ c[2] = h[2]
       /\ \A i \in 3..6 : c[i] = f[i - 2]
       /\ \A i \in 7..8 : c[i] = q[i - 6]
       /\ \A i \in 9..10 : c[i] = t[i - 8]
       /\ \A i \in 11..12 : c[i] = r[i - 10]
       /\ \A i \in 13..16 : c[i] = d[i - 12]
       /\ c[17] = k[1]
       /\ \A i \in 18..19 : c[i] = s[i - 17]
  BY <1>6, <1>7, <1>8, <1>9, <1>10, <1>11, <1>12, <1>13, <1>14 DEF Joins
<1>16. \A n \in 1..19 : Line(One, n) = c[20 - n]
  BY <1>2, <1>15 DEF Line, Code
<1>17. Code(One, 19)
  BY <1>2, <1>15
<1>. HIDE DEF One
<1>18. /\ Line(One, 19) = I("cmd", 170)
       /\ \A n \in {18, 16, 10, 5, 4} : Line(One, n) = I("read", 0)
       /\ Line(One, 17) = I("cmd", 32)
       /\ Line(One, 15) = I("config", "final")
       /\ Line(One, 14) = I("cmd", 174)
       /\ Line(One, 13) = I("kbd", 245)
       /\ \A n \in {12, 6, 1} : Line(One, n) = I("ack", 0)
       /\ Line(One, 11) = I("cmd", 171)
       /\ Line(One, 9) = I("kbd", 255)
       /\ Line(One, 8) = I("reset", 0)
       /\ Line(One, 7) = I("kbd", 242)
       /\ Line(One, 3) = I("install", 1)
       /\ Line(One, 2) = I("kbd", 244)
  BY <1>15, <1>16, <1>1, <1>4, <1>5
<1>. QED BY <1>17, <1>18

\* The 9 instructions before the first decision.
LEMMA ProbeIs ==
    /\ Code(Probe, 9)
    /\ Line(Probe, 9) = I("cmd", 173)
    /\ Line(Probe, 8) = I("cmd", 167)
    /\ Line(Probe, 7) = I("drain", 3)
    /\ \A n \in {6, 3} : Line(Probe, n) = I("cmd", 32)
    /\ \A n \in {5, 2} : Line(Probe, n) = I("read", 0)
    /\ Line(Probe, 4) = I("config", "quiet")
    /\ Line(Probe, 1) = I("guess", 0)
<1>. DEFINE a == <<Cmd(\hAD), Cmd(\hA7), I("drain", 3)>>
            b == ConfigRead
            x == <<I("config", "quiet")>>
            g == <<I("guess", 0)>>
            c1 == a \o b
            c2 == c1 \o x
            c3 == c2 \o b
            c == c3 \o g
<1>1. /\ Code(a, 3) /\ a[1] = I("cmd", 173) /\ a[2] = I("cmd", 167)
      /\ a[3] = I("drain", 3)
      /\ Code(b, 2) /\ b[1] = I("cmd", 32) /\ b[2] = I("read", 0)
      /\ Code(x, 1) /\ x[1] = I("config", "quiet")
      /\ Code(g, 1) /\ g[1] = I("guess", 0)
  <2>1. /\ a = <<I("cmd", 173), I("cmd", 167), I("drain", 3)>>
        /\ b = <<I("cmd", 32), I("read", 0)>>
    BY Letters, Codes DEF ConfigRead
  <2>2. /\ I("cmd", 173) \in Instr /\ I("cmd", 167) \in Instr
        /\ I("drain", 3) \in Instr /\ I("cmd", 32) \in Instr
        /\ I("read", 0) \in Instr /\ I("config", "quiet") \in Instr
        /\ I("guess", 0) \in Instr
    BY DEF I, Instr, Names, Arguments
  <2>3. x = <<I("config", "quiet")>> /\ g = <<I("guess", 0)>>
    OBVIOUS
  <2>. HIDE DEF a, b, x, g
  <2>. QED BY <2>1, <2>2, <2>3 DEF Code
<1>2. Probe = c
  BY DEF Probe
<1>. HIDE DEF a, b, x, g
<1>3. Joins(c1, a, 3, b, 2)
  BY <1>1, Joined
<1>. HIDE DEF c1
<1>4. Joins(c2, c1, 5, x, 1)
  <2>1. Code(c1, 5)
    BY <1>3 DEF Joins
  <2>. QED BY <1>1, <2>1, Joined
<1>. HIDE DEF c2
<1>5. Joins(c3, c2, 6, b, 2)
  <2>1. Code(c2, 6)
    BY <1>4 DEF Joins
  <2>. QED BY <1>1, <2>1, Joined
<1>. HIDE DEF c3
<1>6. Joins(c, c3, 8, g, 1)
  <2>1. Code(c3, 8)
    BY <1>5 DEF Joins
  <2>. QED BY <1>1, <2>1, Joined
<1>. HIDE DEF c
<1>7. /\ Code(c, 9) /\ c[1] = a[1] /\ c[2] = a[2] /\ c[3] = a[3]
      /\ c[4] = b[1] /\ c[5] = b[2] /\ c[6] = x[1] /\ c[7] = b[1] /\ c[8] = b[2]
      /\ c[9] = g[1]
  BY <1>3, <1>4, <1>5, <1>6 DEF Joins
<1>8. \A n \in 1..9 : Line(Probe, n) = c[10 - n]
  BY <1>2, <1>7 DEF Line, Code
<1>9. Code(Probe, 9)
  BY <1>2, <1>7
<1>. HIDE DEF Probe
<1>. QED BY <1>1, <1>7, <1>8, <1>9

\* The 6 instructions between the two decisions.
LEMMA ConfirmingIs ==
    /\ Code(Confirming, 6)
    /\ Line(Confirming, 6) = I("cmd", 170)
    /\ \A n \in {5, 2} : Line(Confirming, n) = I("read", 0)
    /\ Line(Confirming, 4) = I("cmd", 168)
    /\ Line(Confirming, 3) = I("cmd", 32)
    /\ Line(Confirming, 1) = I("confirm", 0)
<1>. DEFINE h == SelfTest
            a == <<Cmd(\hA8)>>
            b == ConfigRead
            g == <<I("confirm", 0)>>
            c1 == a \o b
            c2 == c1 \o g
            c == h \o c2
<1>1. /\ Code(h, 2) /\ h[1] = I("cmd", 170) /\ h[2] = I("read", 0)
      /\ Code(a, 1) /\ a[1] = I("cmd", 168)
      /\ Code(b, 2) /\ b[1] = I("cmd", 32) /\ b[2] = I("read", 0)
      /\ Code(g, 1) /\ g[1] = I("confirm", 0)
  <2>1. /\ h = <<I("cmd", 170), I("read", 0)>> /\ a = <<I("cmd", 168)>>
        /\ b = <<I("cmd", 32), I("read", 0)>>
    BY Letters, Codes DEF ConfigRead, SelfTest
  <2>2. /\ I("cmd", 170) \in Instr /\ I("cmd", 168) \in Instr
        /\ I("cmd", 32) \in Instr
        /\ I("read", 0) \in Instr /\ I("confirm", 0) \in Instr
    BY DEF I, Instr, Names, Arguments
  <2>3. g = <<I("confirm", 0)>>
    OBVIOUS
  <2>. HIDE DEF h, a, b, g
  <2>. QED BY <2>1, <2>2, <2>3 DEF Code
<1>2. Confirming = c
  BY DEF Confirming, ConfirmDual
<1>. HIDE DEF h, a, b, g
<1>3. Joins(c1, a, 1, b, 2)
  BY <1>1, Joined
<1>. HIDE DEF c1
<1>4. Joins(c2, c1, 3, g, 1)
  <2>1. Code(c1, 3)
    BY <1>3 DEF Joins
  <2>. QED BY <1>1, <2>1, Joined
<1>. HIDE DEF c2
<1>5. Joins(c, h, 2, c2, 4)
  <2>1. Code(c2, 4)
    BY <1>4 DEF Joins
  <2>. QED BY <1>1, <2>1, Joined
<1>. HIDE DEF c
<1>6. /\ Code(c, 6) /\ c[1] = h[1] /\ c[2] = h[2] /\ c[3] = a[1]
      /\ c[4] = b[1] /\ c[5] = b[2] /\ c[6] = g[1]
  BY <1>3, <1>4, <1>5 DEF Joins
<1>7. \A n \in 1..6 : Line(Confirming, n) = c[7 - n]
  BY <1>2, <1>6 DEF Line, Code
<1>8. Code(Confirming, 6)
  BY <1>2, <1>6
<1>. HIDE DEF Confirming
<1>. QED BY <1>1, <1>6, <1>7, <1>8

-----------------------------------------------------------------------------
(* One step of ps2_install *)

\* The position says what is executed next.
LEMMA OnHead ==
    ASSUME NEW code, NEW N, Code(code, N), On(code), todo # <<>>
    PROVE  /\ left \in 1..N /\ Head(todo) \in Instr
           /\ Stands(Head(todo), Line(code, left))
<1>1. todo \in Seq(Instr) /\ Len(todo) \in Nat /\ Len(code) = N /\ Len(todo) <= N
  BY DEF On, Code
<1>2. Len(todo) # 0 /\ Head(todo) = todo[1] /\ Head(todo) \in Instr
  BY <1>1, EmptySeq, HeadTailProperties
<1>. QED BY <1>1, <1>2 DEF On, left

\* One instruction on.
LEMMA OnDone ==
    ASSUME NEW code, NEW N \in Nat, Code(code, N), On(code), todo # <<>>,
           todo' = Tail(todo)
    PROVE  /\ On(code)' /\ left' = left - 1
           /\ left' # 0 => Head(todo') = Line(code, left') /\ todo' # <<>>
           /\ left' = 0 => todo' = <<>>
<1>1. todo \in Seq(Instr) /\ Len(todo) \in Nat /\ Len(code) = N /\ Len(todo) <= N
  BY DEF On, Code
<1>2. /\ Len(todo) > 0 /\ Len(Tail(todo)) = Len(todo) - 1 /\ Tail(todo) \in Seq(Instr)
      /\ \A i \in 1..Len(todo) - 1 : Tail(todo)[i] = todo[i + 1]
  BY <1>1, EmptySeq, HeadTailProperties
<1>3. todo' \in Seq(Instr) /\ Len(todo') = Len(todo) - 1
  BY <1>2
<1>4. \A i \in 1..Len(todo') : todo'[i] = code[Len(code) - Len(todo') + i]
  <2>. SUFFICES ASSUME NEW i \in 1..Len(todo')
                PROVE  todo'[i] = code[Len(code) - Len(todo') + i]
    OBVIOUS
  <2>1. i + 1 \in 2..Len(todo) /\ todo'[i] = todo[i + 1]
    BY <1>1, <1>2, <1>3
  <2>2. todo[i + 1] = code[Len(code) - Len(todo) + (i + 1)]
    BY <2>1 DEF On
  <2>3. Len(code) - Len(todo) + (i + 1) = Len(code) - Len(todo') + i
    BY <1>1, <1>3
  <2>. QED BY <2>1, <2>2, <2>3
<1>5. ASSUME todo' # <<>> PROVE todo'[1] = Line(code, Len(todo'))
  <2>1. 1 \in 1..Len(todo')
    BY <1>3, <1>5, <1>1, <1>2, EmptySeq
  <2>2. todo'[1] = code[Len(code) - Len(todo') + 1]
    BY ONLY Zenon, <1>4, <2>1
  <2>3. Len(code) - Len(todo') + 1 = Len(code) + 1 - Len(todo')
    BY <1>1, <1>3
  <2>. QED BY <2>2, <2>3 DEF Line
<1>6. /\ \A i \in 2..Len(todo') : todo'[i] = code[Len(code) - Len(todo') + i]
      /\ Len(todo') <= Len(code)
  <2>1. \A i \in 2..Len(todo') : i \in 1..Len(todo')
    BY <1>3
  <2>2. Len(todo') <= Len(code)
    BY <1>1, <1>3
  <2>. QED BY ONLY Zenon, <1>4, <2>1, <2>2
<1>7. (todo' = <<>>) <=> (Len(todo') = 0)
  BY <1>3, EmptySeq
<1>8. ASSUME todo' # <<>> PROVE Head(todo') = todo'[1]
  BY <1>3, <1>8, HeadTailProperties
<1>9. left' = Len(todo') /\ left = Len(todo)
  BY DEF left
<1>10. On(code)'
  BY <1>3, <1>5, <1>6 DEF On, left, Stands
<1>11. left' = left - 1
  BY <1>3, <1>9
<1>12. ASSUME left' # 0 PROVE Head(todo') = Line(code, left') /\ todo' # <<>>
  BY <1>12, <1>5, <1>7, <1>8, <1>9
<1>13. ASSUME left' = 0 PROVE todo' = <<>>
  BY <1>13, <1>7, <1>9
<1>. QED BY <1>10, <1>11, <1>12, <1>13

\* The same instruction again.
LEMMA OnSame ==
    ASSUME NEW code, On(code), todo' = todo
    PROVE  On(code)' /\ left' = left
BY DEF On, left

\* Where a run of straight code begins.
LEMMA OnStart ==
    ASSUME NEW code, NEW N \in Nat, Code(code, N), todo' = code
    PROVE  On(code)' /\ left' = N
<1>1. todo' \in Seq(Instr) /\ Len(todo') = N /\ Len(code) = N
  BY DEF Code
<1>2. \A i : Len(code) - Len(todo') + i = Len(code) - Len(code) + i
  BY <1>1
<1>3. \A i \in 2..Len(todo') : Len(code) - Len(todo') + i = i
  BY <1>1
<1>4. todo' # <<>> => Stands(todo'[1], Line(code, Len(todo')))
  BY <1>1 DEF Stands, Line
<1>. QED BY <1>1, <1>3, <1>4 DEF On, left

\* An instruction replaced by another at the same place.
LEMMA OnFront ==
    ASSUME NEW code, NEW N \in Nat, Code(code, N), On(code), todo # <<>>,
           NEW x \in Instr, todo' = <<x>> \o Tail(todo), Stands(x, Line(code, left))
    PROVE  On(code)' /\ left' = left /\ Head(todo') = x /\ todo' # <<>>
<1>1. todo \in Seq(Instr) /\ Len(todo) \in Nat /\ Len(code) = N /\ Len(todo) <= N
  BY DEF On, Code
<1>. DEFINE t == Tail(todo)
<1>2. /\ Len(todo) > 0 /\ Len(t) = Len(todo) - 1 /\ t \in Seq(Instr)
      /\ \A i \in 1..Len(todo) - 1 : t[i] = todo[i + 1]
  BY <1>1, EmptySeq, HeadTailProperties
<1>. HIDE DEF t
<1>3. Code(<<x>>, 1) /\ Code(t, Len(todo) - 1) /\ Len(todo) - 1 \in Nat
  BY <1>1, <1>2 DEF Code
<1>4. Joins(todo', <<x>>, 1, t, Len(todo) - 1)
  <2>1. Joins(<<x>> \o t, <<x>>, 1, t, Len(todo) - 1)
    BY <1>3, Joined
  <2>. QED BY <2>1 DEF t
<1>5. /\ todo' \in Seq(Instr) /\ Len(todo') = Len(todo) /\ todo'[1] = x
      /\ \A i \in 2..Len(todo) : todo'[i] = t[i - 1]
  BY <1>1, <1>4 DEF Joins, Code
<1>6. \A i \in 2..Len(todo) : todo'[i] = todo[i]
  BY <1>1, <1>2, <1>5
<1>7. \A i \in 2..Len(todo') : todo'[i] = code[Len(code) - Len(todo') + i]
  BY <1>5, <1>6 DEF On
<1>8. Head(todo') = x /\ todo' # <<>>
  BY <1>1, <1>2, <1>5
<1>. QED BY <1>1, <1>5, <1>7, <1>8 DEF On, left

\* The instruction at hand says what is executed.
LEMMA Executes ==
    ASSUME ps2_install
    PROVE  /\ todo # <<>>
           /\ Head(todo).op = "cmd" => Command
           /\ Head(todo).op = "config" => WriteConfig
           /\ Head(todo).op = "kbd" => SendKeyboard
           /\ Head(todo).op = "mouse" => SendMouse
           /\ Head(todo).op = "read" => ReadByte
           /\ Head(todo).op = "ack" => AwaitAck
           /\ Head(todo).op = "reset" => ReadReset
           /\ Head(todo).op = "drain" => Drain
           /\ Head(todo).op = "mread" => mouse_read
           /\ Head(todo).op = "guess" => GuessDual
           /\ Head(todo).op = "confirm" => Confirm
           /\ Head(todo).op = "wheel" => TryWheel
           /\ Head(todo).op = "install" => Install
<1>1. /\ (Command => At("cmd")) /\ (WriteConfig => At("config"))
      /\ (SendKeyboard => At("kbd")) /\ (SendMouse => At("mouse"))
      /\ (ReadByte => At("read")) /\ (AwaitAck => At("ack"))
      /\ (ReadReset => At("reset")) /\ (Drain => At("drain"))
      /\ (mouse_read => At("mread")) /\ (GuessDual => At("guess"))
      /\ (Confirm => At("confirm")) /\ (TryWheel => At("wheel"))
      /\ (Install => At("install"))
  BY DEF Command, WriteConfig, SendKeyboard, SendMouse, ReadByte, AwaitAck, ReadReset,
         Drain, mouse_read, GuessDual, Confirm, TryWheel, Install, Inb, Decide
<1>. QED BY <1>1 DEF ps2_install, At

\* No reply is given up: the poll takes the first byte, if there is one.
Taken1 == IF obuf = <<>> THEN obuf' = obuf /\ latch' = latch
          ELSE obuf' = Tail(obuf) /\ latch' = Head(obuf).b
LEMMA Polls ==
    ASSUME late \in Nat, late' = 0, Arrives \/ GivesUp
    PROVE  late = 0 /\ Taken1
<1>1. late + 1 # 0
  OBVIOUS
<1>. QED BY <1>1 DEF Arrives, GivesUp, Taken1

\* The values the configuration byte goes through, and their bits.
LEMMA Values ==
    /\ With(71, 4) = 87 /\ With(87, 5) = 119 /\ With(20, 5) = 52
    /\ Without(52, 5) = 20 /\ Without(119, 4) = 103 /\ Without(103, 5) = 71
    /\ Without(85, 4) = 69
    /\ Without(Without(Without(119, 0), 1), 6) = 52
    /\ Without(Without(Without(87, 0), 1), 6) = 20
    /\ With(With(With(52, 0), 6), 1) = 119 /\ With(With(20, 0), 6) = 85
    /\ Bit(52, 5) /\ ~Bit(20, 5)
    /\ Bit(87, 4) /\ Bit(119, 4) /\ Bit(20, 4) /\ Bit(52, 4) /\ Bit(85, 4)
    /\ ~Bit(71, 4) /\ ~Bit(71, 5) /\ Bit(71, 0) /\ Bit(71, 1)
    /\ ~Bit(69, 4) /\ Bit(69, 0) /\ ~Bit(69, 1)
<1>1. /\ With(71, 4) = 87 /\ With(87, 5) = 119 /\ With(20, 5) = 52
      /\ Without(52, 5) = 20 /\ Without(119, 4) = 103 /\ Without(103, 5) = 71
      /\ Without(85, 4) = 69
  BY DEF With, Without, Bit
<1>2. /\ Without(119, 0) = 118 /\ Without(118, 1) = 116 /\ Without(116, 6) = 52
      /\ Without(87, 0) = 86 /\ Without(86, 1) = 84 /\ Without(84, 6) = 20
  BY DEF Without, Bit
<1>3. /\ With(52, 0) = 53 /\ With(53, 6) = 117 /\ With(117, 1) = 119
      /\ With(20, 0) = 21 /\ With(21, 6) = 85
  BY DEF With, Bit
<1>4. /\ Bit(52, 5) /\ ~Bit(20, 5)
      /\ Bit(87, 4) /\ Bit(119, 4) /\ Bit(20, 4) /\ Bit(52, 4) /\ Bit(85, 4)
      /\ ~Bit(71, 4) /\ ~Bit(71, 5) /\ Bit(71, 0) /\ Bit(71, 1)
      /\ ~Bit(69, 4) /\ Bit(69, 0) /\ ~Bit(69, 1)
  BY DEF Bit
<1>. QED BY <1>1, <1>2, <1>3, <1>4

\* What stands for the instruction at a place.
LEMMA HeadIs ==
    ASSUME NEW op, NEW a, Stands(Head(todo), I(op, a))
    PROVE  /\ op \notin {"drain", "reset"} => Head(todo).op = op /\ arg = a
           /\ op = "reset" => \/ Head(todo).op = "reset"
                              \/ Head(todo).op = "read" /\ Head(todo) = Read
           /\ op = "drain" => Head(todo).op = "drain" /\ arg \in {a, 1, 2}
<1>1. /\ I(op, a).op = op /\ I(op, a).arg = a
      /\ \A d : I("drain", d).op = "drain" /\ I("drain", d).arg = d
      /\ Read.op = "read"
  BY DEF I, Read
<1>. QED BY <1>1 DEF Stands, arg

\* What the controller does with a command.
LEMMA Answered ==
    /\ Answer(32) = From(0, <<config>>) /\ Answer(170) = From(0, <<85>>)
    /\ Answer(171) = From(0, <<0>>) /\ Answer(169) = From(0, <<0>>)
    /\ \A c \in {173, 174, 167, 168} : Answer(c) = <<>>
    /\ Configured(173) = With(config, 4) /\ Configured(174) = Without(config, 4)
    /\ fitted.dual => /\ Configured(167) = With(config, 5)
                      /\ Configured(168) = Without(config, 5)
    /\ ~fitted.dual => Configured(167) = config
    /\ \A c \in {32, 170, 171, 169} : Configured(c) = config
BY Codes DEF Answer, Configured

\* A reply of the controller to an empty buffer is the next byte read.
LEMMA OneReply ==
    ASSUME NEW b \in Bytes8
    PROVE  /\ Empty => /\ obuf \o From(0, <<b>>) = <<[from |-> 0, b |-> b]>>
                       /\ obuf \o <<>> = obuf
           /\ (Waits(b) /\ Taken1) => Empty' /\ latch' = b
<1>1. /\ <<>> \o From(0, <<b>>) = <<[from |-> 0, b |-> b]>> /\ <<>> \o <<>> = <<>>
  <2>1. From(0, <<b>>) \in Seq(Reply) /\ Len(From(0, <<b>>)) = 1
        /\ From(0, <<b>>)[1] = [from |-> 0, b |-> b]
    <3>. DEFINE s == <<b>>
    <3>1. s \in Seq(Bytes8) /\ Len(s) = 1 /\ s[1] = b /\ 0 \in 0..2 /\ 1 \in 1..Len(s)
      OBVIOUS
    <3>. HIDE DEF s
    <3>2. /\ From(0, s) \in Seq(Reply) /\ Len(From(0, s)) = Len(s)
          /\ \A i \in 1..Len(s) : From(0, s)[i] = [from |-> 0, b |-> s[i]]
      BY <3>1, FromIs
    <3>3. From(0, s) \in Seq(Reply) /\ Len(From(0, s)) = 1
          /\ From(0, s)[1] = [from |-> 0, b |-> b]
      BY <3>1, <3>2
    <3>. QED BY <3>3 DEF s
  <2>2. From(0, <<b>>) = <<[from |-> 0, b |-> b]>>
    BY <2>1
  <2>. QED BY <2>1, <2>2
<1>2. ASSUME Waits(b), Taken1 PROVE Empty' /\ latch' = b
  <2>. DEFINE r == [from |-> 0, b |-> b]
  <2>1. r.b = b
    OBVIOUS
  <2>. HIDE DEF r
  <2>2. <<r>> # <<>> /\ Tail(<<r>>) = <<>> /\ Head(<<r>>) = r
    OBVIOUS
  <2>3. obuf = <<r>>
    BY <1>2 DEF Waits, r
  <2>. QED BY <1>2, <2>1, <2>2, <2>3 DEF Taken1, Empty
<1>. QED BY <1>1, <1>2 DEF Empty

\* What each instruction does.
LEMMA CmdStep ==
    ASSUME ps2_install, Head(todo).op = "cmd"
    PROVE  /\ todo' = Tail(todo) /\ obuf' = obuf \o Answer(arg)
           /\ config' = Configured(arg)
           /\ UNCHANGED <<latch, fitted, scanning, streaming, id, status,
                          is_dual_device, routines, keys, late>>
BY Executes DEF Command, Done, mouse, locals

LEMMA ConfigStep ==
    ASSUME ps2_install, Head(todo).op = "config"
    PROVE  /\ todo' = Tail(todo)
           /\ config' = IF arg = "quiet" THEN Quieted ELSE Enabled
           /\ arg = "quiet" => status' = status
           /\ UNCHANGED <<obuf, latch, fitted, scanning, streaming, id, is_dual_device,
                          routines, keys, late>>
BY Executes DEF WriteConfig, Done, mouse

LEMMA KbdStep ==
    ASSUME ps2_install, Head(todo).op = "kbd"
    PROVE  /\ todo' = Tail(todo) /\ obuf' = obuf \o KeyboardAnswer(arg)
           /\ scanning' = Scans(arg)
           /\ UNCHANGED <<config, latch, fitted, streaming, id, status, is_dual_device,
                          routines, keys, late>>
BY Executes DEF SendKeyboard, Done, mouse, locals

LEMMA MouseStep ==
    ASSUME ps2_install, Head(todo).op = "mouse"
    PROVE  /\ todo' = Tail(todo)
           /\ IF fitted.mouse = "none" \/ ~fitted.dual
              THEN obuf' = obuf /\ streaming' = streaming
              ELSE /\ obuf' = obuf \o MouseAnswer(arg)
                   /\ streaming' = (\/ arg = ENABLE_STREAMING
                                    \/ /\ streaming
                                       /\ arg \notin {DISABLE_STREAMING, RESET})
           /\ UNCHANGED <<config, latch, fitted, scanning, status, is_dual_device,
                          routines, keys, late>>
BY Executes DEF SendMouse, Done, mouse, locals

LEMMA PollStep ==
    ASSUME ps2_install, Head(todo).op \in {"read", "ack", "reset", "mread"},
           late \in Nat, late' = 0
    PROVE  /\ late = 0 /\ Taken1
           /\ Head(todo).op # "mread" => status' = latch'
           /\ Head(todo).op \in {"read", "mread"} => todo' = Tail(todo)
           /\ Head(todo).op = "ack"
              => todo' = IF latch' = ACK THEN Tail(todo) ELSE todo
           /\ Head(todo).op = "reset"
              => todo' = IF latch' = ACK THEN <<Read>> \o Tail(todo) ELSE Tail(todo)
           /\ UNCHANGED <<config, fitted, scanning, streaming, id, is_dual_device,
                          routines, keys>>
<1>1. ASSUME NEW op, Inb(op)
      PROVE  /\ Arrives \/ GivesUp
             /\ status' = latch'
             /\ UNCHANGED <<config, fitted, scanning, streaming, id, is_dual_device,
                            routines, keys>>
  BY <1>1 DEF Inb, mouse
<1>2. CASE Head(todo).op = "read"
  <2>1. Inb("read") /\ todo' = Tail(todo)
    BY <1>2, Executes DEF ReadByte, Done
  <2>. QED BY <1>1, <1>2, <2>1, Polls
<1>3. CASE Head(todo).op = "ack"
  <2>1. Inb("ack") /\ todo' = IF status' = ACK THEN Tail(todo) ELSE todo
    BY <1>3, Executes DEF AwaitAck
  <2>. QED BY <1>1, <1>3, <2>1, Polls
<1>4. CASE Head(todo).op = "reset"
  <2>1. /\ Inb("reset")
        /\ todo' = IF status' = ACK THEN <<Read>> \o Tail(todo) ELSE Tail(todo)
    BY <1>4, Executes DEF ReadReset
  <2>. QED BY <1>1, <1>4, <2>1, Polls
<1>5. CASE Head(todo).op = "mread"
  <2>1. /\ Arrives \/ GivesUp
        /\ todo' = Tail(todo)
        /\ UNCHANGED <<config, fitted, scanning, streaming, id, is_dual_device,
                       routines, keys>>
    BY <1>5, Executes DEF mouse_read, Done, mouse
  <2>. QED BY <1>5, <2>1, Polls
<1>. QED BY <1>2, <1>3, <1>4, <1>5

LEMMA DrainStep ==
    ASSUME ps2_install, Head(todo).op = "drain"
    PROVE  /\ todo' = IF arg = 1 THEN Tail(todo)
                      ELSE <<I("drain", arg - 1)>> \o Tail(todo)
           /\ obuf' = IF obuf = <<>> THEN obuf ELSE Tail(obuf)
           /\ UNCHANGED <<config, fitted, scanning, streaming, id, status,
                          is_dual_device, routines, keys, late>>
BY Executes DEF Drain, mouse, locals

LEMMA DecisionStep ==
    ASSUME ps2_install, Head(todo).op \in {"guess", "confirm", "wheel", "install"}
    PROVE  /\ Head(todo).op = "guess"
              => /\ is_dual_device' = Bit(status, 5)
                 /\ todo' = IF is_dual_device' THEN Confirming ELSE One
           /\ Head(todo).op = "confirm"
              => /\ is_dual_device' = ~Bit(status, 5)
                 /\ is_dual_device' => todo' = Two
           /\ Head(todo).op \in {"wheel", "install"}
              => todo' = Tail(todo) /\ UNCHANGED is_dual_device
           /\ routines' = IF Head(todo).op = "install" THEN routines \cup {arg}
                          ELSE routines
           /\ UNCHANGED <<obuf, latch, config, fitted, scanning, streaming, id, status,
                          keys, late>>
<1>1. ASSUME NEW op, Decide(op)
      PROVE  UNCHANGED <<obuf, latch, config, fitted, scanning, streaming, id, status,
                         keys, late>>
  BY <1>1 DEF Decide, controller, mouse
<1>2. CASE Head(todo).op = "guess"
  BY <1>1, <1>2, Executes DEF GuessDual, Confirming, One
<1>3. CASE Head(todo).op = "confirm"
  BY <1>1, <1>3, Executes DEF Confirm, Two
<1>4. CASE Head(todo).op = "wheel"
  BY <1>1, <1>4, Executes DEF TryWheel, Done
<1>5. CASE Head(todo).op = "install"
  BY <1>1, <1>5, Executes DEF Install, Done
<1>. QED BY <1>2, <1>3, <1>4, <1>5

\* The code before the first decision leaves the number of ports in the byte read.
LEMMA ProbingNext ==
    ASSUME Ps2Types, Probing, todo = Probe => Len(obuf) <= 3,
           late \in Nat, late' = 0, ps2_install
    PROVE  (Probing \/ Deciding \/ OnePort)'
<1>. DEFINE n == left
            on == IF fitted.dual THEN 119 ELSE 87
            off == IF fitted.dual THEN 52 ELSE 20
<1>0. /\ todo # <<>> /\ n \in 1..9 /\ Stands(Head(todo), Line(Probe, n))
      /\ On(Probe) /\ routines = {} /\ ~streaming
      /\ obuf \in Seq(Reply) /\ Len(obuf) \in Nat
  BY Executes, OnHead, ProbeIs DEF Probing, Ps2Types
<1>v. /\ on \in Bytes8 /\ off \in Bytes8
      /\ on = (IF fitted.dual THEN 119 ELSE 87) /\ off = (IF fitted.dual THEN 52 ELSE 20)
  BY DEF Bytes8
<1>d. ASSUME todo' = Tail(todo)
      PROVE  /\ On(Probe)' /\ left' = n - 1
             /\ left' # 0 => Head(todo') = Line(Probe, left')
  BY SMTT(20), <1>0, <1>d, OnDone, ProbeIs
<1>. HIDE DEF n, on, off
<1>9. CASE n = 9
  <2>1. Head(todo).op = "cmd" /\ arg = 173
    BY <1>0, <1>9, ProbeIs, HeadIs
  <2>2. /\ todo' = Tail(todo) /\ obuf' = obuf \o <<>> /\ config' = With(config, 4)
        /\ UNCHANGED <<routines, streaming>>
    BY <2>1, CmdStep, Answered
  <2>3. config = 71 /\ Len(obuf) <= 3
    BY <1>9 DEF Probing, n
  <2>4. config' = 87 /\ obuf' = obuf
    BY <1>0, <2>2, <2>3, Values
  <2>. QED BY <1>0, <1>d, <1>9, <2>2, <2>3, <2>4 DEF Probing
<1>8. CASE n = 8
  <2>1. Head(todo).op = "cmd" /\ arg = 167
    BY <1>0, <1>8, ProbeIs, HeadIs
  <2>2. /\ todo' = Tail(todo) /\ obuf' = obuf \o <<>> /\ config' = Configured(167)
        /\ UNCHANGED <<routines, streaming, fitted>>
    BY <2>1, CmdStep, Answered
  <2>3. config = 87 /\ Len(obuf) <= 3
    BY <1>8 DEF Probing, n
  <2>4. config' = on' /\ obuf' = obuf
    BY SMTT(20), <1>0, <2>2, <2>3, Values, Answered DEF on
  <2>5. On(Probe)' /\ left' = 7 /\ Head(todo').arg = 3
    <3>1. I("drain", 3).arg = 3 /\ Line(Probe, 7) = I("drain", 3)
      BY ProbeIs DEF I
    <3>2. On(Probe)' /\ left' = 7 /\ Head(todo') = Line(Probe, left')
      <4>1. todo' = Tail(todo)
        BY <2>2
      <4>2. On(Probe)' /\ left' = n - 1 /\ (left' # 0 => Head(todo') = Line(Probe, left'))
        BY <1>d, <4>1
      <4>3. left' = 7
        BY <1>8, <4>2
      <4>4. left' # 0
        BY <4>3
      <4>. QED BY <4>2, <4>3, <4>4, Zenon
    <3>. QED BY <3>1, <3>2
  <2>6. Head(todo').arg \in 1..3 /\ Len(obuf') <= Head(todo').arg
    BY <1>0, <2>3, <2>4, <2>5
  <2>7. routines' = {} /\ ~streaming' /\ config' = IF fitted'.dual THEN 119 ELSE 87
    BY <1>0, <2>2, <2>4 DEF on
  <2>. QED BY <2>5, <2>6, <2>7 DEF Probing
<1>7. CASE n = 7
  <2>1. Head(todo).op = "drain" /\ Stands(Head(todo), I("drain", 3))
    BY <1>0, <1>7, ProbeIs, HeadIs
  <2>2. /\ arg \in 1..3 /\ Len(obuf) <= arg /\ config = on
    BY <1>7 DEF Probing, n, on, arg
  <2>3. /\ todo' = IF arg = 1 THEN Tail(todo) ELSE <<I("drain", arg - 1)>> \o Tail(todo)
        /\ obuf' = IF obuf = <<>> THEN obuf ELSE Tail(obuf)
        /\ UNCHANGED <<config, fitted, routines, streaming>>
    BY <2>1, DrainStep
  <2>4. Len(obuf') <= arg - 1 /\ obuf' \in Seq(Reply)
    BY <1>0, <2>2, <2>3, EmptySeq, HeadTailProperties
  <2>5. config' = on'
    BY <2>2, <2>3 DEF on
  <2>6. CASE arg = 1
    <3>1. Empty'
      BY <2>4, <2>6, EmptySeq DEF Empty
    <3>2. On(Probe)' /\ left' = 6
      BY <1>d, <1>7, <2>3, <2>6
    <3>. QED BY <1>0, <2>3, <2>5, <3>1, <3>2 DEF Probing, on
  <2>7. CASE arg # 1
    <3>. DEFINE x == I("drain", arg - 1)
    <3>1. x \in Instr /\ x.arg = arg - 1 /\ Stands(x, Line(Probe, 7))
      <4>1. arg - 1 \in {1, 2} /\ "drain" \in Names /\ arg - 1 \in Arguments
        BY <2>2, <2>7 DEF Names, Arguments
      <4>2. x \in {I("drain", 1), I("drain", 2)}
        BY <4>1
      <4>3. I("drain", 3).op = "drain" /\ x.arg = arg - 1 /\ x.op = "drain"
        BY DEF I
      <4>4. x \in Instr
        BY <4>1, <4>3 DEF I, Instr
      <4>. QED BY <4>2, <4>3, <4>4, ProbeIs DEF Stands
    <3>2. todo' = <<x>> \o Tail(todo)
      BY <2>3, <2>7
    <3>. HIDE DEF x
    <3>3. On(Probe)' /\ left' = 7 /\ Head(todo') = x
      BY ZenonT(30), <1>0, <1>7, <3>1, <3>2, OnFront, ProbeIs DEF n
    <3>4. Head(todo').arg \in 1..3 /\ Len(obuf') <= Head(todo').arg
      BY <2>2, <2>4, <2>7, <3>1, <3>3
    <3>5. routines' = {} /\ ~streaming' /\ config' = IF fitted'.dual THEN 119 ELSE 87
      BY <1>0, <2>3, <2>5 DEF on
    <3>. QED BY <3>3, <3>4, <3>5 DEF Probing
  <2>. QED BY <2>6, <2>7
<1>6. CASE n = 6
  <2>1. Head(todo).op = "cmd" /\ arg = 32
    BY <1>0, <1>6, ProbeIs, HeadIs
  <2>2. /\ todo' = Tail(todo) /\ obuf' = obuf \o From(0, <<config>>) /\ config' = config
        /\ UNCHANGED <<routines, streaming, fitted>>
    BY <2>1, CmdStep, Answered
  <2>3. config = on /\ Empty
    BY <1>6 DEF Probing, n, on
  <2>4. Waits(config)' /\ config' = on'
    BY <1>v, <2>2, <2>3, OneReply DEF Waits, on
  <2>. QED BY <1>0, <1>d, <1>6, <2>2, <2>4 DEF Probing, on
<1>5. CASE n = 5
  <2>1. Head(todo).op = "read"
    BY <1>0, <1>5, ProbeIs, HeadIs
  <2>2. /\ todo' = Tail(todo) /\ Taken1 /\ status' = latch'
        /\ UNCHANGED <<config, routines, streaming, fitted>>
    BY <2>1, PollStep
  <2>3. config = on /\ Waits(config)
    BY <1>5 DEF Probing, n, on
  <2>4. Empty' /\ status' = config' /\ config' = on'
    <3>1. config \in Bytes8
      BY <1>v, <2>3
    <3>2. Empty' /\ latch' = config
      BY <2>2, <2>3, <3>1, OneReply
    <3>. QED BY <2>2, <2>3, <3>2 DEF on
  <2>. QED BY <1>0, <1>d, <1>5, <2>2, <2>4 DEF Probing, on
<1>4. CASE n = 4
  <2>1. Head(todo).op = "config" /\ arg = "quiet"
    BY <1>0, <1>4, ProbeIs, HeadIs
  <2>2. /\ todo' = Tail(todo) /\ config' = Quieted /\ status' = status
        /\ UNCHANGED <<obuf, routines, streaming, fitted>>
    BY <2>1, ConfigStep
  <2>3. status = on /\ Empty
    BY <1>4 DEF Probing, n, on
  <2>4. config' = off' /\ Empty' /\ status' = on'
    BY <2>2, <2>3, Values DEF Quieted, on, off, Empty
  <2>. QED BY <1>0, <1>d, <1>4, <2>2, <2>4 DEF Probing, on, off
<1>3. CASE n = 3
  <2>1. Head(todo).op = "cmd" /\ arg = 32
    BY <1>0, <1>3, ProbeIs, HeadIs
  <2>2. /\ todo' = Tail(todo) /\ obuf' = obuf \o From(0, <<config>>) /\ config' = config
        /\ UNCHANGED <<routines, streaming, fitted>>
    BY <2>1, CmdStep, Answered
  <2>3. config = off /\ Empty
    BY <1>3 DEF Probing, n, off
  <2>4. Waits(config)' /\ config' = off'
    BY <1>v, <2>2, <2>3, OneReply DEF Waits, off
  <2>. QED BY <1>0, <1>d, <1>3, <2>2, <2>4 DEF Probing, off
<1>2. CASE n = 2
  <2>1. Head(todo).op = "read"
    BY <1>0, <1>2, ProbeIs, HeadIs
  <2>2. /\ todo' = Tail(todo) /\ Taken1 /\ status' = latch'
        /\ UNCHANGED <<config, routines, streaming, fitted>>
    BY <2>1, PollStep
  <2>3. config = off /\ Waits(config)
    BY <1>2 DEF Probing, n, off
  <2>4. Empty' /\ status' = config' /\ config' = off'
    <3>1. config \in Bytes8
      BY <1>v, <2>3
    <3>2. Empty' /\ latch' = config
      BY <2>2, <2>3, <3>1, OneReply
    <3>. QED BY <2>2, <2>3, <3>2 DEF off
  <2>. QED BY <1>0, <1>d, <1>2, <2>2, <2>4 DEF Probing, off
<1>1. CASE n = 1
  <2>1. Head(todo).op = "guess"
    BY <1>0, <1>1, ProbeIs, HeadIs
  <2>2. /\ is_dual_device' = Bit(status, 5)
        /\ todo' = IF is_dual_device' THEN Confirming ELSE One
        /\ routines' = routines
        /\ UNCHANGED <<obuf, config, streaming, fitted>>
    BY <2>1, DecisionStep
  <2>3. config = off /\ status = off /\ Empty
    BY <1>1 DEF Probing, n, off
  <2>4. CASE fitted.dual
    <3>1. is_dual_device' /\ todo' = Confirming /\ config' = 52
      BY <2>2, <2>3, <2>4, Values DEF off
    <3>2. On(Confirming)' /\ left' = 6
      BY <3>1, OnStart, ConfirmingIs
    <3>. QED BY <1>0, <2>2, <2>3, <2>4, <3>1, <3>2 DEF Deciding, Empty
  <2>5. CASE ~fitted.dual
    <3>1. ~is_dual_device' /\ todo' = One /\ config' = 20
      BY <2>2, <2>3, <2>5, Values DEF off
    <3>2. On(One)' /\ left' = 19
      BY <3>1, OnStart, OneIs
    <3>3. WaitingOne'
      BY <3>2 DEF WaitingOne
    <3>. QED BY <1>0, <2>2, <2>3, <2>5, <3>1, <3>2, <3>3 DEF OnePort, Empty
  <2>. QED BY <2>4, <2>5
<1>10. n \in {1, 2, 3, 4, 5, 6, 7, 8, 9}
  BY <1>0
<1>. QED BY <1>10, <1>1, <1>2, <1>3, <1>4, <1>5, <1>6, <1>7, <1>8, <1>9

\* The self test and the second port's clock: the controller has two ports.
LEMMA DecidingNext ==
    ASSUME Ps2Types, Deciding, late \in Nat, late' = 0, ps2_install
    PROVE  (Deciding \/ TwoPorts)'
<1>. DEFINE n == left
<1>0. /\ todo # <<>> /\ n \in 1..6 /\ Stands(Head(todo), Line(Confirming, n))
      /\ On(Confirming) /\ routines = {} /\ ~streaming
      /\ fitted.dual /\ is_dual_device
      /\ config = (IF n >= 4 THEN 52 ELSE 20)
  BY Executes, OnHead, ConfirmingIs DEF Deciding
<1>v. 52 \in Bytes8 /\ 20 \in Bytes8 /\ 85 \in Bytes8
  BY DEF Bytes8
<1>d. ASSUME todo' = Tail(todo)
      PROVE  On(Confirming)' /\ left' = n - 1
  BY <1>0, <1>d, OnDone, ConfirmingIs
<1>. HIDE DEF n
<1>6. CASE n = 6
  <2>1. Head(todo).op = "cmd" /\ arg = 170
    BY <1>0, <1>6, ConfirmingIs, HeadIs
  <2>2. /\ todo' = Tail(todo) /\ obuf' = obuf \o From(0, <<85>>) /\ config' = config
        /\ UNCHANGED <<routines, streaming, fitted, is_dual_device>>
    BY <2>1, CmdStep, Answered
  <2>3. Empty
    BY <1>6 DEF Deciding, n
  <2>4. Waits(85)'
    BY <1>v, <2>2, <2>3, OneReply DEF Waits
  <2>5. config' = 52 /\ left' = 5
    BY <1>0, <1>6, <1>d, <2>2
  <2>. QED BY <1>0, <1>d, <2>2, <2>4, <2>5 DEF Deciding
<1>5. CASE n = 5
  <2>1. Head(todo).op = "read"
    BY <1>0, <1>5, ConfirmingIs, HeadIs
  <2>2. /\ todo' = Tail(todo) /\ Taken1
        /\ UNCHANGED <<config, routines, streaming, fitted, is_dual_device>>
    BY <2>1, PollStep
  <2>3. Waits(85)
    BY <1>5 DEF Deciding, n
  <2>4. Empty'
    <3>1. 85 \in Bytes8 /\ Taken1
      BY <1>v, <2>2
    <3>. QED BY <2>3, <3>1, OneReply
  <2>5. config' = 52 /\ left' = 4
    BY <1>0, <1>5, <1>d, <2>2
  <2>. QED BY <1>0, <1>d, <2>2, <2>4, <2>5 DEF Deciding
<1>4. CASE n = 4
  <2>1. Head(todo).op = "cmd" /\ arg = 168
    BY <1>0, <1>4, ConfirmingIs, HeadIs
  <2>2. /\ todo' = Tail(todo) /\ obuf' = obuf \o <<>> /\ config' = Without(config, 5)
        /\ UNCHANGED <<routines, streaming, fitted, is_dual_device>>
    BY ZenonT(30), <1>0, <2>1, CmdStep, Answered
  <2>3. Empty
    BY <1>4 DEF Deciding, n
  <2>4. Empty'
    BY <1>v, <2>2, <2>3, OneReply DEF Empty
  <2>5. config' = 20 /\ left' = 3
    BY <1>0, <1>4, <1>d, <2>2, Values
  <2>. QED BY <1>0, <1>d, <2>2, <2>4, <2>5 DEF Deciding
<1>3. CASE n = 3
  <2>1. Head(todo).op = "cmd" /\ arg = 32
    BY <1>0, <1>3, ConfirmingIs, HeadIs
  <2>2. /\ todo' = Tail(todo) /\ obuf' = obuf \o From(0, <<config>>) /\ config' = config
        /\ UNCHANGED <<routines, streaming, fitted, is_dual_device>>
    BY <2>1, CmdStep, Answered
  <2>3. Empty
    BY <1>3 DEF Deciding, n
  <2>5. config = 20 /\ config' = 20 /\ left' = 2
    BY <1>0, <1>3, <1>d, <2>2
  <2>4. Waits(20)'
    BY <1>v, <2>2, <2>3, <2>5, OneReply DEF Waits
  <2>. QED BY <1>0, <1>d, <2>2, <2>4, <2>5 DEF Deciding
<1>2. CASE n = 2
  <2>1. Head(todo).op = "read"
    BY <1>0, <1>2, ConfirmingIs, HeadIs
  <2>2. /\ todo' = Tail(todo) /\ Taken1 /\ status' = latch'
        /\ UNCHANGED <<config, routines, streaming, fitted, is_dual_device>>
    BY <2>1, PollStep
  <2>3. Waits(20)
    BY <1>2 DEF Deciding, n
  <2>4. Empty' /\ status' = 20
    BY <1>v, <2>2, <2>3, OneReply
  <2>5. config' = 20 /\ left' = 1
    BY <1>0, <1>2, <1>d, <2>2
  <2>. QED BY <1>0, <1>d, <2>2, <2>4, <2>5 DEF Deciding
<1>1. CASE n = 1
  <2>1. Head(todo).op = "confirm"
    BY <1>0, <1>1, ConfirmingIs, HeadIs
  <2>2. /\ is_dual_device' = ~Bit(status, 5)
        /\ is_dual_device' => todo' = Two
        /\ UNCHANGED <<obuf, config, streaming, fitted, routines>>
    BY <2>1, DecisionStep
  <2>3. status = 20 /\ Empty
    BY <1>1 DEF Deciding, n
  <2>4. is_dual_device' /\ todo' = Two
    BY <2>2, <2>3, Values
  <2>5. On(Two)' /\ left' = 66
    BY <2>4, OnStart, TwoIs
  <2>6. config' = 20 /\ Empty'
    BY <1>0, <1>1, <2>2, <2>3 DEF Empty
  <2>7. Unanswered' /\ WaitingTwo'
    BY <2>5 DEF Unanswered, WaitingTwo
  <2>8. routines' = {} /\ ~streaming' /\ fitted'.dual
    BY <1>0, <2>2
  <2>9. (streaming' <=> (left' <= 1)) /\ ~(left' <= 3)
    BY <2>5, <2>8
  <2>10. TwoPorts'
    BY <2>4, <2>5, <2>6, <2>7, <2>8, <2>9 DEF TwoPorts
  <2>. QED BY <2>10
<1>10. n \in {1, 2, 3, 4, 5, 6}
  BY <1>0
<1>. QED BY <1>10, <1>1, <1>2, <1>3, <1>4, <1>5, <1>6

\* Where a step leads in straight code: on, round an ACK loop once more, or to the
\* second read behind a reset that was acknowledged.
OnTo(code, n) == /\ On(code)' /\ left' = n
                 /\ n # 0 => Head(todo') = Line(code, n)
\* The instructions that are always behind once executed.
Straight == {"cmd", "config", "kbd", "mouse", "read", "mread", "wheel", "install"}

LEMMA Moves ==
    ASSUME NEW code, NEW N \in Nat, Code(code, N), On(code), ps2_install,
           late \in Nat, late' = 0
    PROVE  /\ todo # <<>> /\ left \in 1..N
           /\ Head(todo).op \in Straight => OnTo(code, left - 1)
           /\ Head(todo).op = "ack"
              => IF latch' = ACK THEN OnTo(code, left - 1)
                 ELSE On(code)' /\ left' = left
           /\ Head(todo).op = "reset"
              => IF latch' = ACK THEN On(code)' /\ left' = left /\ Head(todo').op = "read"
                 ELSE OnTo(code, left - 1)
<1>1. todo # <<>> /\ left \in 1..N /\ Stands(Head(todo), Line(code, left))
  BY Executes, OnHead
<1>2. ASSUME todo' = Tail(todo) PROVE OnTo(code, left - 1)
  <2>1. /\ On(code)' /\ left' = left - 1
        /\ left' # 0 => Head(todo') = Line(code, left')
    BY <1>1, <1>2, OnDone
  <2>. QED BY <2>1, Zenon DEF OnTo
<1>3. ASSUME Head(todo).op \in Straight PROVE todo' = Tail(todo)
  <2>1. CASE Head(todo).op = "cmd"
    BY <2>1, CmdStep
  <2>2. CASE Head(todo).op = "config"
    BY <2>2, ConfigStep
  <2>3. CASE Head(todo).op = "kbd"
    BY <2>3, KbdStep
  <2>4. CASE Head(todo).op = "mouse"
    BY <2>4, MouseStep
  <2>5. CASE Head(todo).op \in {"read", "mread"}
    BY <2>5, PollStep
  <2>6. CASE Head(todo).op \in {"wheel", "install"}
    BY <2>6, DecisionStep
  <2>. QED BY <1>3, <2>1, <2>2, <2>3, <2>4, <2>5, <2>6 DEF Straight
<1>4. ASSUME Head(todo).op = "ack"
      PROVE  IF latch' = ACK THEN OnTo(code, left - 1)
             ELSE On(code)' /\ left' = left
  <2>1. todo' = IF latch' = ACK THEN Tail(todo) ELSE todo
    BY <1>4, PollStep
  <2>2. CASE latch' = ACK
    <3>1. todo' = Tail(todo)
      BY <2>1, <2>2
    <3>. QED BY <1>2, <2>2, <3>1
  <2>3. CASE latch' # ACK
    <3>1. todo' = todo
      BY <2>1, <2>3
    <3>2. On(code)' /\ left' = left
      BY <3>1, OnSame
    <3>. QED BY <2>3, <3>2
  <2>. QED BY <2>2, <2>3
<1>5. ASSUME Head(todo).op = "reset"
      PROVE  IF latch' = ACK THEN On(code)' /\ left' = left /\ Head(todo').op = "read"
             ELSE OnTo(code, left - 1)
  <2>1. todo' = IF latch' = ACK THEN <<Read>> \o Tail(todo) ELSE Tail(todo)
    BY <1>5, PollStep
  <2>2. CASE latch' = ACK
    <3>1. Read \in Instr /\ Read.op = "read"
      <4>1. "read" \in Names /\ 0 \in Arguments
        BY DEF Names, Arguments
      <4>. QED BY <4>1 DEF Read, I, Instr
    <3>2. /\ I("drain", 1).op = "drain" /\ I("drain", 2).op = "drain"
      BY DEF I
    <3>3. Line(code, left).op = "reset"
      BY <1>1, <1>5, <3>1, <3>2 DEF Stands
    <3>4. Stands(Read, Line(code, left))
      BY <3>3 DEF Stands
    <3>5. todo' = <<Read>> \o Tail(todo)
      BY <2>1, <2>2
    <3>6. On(code)' /\ left' = left /\ Head(todo') = Read
      BY <1>1, <3>1, <3>4, <3>5, OnFront
    <3>. QED BY <2>2, <3>1, <3>6
  <2>3. CASE latch' # ACK
    <3>1. todo' = Tail(todo)
      BY <2>1, <2>3
    <3>. QED BY <1>2, <2>3, <3>1
  <2>. QED BY <2>2, <2>3
<1>. QED BY <1>1, <1>2, <1>3, <1>4, <1>5

\* The replies behind those that wait: the first of them is the ACK.
Puts(n) == /\ Len(obuf') = Len(obuf) + n
           /\ \A i \in 1..Len(obuf) : obuf'[i] = obuf[i]
           /\ \A i \in Len(obuf) + 1..Len(obuf) + n :
                 (obuf'[i].b = ACK) <=> (i = Len(obuf) + 1)

\* Replies behind replies.
Behind(u, s, t) == /\ Len(u) = Len(s) + Len(t)
                   /\ \A i \in 1..Len(s) : u[i] = s[i]
                   /\ \A i \in Len(s) + 1..Len(s) + Len(t) : u[i] = t[i - Len(s)]
LEMMA Concats ==
    ASSUME NEW S, NEW s \in Seq(S), NEW t \in Seq(S)
    PROVE  Behind(s \o t, s, t)
<1>1. /\ Len(s \o t) = Len(s) + Len(t)
      /\ \A i \in 1..Len(s) : (s \o t)[i] = s[i]
      /\ \A i \in Len(s) + 1..Len(s) + Len(t) : (s \o t)[i] = t[i - Len(s)]
  OBVIOUS
<1>. QED BY <1>1 DEF Behind

\* The bytes a port sends come behind those that wait.
LEMMA Putting ==
    ASSUME obuf \in Seq(Reply), NEW p \in 0..2, NEW s \in Seq(Bytes8),
           obuf' = obuf \o From(p, s)
    PROVE  /\ Len(obuf') = Len(obuf) + Len(s)
           /\ \A i \in 1..Len(obuf) : obuf'[i] = obuf[i]
           /\ \A i \in Len(obuf) + 1..Len(obuf) + Len(s) :
                 obuf'[i].b = s[i - Len(obuf)]
<1>. DEFINE f == From(p, s)
<1>1. /\ f \in Seq(Reply) /\ Len(f) = Len(s)
      /\ \A i \in 1..Len(s) : f[i] = [from |-> p, b |-> s[i]]
  BY FromIs
<1>. HIDE DEF f
<1>3. obuf' = obuf \o f /\ Len(obuf) \in Nat /\ Len(s) \in Nat
  BY DEF f
<1>2. Behind(obuf', obuf, f)
  <2>1. Behind(obuf \o f, obuf, f)
    BY <1>1, Concats
  <2>. QED BY <1>3, <2>1
<1>4. \A i \in Len(obuf) + 1..Len(obuf) + Len(s) : i - Len(obuf) \in 1..Len(s)
  BY <1>3
<1>5. \A i \in 1..Len(s) : f[i].b = s[i]
  <2>1. \A x : [from |-> p, b |-> x].b = x
    OBVIOUS
  <2>. QED BY <1>1, <2>1
<1>. QED BY <1>1, <1>2, <1>3, <1>4, <1>5 DEF Behind

\* So does an answer, whose first byte alone is the ACK.
LEMMA PuttingAck ==
    ASSUME obuf \in Seq(Reply), NEW p \in 0..2, NEW s \in Seq(Bytes8),
           obuf' = obuf \o From(p, s),
           \A i \in 1..Len(s) : (s[i] = ACK) <=> (i = 1)
    PROVE  Puts(Len(s))
<1>1. /\ Len(obuf') = Len(obuf) + Len(s)
      /\ \A i \in 1..Len(obuf) : obuf'[i] = obuf[i]
      /\ \A i \in Len(obuf) + 1..Len(obuf) + Len(s) :
            obuf'[i].b = s[i - Len(obuf)]
  BY Putting
<1>2. Len(obuf) \in Nat /\ Len(s) \in Nat
  OBVIOUS
<1>3. \A i \in Len(obuf) + 1..Len(obuf) + Len(s) :
         i - Len(obuf) \in 1..Len(s) /\ (i - Len(obuf) = 1 <=> i = Len(obuf) + 1)
  BY <1>2
<1>. QED BY <1>1, <1>3 DEF Puts

\* How many bytes a device answers a command with: n for a reset.
Replies(c, n) == IF c = RESET THEN n ELSE IF c = IDENTIFY THEN 5 - n ELSE 1
LEMMA DevicePuts ==
    ASSUME Ps2Types, NEW c
    PROVE  /\ obuf' = obuf \o KeyboardAnswer(c) => Puts(Replies(c, 2))
           /\ obuf' = obuf \o MouseAnswer(c) => Puts(Replies(c, 3))
<1>. DEFINE k == CASE c = RESET -> <<ACK, BAT>>
                   [] c = IDENTIFY -> <<ACK, \hAB, \h83>>
                   [] OTHER -> <<ACK>>
            m == CASE c = RESET -> <<ACK, BAT, 0>>
                   [] c = IDENTIFY -> <<ACK, id>>
                   [] OTHER -> <<ACK>>
<1>1. /\ obuf \in Seq(Reply) /\ id \in {0, 3, 4} /\ RESET # IDENTIFY
      /\ 1 \in 0..2 /\ 2 \in 0..2 /\ id \in Bytes8
  BY Codes DEF Ps2Types, Bytes8
<1>k. /\ c = RESET => k = <<250, 170>> /\ m = <<250, 170, 0>>
      /\ c = IDENTIFY => k = <<250, 171, 131>> /\ m = <<250, id>>
      /\ c \notin {RESET, IDENTIFY} => k = <<250>> /\ m = <<250>>
  BY <1>1, Codes
<1>4. KeyboardAnswer(c) = From(1, k) /\ MouseAnswer(c) = From(2, m)
  BY DEF KeyboardAnswer, MouseAnswer
<1>. HIDE DEF k, m
<1>2. /\ k \in Seq(Bytes8) /\ Len(k) = Replies(c, 2)
      /\ \A i \in 1..Len(k) : (k[i] = ACK) <=> (i = 1)
  <2>1. CASE c = RESET
    <3>0. /\ <<250, 170>> \in Seq(Bytes8) /\ Len(<<250, 170>>) = 2
          /\ <<250, 170>>[1] = 250 /\ <<250, 170>>[2] = 170
      BY <1>1 DEF Bytes8
    <3>3. k = <<250, 170>>
      BY <1>1, <1>k, <2>1
    <3>1. k \in Seq(Bytes8) /\ Len(k) = 2 /\ k[1] = 250 /\ k[2] = 170
      BY <1>1, <3>0, <3>3
    <3>2. Replies(c, 2) = 2
      BY <2>1 DEF Replies
    <3>. QED BY <3>1, <3>2, Codes
  <2>2. CASE c = IDENTIFY
    <3>0. /\ <<250, 171, 131>> \in Seq(Bytes8) /\ Len(<<250, 171, 131>>) = 3
          /\ <<250, 171, 131>>[1] = 250 /\ <<250, 171, 131>>[2] = 171
          /\ <<250, 171, 131>>[3] = 131
      BY <1>1 DEF Bytes8
    <3>3. k = <<250, 171, 131>>
      BY <1>1, <1>k, <2>2
    <3>1. k \in Seq(Bytes8) /\ Len(k) = 3 /\ k[1] = 250 /\ k[2] = 171 /\ k[3] = 131
      BY <1>1, <3>0, <3>3
    <3>2. Replies(c, 2) = 3
      BY <1>1, <2>2 DEF Replies
    <3>. QED BY <3>1, <3>2, Codes
  <2>3. CASE c \notin {RESET, IDENTIFY}
    <3>0. /\ <<250>> \in Seq(Bytes8) /\ Len(<<250>>) = 1
          /\ <<250>>[1] = 250
      BY <1>1 DEF Bytes8
    <3>3. k = <<250>>
      BY <1>1, <1>k, <2>3
    <3>1. k \in Seq(Bytes8) /\ Len(k) = 1 /\ k[1] = 250
      BY <1>1, <3>0, <3>3
    <3>2. Replies(c, 2) = 1
      BY <2>3 DEF Replies
    <3>. QED BY <3>1, <3>2, Codes
  <2>. QED BY <2>1, <2>2, <2>3
<1>3. /\ m \in Seq(Bytes8) /\ Len(m) = Replies(c, 3)
      /\ \A i \in 1..Len(m) : (m[i] = ACK) <=> (i = 1)
  <2>1. CASE c = RESET
    <3>0. /\ <<250, 170, 0>> \in Seq(Bytes8) /\ Len(<<250, 170, 0>>) = 3
          /\ <<250, 170, 0>>[1] = 250 /\ <<250, 170, 0>>[2] = 170 /\ <<250, 170, 0>>[3] = 0
      BY <1>1 DEF Bytes8
    <3>3. m = <<250, 170, 0>>
      BY <1>1, <1>k, <2>1
    <3>1. m \in Seq(Bytes8) /\ Len(m) = 3 /\ m[1] = 250 /\ m[2] = 170 /\ m[3] = 0
      BY <1>1, <3>0, <3>3
    <3>2. Replies(c, 3) = 3
      BY <2>1 DEF Replies
    <3>. QED BY <3>1, <3>2, Codes
  <2>2. CASE c = IDENTIFY
    <3>0. /\ <<250, id>> \in Seq(Bytes8) /\ Len(<<250, id>>) = 2
          /\ <<250, id>>[1] = 250 /\ <<250, id>>[2] = id
      BY <1>1 DEF Bytes8
    <3>3. m = <<250, id>>
      BY <1>1, <1>k, <2>2
    <3>1. m \in Seq(Bytes8) /\ Len(m) = 2 /\ m[1] = 250 /\ m[2] \in {0, 3, 4}
      BY <1>1, <3>0, <3>3
    <3>2. Replies(c, 3) = 2
      BY <1>1, <2>2 DEF Replies
    <3>. QED BY <3>1, <3>2, Codes
  <2>3. CASE c \notin {RESET, IDENTIFY}
    <3>0. /\ <<250>> \in Seq(Bytes8) /\ Len(<<250>>) = 1
          /\ <<250>>[1] = 250
      BY <1>1 DEF Bytes8
    <3>3. m = <<250>>
      BY <1>1, <1>k, <2>3
    <3>1. m \in Seq(Bytes8) /\ Len(m) = 1 /\ m[1] = 250
      BY <1>1, <3>0, <3>3
    <3>2. Replies(c, 3) = 1
      BY <2>3 DEF Replies
    <3>. QED BY <3>1, <3>2, Codes
  <2>. QED BY <2>1, <2>2, <2>3
<1>5. ASSUME obuf' = obuf \o From(1, k) PROVE Puts(Len(k))
  BY <1>1, <1>2, <1>5, PuttingAck
<1>6. ASSUME obuf' = obuf \o From(2, m) PROVE Puts(Len(m))
  BY <1>1, <1>3, <1>6, PuttingAck
<1>. QED BY <1>2, <1>3, <1>4, <1>5, <1>6

\* What is executed with n instructions left.
OneAt(n) ==
    /\ n = 19 => Head(todo).op = "cmd" /\ arg = 170
    /\ n \in {18, 16, 10, 5, 4} => Head(todo).op = "read"
    /\ n = 17 => Head(todo).op = "cmd" /\ arg = 32
    /\ n = 15 => Head(todo).op = "config" /\ arg = "final"
    /\ n = 14 => Head(todo).op = "cmd" /\ arg = 174
    /\ n = 13 => Head(todo).op = "kbd" /\ arg = 245
    /\ n \in {12, 6, 1} => Head(todo).op = "ack"
    /\ n = 11 => Head(todo).op = "cmd" /\ arg = 171
    /\ n = 9 => Head(todo).op = "kbd" /\ arg = 255
    /\ n = 8 => Head(todo).op \in {"reset", "read"}
    /\ n = 7 => Head(todo).op = "kbd" /\ arg = 242
    /\ n = 3 => Head(todo).op = "install" /\ arg = 1
    /\ n = 2 => Head(todo).op = "kbd" /\ arg = 244

LEMMA OneHead ==
    ASSUME On(One), todo # <<>>
    PROVE  left \in 1..19 /\ OneAt(left)
<1>. DEFINE n == left
<1>1. n \in 1..19 /\ Stands(Head(todo), Line(One, n))
  BY OnHead, OneIs
<1>. HIDE DEF n
<1>2. ASSUME n = 19 PROVE Head(todo).op = "cmd" /\ arg = 170
  <2>1. Stands(Head(todo), I("cmd", 170))
    BY <1>1, <1>2, OneIs
  <2>. QED BY <2>1, HeadIs
<1>3. ASSUME n \in {18, 16, 10, 5, 4} PROVE Head(todo).op = "read"
  <2>1. Stands(Head(todo), I("read", 0))
    BY <1>1, <1>3, OneIs
  <2>. QED BY <2>1, HeadIs
<1>4. ASSUME n = 17 PROVE Head(todo).op = "cmd" /\ arg = 32
  <2>1. Stands(Head(todo), I("cmd", 32))
    BY <1>1, <1>4, OneIs
  <2>. QED BY <2>1, HeadIs
<1>5. ASSUME n = 15 PROVE Head(todo).op = "config" /\ arg = "final"
  <2>1. Stands(Head(todo), I("config", "final"))
    BY <1>1, <1>5, OneIs
  <2>. QED BY <2>1, HeadIs
<1>6. ASSUME n = 14 PROVE Head(todo).op = "cmd" /\ arg = 174
  <2>1. Stands(Head(todo), I("cmd", 174))
    BY <1>1, <1>6, OneIs
  <2>. QED BY <2>1, HeadIs
<1>7. ASSUME n = 13 PROVE Head(todo).op = "kbd" /\ arg = 245
  <2>1. Stands(Head(todo), I("kbd", 245))
    BY <1>1, <1>7, OneIs
  <2>. QED BY <2>1, HeadIs
<1>8. ASSUME n \in {12, 6, 1} PROVE Head(todo).op = "ack"
  <2>1. Stands(Head(todo), I("ack", 0))
    BY <1>1, <1>8, OneIs
  <2>. QED BY <2>1, HeadIs
<1>9. ASSUME n = 11 PROVE Head(todo).op = "cmd" /\ arg = 171
  <2>1. Stands(Head(todo), I("cmd", 171))
    BY <1>1, <1>9, OneIs
  <2>. QED BY <2>1, HeadIs
<1>10. ASSUME n = 9 PROVE Head(todo).op = "kbd" /\ arg = 255
  <2>1. Stands(Head(todo), I("kbd", 255))
    BY <1>1, <1>10, OneIs
  <2>. QED BY <2>1, HeadIs
<1>11. ASSUME n = 8 PROVE Head(todo).op \in {"reset", "read"}
  <2>1. Stands(Head(todo), I("reset", 0))
    BY <1>1, <1>11, OneIs
  <2>. QED BY <2>1, HeadIs
<1>12. ASSUME n = 7 PROVE Head(todo).op = "kbd" /\ arg = 242
  <2>1. Stands(Head(todo), I("kbd", 242))
    BY <1>1, <1>12, OneIs
  <2>. QED BY <2>1, HeadIs
<1>13. ASSUME n = 3 PROVE Head(todo).op = "install" /\ arg = 1
  <2>1. Stands(Head(todo), I("install", 1))
    BY <1>1, <1>13, OneIs
  <2>. QED BY <2>1, HeadIs
<1>14. ASSUME n = 2 PROVE Head(todo).op = "kbd" /\ arg = 244
  <2>1. Stands(Head(todo), I("kbd", 244))
    BY <1>1, <1>14, OneIs
  <2>. QED BY <2>1, HeadIs
<1>. QED BY <1>1, <1>2, <1>3, <1>4, <1>5, <1>6, <1>7, <1>8, <1>9, <1>10, <1>11, <1>12,
            <1>13, <1>14 DEF OneAt, n

\* What is executed with n instructions left.
TwoAt(n) ==
    /\ n = 66 => Head(todo).op = "cmd" /\ arg = 167
    /\ n = 65 => Head(todo).op = "cmd" /\ arg = 32
    /\ n \in {64, 55, 53, 46, 45, 42, 41} => Head(todo).op = "read"
    /\ n = 63 => Head(todo).op = "config" /\ arg = "final"
    /\ n = 62 => Head(todo).op = "cmd" /\ arg = 174
    /\ n = 61 => Head(todo).op = "cmd" /\ arg = 168
    /\ n = 60 => Head(todo).op = "kbd" /\ arg = 245
    /\ n \in {59, 57, 47, 43, 25, 9, 3, 1} => Head(todo).op = "ack"
    /\ n = 58 => Head(todo).op = "mouse" /\ arg = 245
    /\ n = 56 => Head(todo).op = "cmd" /\ arg = 171
    /\ n = 54 => Head(todo).op = "cmd" /\ arg = 169
    /\ n = 52 => Head(todo).op = "kbd" /\ arg = 255
    /\ n \in {51, 49} => Head(todo).op \in {"reset", "read"}
    /\ n = 50 => Head(todo).op = "mouse" /\ arg = 255
    /\ n = 48 => Head(todo).op = "kbd" /\ arg = 242
    /\ n \in {44, 40, 26, 10} => Head(todo).op = "mouse" /\ arg = 242
    /\ n \in {39, 37, 35, 33, 31, 29, 27, 24, 21, 19, 17, 15, 13, 11, 8}
       => Head(todo).op = "mread"
    /\ n \in {38, 34, 30, 22, 18, 14} => Head(todo).op = "mouse" /\ arg = 243
    /\ n \in {36, 20, 16} => Head(todo).op = "mouse" /\ arg = 200
    /\ n = 32 => Head(todo).op = "mouse" /\ arg = 100
    /\ n \in {28, 12} => Head(todo).op = "mouse" /\ arg = 80
    /\ n = 23 => Head(todo).op = "wheel" /\ arg = 3
    /\ n = 7 => Head(todo).op = "wheel" /\ arg = 4
    /\ n = 6 => Head(todo).op = "install" /\ arg = 1
    /\ n = 5 => Head(todo).op = "install" /\ arg = 12
    /\ n = 4 => Head(todo).op = "kbd" /\ arg = 244
    /\ n = 2 => Head(todo).op = "mouse" /\ arg = 244

LEMMA TwoHead ==
    ASSUME On(Two), todo # <<>>
    PROVE  left \in 1..66 /\ TwoAt(left)
<1>. DEFINE n == left
<1>1. n \in 1..66 /\ Stands(Head(todo), Line(Two, n))
  BY ZenonT(30), OnHead, TwoIs
<1>. HIDE DEF n
<1>2. ASSUME n = 66 PROVE Head(todo).op = "cmd" /\ arg = 167
  <2>1. Stands(Head(todo), I("cmd", 167))
    BY <1>1, <1>2, TwoIs
  <2>. QED BY <2>1, HeadIs
<1>3. ASSUME n = 65 PROVE Head(todo).op = "cmd" /\ arg = 32
  <2>1. Stands(Head(todo), I("cmd", 32))
    BY <1>1, <1>3, TwoIs
  <2>. QED BY <2>1, HeadIs
<1>4. ASSUME n \in {64, 55, 53, 46, 45, 42, 41} PROVE Head(todo).op = "read"
  <2>0. \A i \in {64, 55, 53, 46, 45, 42, 41} : Line(Two, i) = I("read", 0)
    BY TwoIs, Zenon
  <2>1. Stands(Head(todo), I("read", 0))
    BY <1>1, <1>4, <2>0
  <2>. QED BY <2>1, HeadIs
<1>5. ASSUME n = 63 PROVE Head(todo).op = "config" /\ arg = "final"
  <2>1. Stands(Head(todo), I("config", "final"))
    BY <1>1, <1>5, TwoIs
  <2>. QED BY <2>1, HeadIs
<1>6. ASSUME n = 62 PROVE Head(todo).op = "cmd" /\ arg = 174
  <2>1. Stands(Head(todo), I("cmd", 174))
    BY <1>1, <1>6, TwoIs
  <2>. QED BY <2>1, HeadIs
<1>7. ASSUME n = 61 PROVE Head(todo).op = "cmd" /\ arg = 168
  <2>1. Stands(Head(todo), I("cmd", 168))
    BY <1>1, <1>7, TwoIs
  <2>. QED BY <2>1, HeadIs
<1>8. ASSUME n = 60 PROVE Head(todo).op = "kbd" /\ arg = 245
  <2>1. Stands(Head(todo), I("kbd", 245))
    BY <1>1, <1>8, TwoIs
  <2>. QED BY <2>1, HeadIs
<1>9. ASSUME n \in {59, 57, 47, 43, 25, 9, 3, 1} PROVE Head(todo).op = "ack"
  <2>1. Stands(Head(todo), I("ack", 0))
    BY ZenonT(30), <1>1, <1>9, TwoIs
  <2>. QED BY <2>1, HeadIs
<1>10. ASSUME n = 58 PROVE Head(todo).op = "mouse" /\ arg = 245
  <2>1. Stands(Head(todo), I("mouse", 245))
    BY <1>1, <1>10, TwoIs
  <2>. QED BY <2>1, HeadIs
<1>11. ASSUME n = 56 PROVE Head(todo).op = "cmd" /\ arg = 171
  <2>1. Stands(Head(todo), I("cmd", 171))
    BY <1>1, <1>11, TwoIs
  <2>. QED BY <2>1, HeadIs
<1>12. ASSUME n = 54 PROVE Head(todo).op = "cmd" /\ arg = 169
  <2>1. Stands(Head(todo), I("cmd", 169))
    BY <1>1, <1>12, TwoIs
  <2>. QED BY <2>1, HeadIs
<1>13. ASSUME n = 52 PROVE Head(todo).op = "kbd" /\ arg = 255
  <2>1. Stands(Head(todo), I("kbd", 255))
    BY <1>1, <1>13, TwoIs
  <2>. QED BY <2>1, HeadIs
<1>14. ASSUME n \in {51, 49} PROVE Head(todo).op \in {"reset", "read"}
  <2>1. Stands(Head(todo), I("reset", 0))
    BY ZenonT(30), <1>1, <1>14, TwoIs
  <2>. QED BY <2>1, HeadIs
<1>15. ASSUME n = 50 PROVE Head(todo).op = "mouse" /\ arg = 255
  <2>1. Stands(Head(todo), I("mouse", 255))
    BY <1>1, <1>15, TwoIs
  <2>. QED BY <2>1, HeadIs
<1>16. ASSUME n = 48 PROVE Head(todo).op = "kbd" /\ arg = 242
  <2>1. Stands(Head(todo), I("kbd", 242))
    BY <1>1, <1>16, TwoIs
  <2>. QED BY <2>1, HeadIs
<1>17. ASSUME n \in {44, 40, 26, 10} PROVE Head(todo).op = "mouse" /\ arg = 242
  <2>1. Stands(Head(todo), I("mouse", 242))
    BY ZenonT(30), <1>1, <1>17, TwoIs
  <2>. QED BY <2>1, HeadIs
<1>18. ASSUME n \in {39, 37, 35, 33, 31, 29, 27, 24, 21, 19, 17, 15, 13, 11, 8}
       PROVE  Head(todo).op = "mread"
  <2>1. Stands(Head(todo), I("mread", 0))
    BY ZenonT(30), <1>1, <1>18, TwoIs
  <2>. QED BY <2>1, HeadIs
<1>19. ASSUME n \in {38, 34, 30, 22, 18, 14} PROVE Head(todo).op = "mouse" /\ arg = 243
  <2>1. Stands(Head(todo), I("mouse", 243))
    BY ZenonT(30), <1>1, <1>19, TwoIs
  <2>. QED BY <2>1, HeadIs
<1>20. ASSUME n \in {36, 20, 16} PROVE Head(todo).op = "mouse" /\ arg = 200
  <2>1. Stands(Head(todo), I("mouse", 200))
    BY ZenonT(30), <1>1, <1>20, TwoIs
  <2>. QED BY <2>1, HeadIs
<1>21. ASSUME n = 32 PROVE Head(todo).op = "mouse" /\ arg = 100
  <2>1. Stands(Head(todo), I("mouse", 100))
    BY <1>1, <1>21, TwoIs
  <2>. QED BY <2>1, HeadIs
<1>22. ASSUME n \in {28, 12} PROVE Head(todo).op = "mouse" /\ arg = 80
  <2>1. Stands(Head(todo), I("mouse", 80))
    BY ZenonT(30), <1>1, <1>22, TwoIs
  <2>. QED BY <2>1, HeadIs
<1>23. ASSUME n = 23 PROVE Head(todo).op = "wheel" /\ arg = 3
  <2>1. Stands(Head(todo), I("wheel", 3))
    BY <1>1, <1>23, TwoIs
  <2>. QED BY <2>1, HeadIs
<1>24. ASSUME n = 7 PROVE Head(todo).op = "wheel" /\ arg = 4
  <2>1. Stands(Head(todo), I("wheel", 4))
    BY <1>1, <1>24, TwoIs
  <2>. QED BY <2>1, HeadIs
<1>25. ASSUME n = 6 PROVE Head(todo).op = "install" /\ arg = 1
  <2>1. Stands(Head(todo), I("install", 1))
    BY <1>1, <1>25, TwoIs
  <2>. QED BY <2>1, HeadIs
<1>26. ASSUME n = 5 PROVE Head(todo).op = "install" /\ arg = 12
  <2>1. Stands(Head(todo), I("install", 12))
    BY <1>1, <1>26, TwoIs
  <2>. QED BY <2>1, HeadIs
<1>27. ASSUME n = 4 PROVE Head(todo).op = "kbd" /\ arg = 244
  <2>1. Stands(Head(todo), I("kbd", 244))
    BY <1>1, <1>27, TwoIs
  <2>. QED BY <2>1, HeadIs
<1>28. ASSUME n = 2 PROVE Head(todo).op = "mouse" /\ arg = 244
  <2>1. Stands(Head(todo), I("mouse", 244))
    BY <1>1, <1>28, TwoIs
  <2>. QED BY <2>1, HeadIs
<1>. QED BY <1>1, <1>2, <1>3, <1>4, <1>5, <1>6, <1>7, <1>8, <1>9, <1>10, <1>11, <1>12,
            <1>13, <1>14, <1>15, <1>16, <1>17, <1>18, <1>19, <1>20, <1>21, <1>22,
            <1>23, <1>24, <1>25, <1>26, <1>27, <1>28 DEF TwoAt, n

\* The instructions that occur.
LEMMA TwoOps ==
    ASSUME NEW n \in 1..66, TwoAt(n)
    PROVE  /\ Head(todo).op \in Straight \cup {"ack", "reset"}
           /\ Head(todo).op \in {"cmd", "config", "kbd", "mouse", "read", "ack", "reset",
                                 "mread", "wheel", "install"}
<1>. DEFINE op == Head(todo).op
<1>1. /\ n \in {66, 65, 62, 61, 56, 54} => op = "cmd"
      /\ n = 63 => op = "config"
      /\ n \in {60, 52, 48, 4} => op = "kbd"
      /\ n \in {23, 7} => op = "wheel"
      /\ n \in {6, 5} => op = "install"
  BY DEF TwoAt
<1>2. /\ n \in {64, 55, 53, 46, 45, 42, 41} => op = "read"
      /\ n \in {59, 57, 47, 43, 25, 9, 3, 1} => op = "ack"
      /\ n \in {51, 49} => op \in {"reset", "read"}
      /\ n \in {39, 37, 35, 33, 31, 29, 27, 24, 21, 19, 17, 15, 13, 11, 8} => op = "mread"
  BY DEF TwoAt
<1>3. n \in {58, 50, 44, 40, 38, 36, 34, 32, 30, 28, 26, 22, 20, 18, 16, 14, 12, 10, 2}
      => op = "mouse"
  BY DEF TwoAt
<1>. HIDE DEF op
<1>4. \/ n \in {66, 65, 62, 61, 56, 54} \/ n = 63 \/ n \in {60, 52, 48, 4}
      \/ n \in {23, 7} \/ n \in {6, 5}
      \/ n \in {64, 55, 53, 46, 45, 42, 41} \/ n \in {59, 57, 47, 43, 25, 9, 3, 1}
      \/ n \in {51, 49}
      \/ n \in {39, 37, 35, 33, 31, 29, 27, 24, 21, 19, 17, 15, 13, 11, 8}
      \/ n \in {58, 50, 44, 40, 38, 36, 34, 32, 30, 28, 26, 22, 20, 18, 16, 14, 12, 10, 2}
  BY ONLY n \in 1..66
<1>5. op \in {"cmd", "config", "kbd", "mouse", "read", "ack", "reset", "mread", "wheel",
              "install"}
  BY ONLY Zenon, <1>1, <1>2, <1>3, <1>4
<1>6. op \in Straight \cup {"ack", "reset"}
  BY ONLY Zenon, <1>5 DEF Straight
<1>. QED BY <1>5, <1>6 DEF op

\* The byte read is the first that waits, if one does.
Takes == IF Len(obuf) = 0 THEN Len(obuf') = 0 /\ latch' = latch
         ELSE /\ Len(obuf') = Len(obuf) - 1 /\ latch' = obuf[1].b
              /\ \A i \in 1..Len(obuf') : obuf'[i] = obuf[i + 1]

\* What each instruction does to the replies that wait.
LEMMA Effects ==
    ASSUME Ps2Types, Ps2Types', ps2_install, late \in Nat, late' = 0
    PROVE  /\ obuf \in Seq(Reply) /\ obuf' \in Seq(Reply)
           /\ Len(obuf) \in Nat /\ Len(obuf') \in Nat
           /\ Empty <=> (Len(obuf) = 0)
           /\ Empty' <=> (Len(obuf') = 0)
           /\ Head(todo).op = "kbd" => Puts(Replies(arg, 2))
           /\ (Head(todo).op = "mouse" /\ fitted.mouse # "none" /\ fitted.dual)
              => Puts(Replies(arg, 3))
           /\ (Head(todo).op = "mouse" /\ (fitted.mouse = "none" \/ ~fitted.dual))
              => obuf' = obuf
           /\ Head(todo).op \in {"read", "ack", "reset", "mread"} => Takes
           /\ Head(todo).op \in {"wheel", "install", "config", "guess", "confirm"}
              => obuf' = obuf
           /\ (Head(todo).op = "cmd" /\ arg \in {173, 174, 167, 168}) => obuf' = obuf
           /\ (Head(todo).op = "cmd" /\ arg \in {171, 169} /\ Empty)
              => Waits(0)' /\ Len(obuf') = 1 /\ obuf'[1].b = 0
<1>1. /\ obuf \in Seq(Reply) /\ obuf' \in Seq(Reply)
      /\ Len(obuf) \in Nat /\ Len(obuf') \in Nat
  BY DEF Ps2Types
<1>2. (Empty <=> (Len(obuf) = 0)) /\ (Empty' <=> (Len(obuf') = 0))
  BY <1>1, EmptySeq DEF Empty
<1>3. ASSUME Head(todo).op = "kbd" PROVE Puts(Replies(arg, 2))
  BY <1>3, KbdStep, DevicePuts
<1>4. ASSUME Head(todo).op = "mouse", fitted.mouse # "none", fitted.dual
      PROVE  Puts(Replies(arg, 3))
  <2>1. obuf' = obuf \o MouseAnswer(arg)
    BY <1>4, MouseStep
  <2>. QED BY <2>1, DevicePuts
<1>5. ASSUME Head(todo).op = "mouse", fitted.mouse = "none" \/ ~fitted.dual
      PROVE  obuf' = obuf
  BY <1>5, MouseStep
<1>6. ASSUME Head(todo).op \in {"read", "ack", "reset", "mread"} PROVE Takes
  <2>1. Taken1
    BY <1>6, PollStep
  <2>2. CASE obuf = <<>>
    BY <1>1, <2>1, <2>2, EmptySeq DEF Taken1, Takes
  <2>3. CASE obuf # <<>>
    <3>1. Len(obuf) # 0 /\ obuf' = Tail(obuf) /\ latch' = Head(obuf).b
      BY <1>1, <2>1, <2>3, EmptySeq DEF Taken1
    <3>2. /\ Len(Tail(obuf)) = Len(obuf) - 1 /\ Head(obuf) = obuf[1]
          /\ \A i \in 1..Len(obuf) - 1 : Tail(obuf)[i] = obuf[i + 1]
      BY <1>1, <2>3, HeadTailProperties
    <3>. QED BY <3>1, <3>2 DEF Takes
  <2>. QED BY <2>2, <2>3
<1>7. ASSUME Head(todo).op \in {"wheel", "install", "guess", "confirm"} PROVE obuf' = obuf
  BY <1>7, DecisionStep
<1>8. ASSUME Head(todo).op = "config" PROVE obuf' = obuf
  BY <1>8, ConfigStep
<1>9. ASSUME Head(todo).op = "cmd", arg \in {173, 174, 167, 168} PROVE obuf' = obuf
  <2>1. obuf' = obuf \o <<>>
    BY ZenonT(30), <1>9, CmdStep, Answered
  <2>. QED BY <1>1, <2>1
<1>10. ASSUME Head(todo).op = "cmd", arg \in {171, 169}, Empty
       PROVE  Waits(0)' /\ Len(obuf') = 1 /\ obuf'[1].b = 0
  <2>0. Answer(171) = From(0, <<0>>) /\ Answer(169) = From(0, <<0>>)
    BY Answered
  <2>1. obuf' = obuf \o From(0, <<0>>) /\ 0 \in Bytes8
    BY <1>10, <2>0, CmdStep DEF Bytes8
  <2>2. Waits(0)'
    BY <1>10, <2>1, OneReply DEF Waits
  <2>. QED BY <2>2 DEF Waits
<1>. QED BY <1>1, <1>2, <1>3, <1>4, <1>5, <1>6, <1>7, <1>8, <1>9, <1>10

\* What is left of the replies when one is read.
LEMMA Shapes ==
    ASSUME obuf \in Seq(Reply), obuf' \in Seq(Reply), Takes
    PROVE  /\ Holds(1, {}) => Empty' /\ latch' # ACK
           /\ Holds(1, {1}) => Empty' /\ latch' = ACK
           /\ Holds(2, {}) => Holds(1, {})' /\ latch' # ACK
           /\ Holds(2, {1}) => Holds(1, {})' /\ latch' = ACK
           /\ Holds(2, {2}) => Holds(1, {1})' /\ latch' # ACK
           /\ Holds(2, {1, 2}) => Holds(1, {1})' /\ latch' = ACK
           /\ Holds(3, {1}) => Holds(2, {})' /\ latch' = ACK
           /\ Holds(3, {1, 2}) => Holds(2, {1})' /\ latch' = ACK
           /\ Holds(4, {2}) => Holds(3, {1})' /\ latch' # ACK
<1>1. /\ Len(obuf) \in Nat /\ Len(obuf') \in Nat /\ (Len(obuf') = 0 => Empty')
  BY EmptySeq DEF Empty
<1>2. /\ Len(obuf) > 0 => Len(obuf') = Len(obuf) - 1 /\ latch' = obuf[1].b
      /\ Len(obuf) > 1 => obuf'[1] = obuf[2]
      /\ Len(obuf) > 2 => obuf'[2] = obuf[3]
      /\ Len(obuf) > 3 => obuf'[3] = obuf[4]
  BY <1>1 DEF Takes
<1>3. ASSUME Holds(1, {}) PROVE Empty' /\ latch' # ACK
  <2>1. /\ Len(obuf) = 1 /\ Len(obuf') = 0 /\ latch' = obuf[1].b
        /\ obuf[1].b # ACK
    BY <1>1, <1>2, <1>3 DEF Holds
  <2>. QED BY <1>1, <2>1 DEF Holds
<1>4. ASSUME Holds(1, {1}) PROVE Empty' /\ latch' = ACK
  <2>1. /\ Len(obuf) = 1 /\ Len(obuf') = 0 /\ latch' = obuf[1].b
        /\ obuf[1].b = ACK
    BY <1>1, <1>2, <1>4 DEF Holds
  <2>. QED BY <1>1, <2>1 DEF Holds
<1>5. ASSUME Holds(2, {}) PROVE Holds(1, {})' /\ latch' # ACK
  <2>1. /\ Len(obuf) = 2 /\ Len(obuf') = 1 /\ latch' = obuf[1].b
        /\ obuf[1].b # ACK /\ obuf[2].b # ACK
        /\ obuf'[1] = obuf[2]
    BY <1>1, <1>2, <1>5 DEF Holds
  <2>. QED BY <1>1, <2>1 DEF Holds
<1>6. ASSUME Holds(2, {1}) PROVE Holds(1, {})' /\ latch' = ACK
  <2>1. /\ Len(obuf) = 2 /\ Len(obuf') = 1 /\ latch' = obuf[1].b
        /\ obuf[1].b = ACK /\ obuf[2].b # ACK
        /\ obuf'[1] = obuf[2]
    BY <1>1, <1>2, <1>6 DEF Holds
  <2>. QED BY <1>1, <2>1 DEF Holds
<1>7. ASSUME Holds(2, {2}) PROVE Holds(1, {1})' /\ latch' # ACK
  <2>1. /\ Len(obuf) = 2 /\ Len(obuf') = 1 /\ latch' = obuf[1].b
        /\ obuf[1].b # ACK /\ obuf[2].b = ACK
        /\ obuf'[1] = obuf[2]
    BY <1>1, <1>2, <1>7 DEF Holds
  <2>. QED BY <1>1, <2>1 DEF Holds
<1>8. ASSUME Holds(2, {1, 2}) PROVE Holds(1, {1})' /\ latch' = ACK
  <2>1. /\ Len(obuf) = 2 /\ Len(obuf') = 1 /\ latch' = obuf[1].b
        /\ obuf[1].b = ACK /\ obuf[2].b = ACK
        /\ obuf'[1] = obuf[2]
    BY <1>1, <1>2, <1>8 DEF Holds
  <2>. QED BY <1>1, <2>1 DEF Holds
<1>9. ASSUME Holds(3, {1}) PROVE Holds(2, {})' /\ latch' = ACK
  <2>1. /\ Len(obuf) = 3 /\ Len(obuf') = 2 /\ latch' = obuf[1].b
        /\ obuf[1].b = ACK /\ obuf[2].b # ACK /\ obuf[3].b # ACK
        /\ obuf'[1] = obuf[2] /\ obuf'[2] = obuf[3]
    BY <1>1, <1>2, <1>9 DEF Holds
  <2>. QED BY <1>1, <2>1 DEF Holds
<1>10. ASSUME Holds(3, {1, 2}) PROVE Holds(2, {1})' /\ latch' = ACK
  <2>1. /\ Len(obuf) = 3 /\ Len(obuf') = 2 /\ latch' = obuf[1].b
        /\ obuf[1].b = ACK /\ obuf[2].b = ACK /\ obuf[3].b # ACK
        /\ obuf'[1] = obuf[2] /\ obuf'[2] = obuf[3]
    BY <1>1, <1>2, <1>10 DEF Holds
  <2>. QED BY <1>1, <2>1 DEF Holds
<1>11. ASSUME Holds(4, {2}) PROVE Holds(3, {1})' /\ latch' # ACK
  <2>1. /\ Len(obuf) = 4 /\ Len(obuf') = 3 /\ latch' = obuf[1].b
        /\ obuf[1].b # ACK /\ obuf[2].b = ACK /\ obuf[3].b # ACK /\ obuf[4].b # ACK
        /\ obuf'[1] = obuf[2] /\ obuf'[2] = obuf[3] /\ obuf'[3] = obuf[4]
    BY <1>1, <1>2, <1>11 DEF Holds
  <2>. QED BY <1>1, <2>1 DEF Holds
<1>. QED BY <1>3, <1>4, <1>5, <1>6, <1>7, <1>8, <1>9, <1>10, <1>11

\* With a mouse on the second port, every loop has its ACK and every reply is read.
LEMMA WaitingTwoNext ==
    ASSUME Ps2Types, Ps2Types', On(Two), fitted.dual, fitted.mouse # "none",
           WaitingTwo, left <= 61, left = 61 => Empty,
           ps2_install, late \in Nat, late' = 0
    PROVE  WaitingTwo'
<1>. DEFINE n == left
<1>1. todo # <<>> /\ n \in 1..66
  BY ZenonT(30), Moves, TwoIs
<1>h. TwoAt(n)
  BY <1>1, TwoHead
<1>0. /\ On(Two) /\ todo # <<>> /\ n = left
      /\ obuf \in Seq(Reply) /\ obuf' \in Seq(Reply)
      /\ Len(obuf) \in Nat /\ Len(obuf') \in Nat
  BY <1>1, Effects
<1>e. (Empty <=> (Len(obuf) = 0)) /\ (Empty' <=> (Len(obuf') = 0))
  BY Effects
<1>k. Head(todo).op = "kbd" => Puts(Replies(arg, 2))
  BY Effects
<1>m. Head(todo).op = "mouse" => Puts(Replies(arg, 3))
  BY Effects
<1>t. Head(todo).op \in {"read", "ack", "reset", "mread"} => Takes
  BY Effects
<1>o. /\ Head(todo).op \in {"wheel", "install"} => obuf' = obuf
      /\ (Head(todo).op = "cmd" /\ arg = 168) => obuf' = obuf
  BY Effects
<1>a. (Head(todo).op = "cmd" /\ arg \in {171, 169} /\ Empty)
      => Len(obuf') = 1 /\ obuf'[1].b = 0
  BY Effects
<1>s. /\ Head(todo).op \in Straight => left' = n - 1 /\ OnTo(Two, n - 1)
      /\ (Head(todo).op = "ack" /\ latch' = ACK) => left' = n - 1
      /\ (Head(todo).op = "ack" /\ latch' # ACK) => left' = n
  <2>1. /\ Head(todo).op \in Straight => OnTo(Two, n - 1)
        /\ Head(todo).op = "ack"
           => IF latch' = ACK THEN OnTo(Two, n - 1) ELSE On(Two)' /\ left' = n
    BY ZenonT(30), Moves, TwoIs
  <2>2. OnTo(Two, n - 1) => left' = n - 1
    BY DEF OnTo
  <2>. QED BY <2>1, <2>2
<1>. HIDE DEF n
<1>r. /\ n = 52 => Head(todo').op = "reset"
      /\ n = 50 => Head(todo').op = "reset"
  <2>1. Line(Two, 51) = I("reset", 0) /\ Line(Two, 49) = I("reset", 0)
    BY TwoIs
  <2>2. I("reset", 0).op = "reset"
    BY DEF I
  <2>3. ASSUME n \in {50, 52} PROVE Head(todo') = Line(Two, n - 1)
    <3>1. OnTo(Two, n - 1) /\ n - 1 # 0
      BY <1>h, <1>s, <2>3 DEF TwoAt, Straight
    <3>. QED BY <3>1 DEF OnTo
  <2>. QED BY <2>1, <2>2, <2>3
<1>c1. CASE n = 61
  <2>1. Head(todo).op = "cmd" /\ arg = 168
    BY <1>h, <1>c1 DEF TwoAt
  <2>2. Empty
    BY <1>c1 DEF n
  <2>3. obuf' = obuf
    BY <2>1, <1>o
  <2>4. (Empty)'
    BY <2>2, <2>3, <1>0, <1>e, Codes DEF Holds
  <2>5. left' = 60
    BY <2>1, <1>c1, <1>s DEF Straight
  <2>. QED BY <2>4, <2>5 DEF WaitingTwo
<1>c2. CASE n = 60
  <2>1. Head(todo).op = "kbd" /\ arg = 245
    BY <1>h, <1>c2 DEF TwoAt
  <2>2. Empty
    BY <1>c2 DEF WaitingTwo, n
  <2>3. Puts(1)
    BY <2>1, <1>k, Codes DEF Replies
  <2>4. Holds(1, {1})'
    BY <2>2, <2>3, <1>0, <1>e, Codes DEF Holds, Puts
  <2>5. left' = 59
    BY <2>1, <1>c2, <1>s DEF Straight
  <2>. QED BY <2>4, <2>5 DEF WaitingTwo
<1>c3. CASE n \in {59, 57}
  <2>1. Head(todo).op = "ack"
    BY <1>h, <1>c3 DEF TwoAt
  <2>2. Holds(1, {1})
    BY <1>c3 DEF WaitingTwo, n
  <2>3. Takes
    BY <2>1, <1>t
  <2>4. (Empty)'
    BY <2>2, <2>3, <1>0, Shapes
  <2>5. left' \in {58, 56}
    <3>1. latch' = ACK
      BY <2>2, <2>3, <1>0, Shapes
    <3>. QED BY <2>1, <3>1, <1>c3, <1>s DEF Straight
  <2>. QED BY <2>4, <2>5 DEF WaitingTwo
<1>c4. CASE n = 58
  <2>1. Head(todo).op = "mouse" /\ arg = 245
    BY <1>h, <1>c4 DEF TwoAt
  <2>2. Empty
    BY <1>c4 DEF WaitingTwo, n
  <2>3. Puts(1)
    BY <2>1, <1>m, Codes DEF Replies
  <2>4. Holds(1, {1})'
    BY <2>2, <2>3, <1>0, <1>e, Codes DEF Holds, Puts
  <2>5. left' = 57
    BY <2>1, <1>c4, <1>s DEF Straight
  <2>. QED BY <2>4, <2>5 DEF WaitingTwo
<1>c5. CASE n \in {56, 54}
  <2>1. Head(todo).op = "cmd" /\ arg \in {171, 169}
    BY <1>h, <1>c5 DEF TwoAt
  <2>2. Empty
    BY <1>c5 DEF WaitingTwo, n
  <2>3. Len(obuf') = 1 /\ obuf'[1].b = 0
    BY <2>1, <2>2, <1>a
  <2>4. Holds(1, {})'
    BY <2>2, <2>3, <1>0, <1>e, Codes DEF Holds
  <2>5. left' \in {55, 53}
    BY <2>1, <1>c5, <1>s DEF Straight
  <2>. QED BY <2>4, <2>5 DEF WaitingTwo
<1>c6. CASE n \in {55, 53}
  <2>1. Head(todo).op = "read"
    BY <1>h, <1>c6 DEF TwoAt
  <2>2. Holds(1, {})
    BY <1>c6 DEF WaitingTwo, n
  <2>3. Takes
    BY <2>1, <1>t
  <2>4. (Empty)'
    BY <2>2, <2>3, <1>0, Shapes
  <2>5. left' \in {54, 52}
    BY <2>1, <1>c6, <1>s DEF Straight
  <2>. QED BY <2>4, <2>5 DEF WaitingTwo
<1>c7. CASE n = 52
  <2>1. Head(todo).op = "kbd" /\ arg = 255
    BY <1>h, <1>c7 DEF TwoAt
  <2>2. Empty
    BY <1>c7 DEF WaitingTwo, n
  <2>3. Puts(2)
    BY <2>1, <1>k, Codes DEF Replies
  <2>4. Holds(2, {1})'
    BY <2>2, <2>3, <1>0, <1>e, Codes DEF Holds, Puts
  <2>5. left' = 51
    BY <2>1, <1>c7, <1>s DEF Straight
  <2>. QED BY <2>4, <2>5, <1>r, <1>c7 DEF WaitingTwo
<1>c8. CASE n = 50
  <2>1. Head(todo).op = "mouse" /\ arg = 255
    BY <1>h, <1>c8 DEF TwoAt
  <2>2. Empty
    BY <1>c8 DEF WaitingTwo, n
  <2>3. Puts(3)
    BY <2>1, <1>m, Codes DEF Replies
  <2>4. Holds(3, {1})'
    BY <2>2, <2>3, <1>0, <1>e, Codes DEF Holds, Puts
  <2>5. left' = 49
    BY <2>1, <1>c8, <1>s DEF Straight
  <2>. QED BY <2>4, <2>5, <1>r, <1>c8 DEF WaitingTwo
<1>c9. CASE n = 48
  <2>1. Head(todo).op = "kbd" /\ arg = 242
    BY <1>h, <1>c9 DEF TwoAt
  <2>2. Holds(1, {})
    BY <1>c9 DEF WaitingTwo, n
  <2>3. Puts(3)
    BY <2>1, <1>k, Codes DEF Replies
  <2>4. Holds(4, {2})'
    BY <2>2, <2>3, <1>0, <1>e, Codes DEF Holds, Puts
  <2>5. left' = 47
    BY <2>1, <1>c9, <1>s DEF Straight
  <2>. QED BY <2>4, <2>5 DEF WaitingTwo
<1>c10. CASE n = 46
  <2>1. Head(todo).op = "read"
    BY <1>h, <1>c10 DEF TwoAt
  <2>2. Holds(2, {})
    BY <1>c10 DEF WaitingTwo, n
  <2>3. Takes
    BY <2>1, <1>t
  <2>4. Holds(1, {})'
    BY <2>2, <2>3, <1>0, Shapes
  <2>5. left' = 45
    BY <2>1, <1>c10, <1>s DEF Straight
  <2>. QED BY <2>4, <2>5 DEF WaitingTwo
<1>c11. CASE n \in {45, 42}
  <2>1. Head(todo).op = "read"
    BY <1>h, <1>c11 DEF TwoAt
  <2>2. Holds(1, {})
    BY <1>c11 DEF WaitingTwo, n
  <2>3. Takes
    BY <2>1, <1>t
  <2>4. (Empty)'
    BY <2>2, <2>3, <1>0, Shapes
  <2>5. left' \in {44, 41}
    BY <2>1, <1>c11, <1>s DEF Straight
  <2>. QED BY <2>4, <2>5 DEF WaitingTwo
<1>c12. CASE n \in {44, 40}
  <2>1. Head(todo).op = "mouse" /\ arg = 242
    BY <1>h, <1>c12 DEF TwoAt
  <2>2. Empty
    BY <1>c12 DEF WaitingTwo, n
  <2>3. Puts(2)
    BY <2>1, <1>m, Codes DEF Replies
  <2>4. Holds(2, {1})'
    BY <2>2, <2>3, <1>0, <1>e, Codes DEF Holds, Puts
  <2>5. left' \in {43, 39}
    BY <2>1, <1>c12, <1>s DEF Straight
  <2>. QED BY <2>4, <2>5 DEF WaitingTwo
<1>c13. CASE n = 43
  <2>1. Head(todo).op = "ack"
    BY <1>h, <1>c13 DEF TwoAt
  <2>2. Holds(2, {1})
    BY <1>c13 DEF WaitingTwo, n
  <2>3. Takes
    BY <2>1, <1>t
  <2>4. Holds(1, {})'
    BY <2>2, <2>3, <1>0, Shapes
  <2>5. left' = 42
    <3>1. latch' = ACK
      BY <2>2, <2>3, <1>0, Shapes
    <3>. QED BY <2>1, <3>1, <1>c13, <1>s DEF Straight
  <2>. QED BY <2>4, <2>5 DEF WaitingTwo
<1>c14. CASE n = 41
  <2>1. Head(todo).op = "read"
    BY <1>h, <1>c14 DEF TwoAt
  <2>2. Empty
    BY <1>c14 DEF WaitingTwo, n
  <2>3. Takes
    BY <2>1, <1>t
  <2>4. (Empty)'
    BY <2>2, <2>3, <1>0, <1>e DEF Takes
  <2>5. left' = 40
    BY <2>1, <1>c14, <1>s DEF Straight
  <2>. QED BY <2>4, <2>5 DEF WaitingTwo
<1>c15. CASE n \in {39, 24, 8}
  <2>1. Head(todo).op = "mread"
    BY <1>h, <1>c15 DEF TwoAt
  <2>2. Holds(2, {1})
    BY <1>c15 DEF WaitingTwo, n
  <2>3. Takes
    BY <2>1, <1>t
  <2>4. Holds(1, {})'
    BY <2>2, <2>3, <1>0, Shapes
  <2>5. left' \in {38, 23, 7}
    BY <2>1, <1>c15, <1>s DEF Straight
  <2>. QED BY <2>4, <2>5 DEF WaitingTwo
<1>c16. CASE n \in {38, 22}
  <2>1. Head(todo).op = "mouse" /\ arg = 243
    BY <1>h, <1>c16 DEF TwoAt
  <2>2. Holds(1, {})
    BY <1>c16 DEF WaitingTwo, n
  <2>3. Puts(1)
    BY <2>1, <1>m, Codes DEF Replies
  <2>4. Holds(2, {2})'
    BY <2>2, <2>3, <1>0, <1>e, Codes DEF Holds, Puts
  <2>5. left' \in {37, 21}
    BY <2>1, <1>c16, <1>s DEF Straight
  <2>. QED BY <2>4, <2>5 DEF WaitingTwo
<1>c17. CASE n \in {37, 21}
  <2>1. Head(todo).op = "mread"
    BY <1>h, <1>c17 DEF TwoAt
  <2>2. Holds(2, {2})
    BY <1>c17 DEF WaitingTwo, n
  <2>3. Takes
    BY <2>1, <1>t
  <2>4. Holds(1, {1})'
    BY <2>2, <2>3, <1>0, Shapes
  <2>5. left' \in {36, 20}
    BY <2>1, <1>c17, <1>s DEF Straight
  <2>. QED BY <2>4, <2>5 DEF WaitingTwo
<1>c18. CASE n \in {36, 34, 32, 30, 28, 20, 18, 16, 14, 12}
  <2>1. Head(todo).op = "mouse" /\ arg \in {200, 243, 100, 80}
    BY <1>h, <1>c18 DEF TwoAt
  <2>2. Holds(1, {1})
    BY <1>c18 DEF WaitingTwo, n
  <2>3. Puts(1)
    BY <2>1, <1>m, Codes DEF Replies
  <2>4. Holds(2, {1, 2})'
    BY <2>2, <2>3, <1>0, <1>e, Codes DEF Holds, Puts
  <2>5. left' \in {35, 33, 31, 29, 27, 19, 17, 15, 13, 11}
    BY <2>1, <1>c18, <1>s DEF Straight
  <2>. QED BY <2>4, <2>5 DEF WaitingTwo
<1>c19. CASE n \in {35, 33, 31, 29, 27, 19, 17, 15, 13, 11}
  <2>1. Head(todo).op = "mread"
    BY <1>h, <1>c19 DEF TwoAt
  <2>2. Holds(2, {1, 2})
    BY <1>c19 DEF WaitingTwo, n
  <2>3. Takes
    BY <2>1, <1>t
  <2>4. Holds(1, {1})'
    BY <2>2, <2>3, <1>0, Shapes
  <2>5. left' \in {34, 32, 30, 28, 26, 18, 16, 14, 12, 10}
    BY <2>1, <1>c19, <1>s DEF Straight
  <2>. QED BY <2>4, <2>5 DEF WaitingTwo
<1>c20. CASE n \in {26, 10}
  <2>1. Head(todo).op = "mouse" /\ arg = 242
    BY <1>h, <1>c20 DEF TwoAt
  <2>2. Holds(1, {1})
    BY <1>c20 DEF WaitingTwo, n
  <2>3. Puts(2)
    BY <2>1, <1>m, Codes DEF Replies
  <2>4. Holds(3, {1, 2})'
    BY <2>2, <2>3, <1>0, <1>e, Codes DEF Holds, Puts
  <2>5. left' \in {25, 9}
    BY <2>1, <1>c20, <1>s DEF Straight
  <2>. QED BY <2>4, <2>5 DEF WaitingTwo
<1>c21. CASE n \in {25, 9}
  <2>1. Head(todo).op = "ack"
    BY <1>h, <1>c21 DEF TwoAt
  <2>2. Holds(3, {1, 2})
    BY <1>c21 DEF WaitingTwo, n
  <2>3. Takes
    BY <2>1, <1>t
  <2>4. Holds(2, {1})'
    BY <2>2, <2>3, <1>0, Shapes
  <2>5. left' \in {24, 8}
    <3>1. latch' = ACK
      BY <2>2, <2>3, <1>0, Shapes
    <3>. QED BY <2>1, <3>1, <1>c21, <1>s DEF Straight
  <2>. QED BY <2>4, <2>5 DEF WaitingTwo
<1>c22. CASE n \in {23, 7}
  <2>1. Head(todo).op = "wheel"
    BY <1>h, <1>c22 DEF TwoAt
  <2>2. Holds(1, {})
    BY <1>c22 DEF WaitingTwo, n
  <2>3. obuf' = obuf
    BY <2>1, <1>o
  <2>4. Holds(1, {})'
    BY <2>2, <2>3, <1>0, <1>e, Codes DEF Holds
  <2>5. left' \in {22, 6}
    BY <2>1, <1>c22, <1>s DEF Straight
  <2>. QED BY <2>4, <2>5 DEF WaitingTwo
<1>c23. CASE n \in {6, 5}
  <2>1. Head(todo).op = "install"
    BY <1>h, <1>c23 DEF TwoAt
  <2>2. Holds(1, {})
    BY <1>c23 DEF WaitingTwo, n
  <2>3. obuf' = obuf
    BY <2>1, <1>o
  <2>4. Holds(1, {})'
    BY <2>2, <2>3, <1>0, <1>e, Codes DEF Holds
  <2>5. left' \in {5, 4}
    BY <2>1, <1>c23, <1>s DEF Straight
  <2>. QED BY <2>4, <2>5 DEF WaitingTwo
<1>c24. CASE n = 4
  <2>1. Head(todo).op = "kbd" /\ arg = 244
    BY <1>h, <1>c24 DEF TwoAt
  <2>2. Holds(1, {})
    BY <1>c24 DEF WaitingTwo, n
  <2>3. Puts(1)
    BY <2>1, <1>k, Codes DEF Replies
  <2>4. Holds(2, {2})'
    BY <2>2, <2>3, <1>0, <1>e, Codes DEF Holds, Puts
  <2>5. left' = 3
    BY <2>1, <1>c24, <1>s DEF Straight
  <2>. QED BY <2>4, <2>5 DEF WaitingTwo
<1>c25. CASE n = 2
  <2>1. Head(todo).op = "mouse" /\ arg = 244
    BY <1>h, <1>c25 DEF TwoAt
  <2>2. Empty
    BY <1>c25 DEF WaitingTwo, n
  <2>3. Puts(1)
    BY <2>1, <1>m, Codes DEF Replies
  <2>4. Holds(1, {1})'
    BY <2>2, <2>3, <1>0, <1>e, Codes DEF Holds, Puts
  <2>5. left' = 1
    BY <2>1, <1>c25, <1>s DEF Straight
  <2>. QED BY <2>4, <2>5 DEF WaitingTwo
<1>c26. CASE n = 1
  <2>1. Head(todo).op = "ack"
    BY <1>h, <1>c26 DEF TwoAt
  <2>2. Holds(1, {1})
    BY <1>c26 DEF WaitingTwo, n
  <2>3. Takes
    BY <2>1, <1>t
  <2>4. (Empty)'
    BY <2>2, <2>3, <1>0, Shapes
  <2>5. left' = 0
    <3>1. latch' = ACK
      BY <2>2, <2>3, <1>0, Shapes
    <3>. QED BY <2>1, <3>1, <1>c26, <1>s DEF Straight
  <2>. QED BY <2>4, <2>5 DEF WaitingTwo
<1>d1. CASE n = 51
  <2>1. Head(todo).op \in {"reset", "read"} /\ Takes
    BY <1>h, <1>t, <1>d1 DEF TwoAt
  <2>2. CASE Head(todo).op = "reset"
    <3>1. Holds(2, {1})
      BY <1>d1, <2>2 DEF WaitingTwo, n
    <3>2. Holds(1, {})' /\ latch' = ACK
      BY <3>1, <2>1, <1>0, Shapes
    <3>3. left' = 51 /\ Head(todo').op = "read"
      BY <1>d1, <2>2, <3>2, Moves, TwoIs DEF n
    <3>. QED BY <3>2, <3>3 DEF WaitingTwo
  <2>3. CASE Head(todo).op = "read"
    <3>1. Holds(1, {})
      BY <1>d1, <2>3 DEF WaitingTwo, n
    <3>2. Empty'
      BY <3>1, <2>1, <1>0, Shapes
    <3>3. left' = 50
      BY <1>d1, <1>s, <2>3 DEF Straight
    <3>. QED BY <3>2, <3>3 DEF WaitingTwo
  <2>. QED BY <2>1, <2>2, <2>3
<1>d2. CASE n = 49
  <2>1. Head(todo).op \in {"reset", "read"} /\ Takes
    BY <1>h, <1>t, <1>d2 DEF TwoAt
  <2>2. CASE Head(todo).op = "reset"
    <3>1. Holds(3, {1})
      BY <1>d2, <2>2 DEF WaitingTwo, n
    <3>2. Holds(2, {})' /\ latch' = ACK
      BY <3>1, <2>1, <1>0, Shapes
    <3>3. left' = 49 /\ Head(todo').op = "read"
      BY <1>d2, <2>2, <3>2, Moves, TwoIs DEF n
    <3>. QED BY <3>2, <3>3 DEF WaitingTwo
  <2>3. CASE Head(todo).op = "read"
    <3>1. Holds(2, {})
      BY <1>d2, <2>3 DEF WaitingTwo, n
    <3>2. Holds(1, {})'
      BY <3>1, <2>1, <1>0, Shapes
    <3>3. left' = 48
      BY <1>d2, <1>s, <2>3 DEF Straight
    <3>. QED BY <3>2, <3>3 DEF WaitingTwo
  <2>. QED BY <2>1, <2>2, <2>3
<1>d3. CASE n = 47
  <2>1. Head(todo).op = "ack" /\ Takes
    BY <1>h, <1>t, <1>d3 DEF TwoAt
  <2>2. CASE Holds(4, {2})
    <3>1. Holds(3, {1})' /\ latch' # ACK
      BY <2>1, <2>2, <1>0, Shapes
    <3>2. left' = 47
      BY <1>d3, <1>s, <2>1, <3>1
    <3>. QED BY <3>1, <3>2 DEF WaitingTwo
  <2>3. CASE Holds(3, {1})
    <3>1. Holds(2, {})' /\ latch' = ACK
      BY <2>1, <2>3, <1>0, Shapes
    <3>2. left' = 46
      BY <1>d3, <1>s, <2>1, <3>1
    <3>. QED BY <3>1, <3>2 DEF WaitingTwo
  <2>. QED BY <1>d3, <2>2, <2>3 DEF WaitingTwo, n
<1>d4. CASE n = 3
  <2>1. Head(todo).op = "ack" /\ Takes
    BY <1>h, <1>t, <1>d4 DEF TwoAt
  <2>2. CASE Holds(2, {2})
    <3>1. Holds(1, {1})' /\ latch' # ACK
      BY <2>1, <2>2, <1>0, Shapes
    <3>2. left' = 3
      BY <1>d4, <1>s, <2>1, <3>1
    <3>. QED BY <3>1, <3>2 DEF WaitingTwo
  <2>3. CASE Holds(1, {1})
    <3>1. Empty' /\ latch' = ACK
      BY <2>1, <2>3, <1>0, Shapes
    <3>2. left' = 2
      BY <1>d4, <1>s, <2>1, <3>1
    <3>. QED BY <3>1, <3>2 DEF WaitingTwo
  <2>. QED BY <1>d4, <2>2, <2>3 DEF WaitingTwo, n
<1>9. n \in 1..61
  BY <1>1 DEF n
<1>. QED BY <1>9, <1>c1, <1>c2, <1>c3, <1>c4, <1>c5, <1>c6, <1>c7, <1>c8, <1>c9, <1>c10,
            <1>c11, <1>c12, <1>c13, <1>c14, <1>c15, <1>c16, <1>c17, <1>c18, <1>c19,
            <1>c20, <1>c21, <1>c22, <1>c23, <1>c24, <1>c25, <1>c26, <1>d1, <1>d2, <1>d3,
            <1>d4

\* The same for the only port of a controller that has no second one.
LEMMA WaitingOneNext ==
    ASSUME Ps2Types, Ps2Types', On(One), ~fitted.dual,
           WaitingOne, left <= 14, left = 14 => Empty,
           ps2_install, late \in Nat, late' = 0
    PROVE  WaitingOne'
<1>. DEFINE n == left
<1>1. todo # <<>> /\ n \in 1..19
  BY Moves, OneIs
<1>h. OneAt(n)
  BY <1>1, OneHead
<1>0. /\ On(One) /\ todo # <<>> /\ n = left
      /\ obuf \in Seq(Reply) /\ obuf' \in Seq(Reply)
      /\ Len(obuf) \in Nat /\ Len(obuf') \in Nat
  BY <1>1, Effects
<1>e. (Empty <=> (Len(obuf) = 0)) /\ (Empty' <=> (Len(obuf') = 0))
  BY Effects
<1>k. Head(todo).op = "kbd" => Puts(Replies(arg, 2))
  BY Effects
<1>t. Head(todo).op \in {"read", "ack", "reset"} => Takes
  BY Effects
<1>o. /\ Head(todo).op = "install" => obuf' = obuf
      /\ (Head(todo).op = "cmd" /\ arg = 174) => obuf' = obuf
  BY Effects
<1>a. (Head(todo).op = "cmd" /\ arg = 171 /\ Empty) => Len(obuf') = 1 /\ obuf'[1].b = 0
  BY Effects
<1>s. /\ Head(todo).op \in Straight => left' = n - 1 /\ OnTo(One, n - 1)
      /\ (Head(todo).op = "ack" /\ latch' = ACK) => left' = n - 1
  <2>1. /\ Head(todo).op \in Straight => OnTo(One, n - 1)
        /\ Head(todo).op = "ack"
           => IF latch' = ACK THEN OnTo(One, n - 1) ELSE On(One)' /\ left' = n
    BY Moves, OneIs
  <2>2. OnTo(One, n - 1) => left' = n - 1
    BY DEF OnTo
  <2>. QED BY <2>1, <2>2
<1>. HIDE DEF n
<1>r. n = 9 => Head(todo').op = "reset"
  <2>1. Line(One, 8) = I("reset", 0)
    BY OneIs
  <2>2. I("reset", 0).op = "reset"
    BY DEF I
  <2>3. ASSUME n = 9 PROVE Head(todo') = Line(One, n - 1)
    <3>1. OnTo(One, n - 1) /\ n - 1 # 0
      BY <1>h, <1>s, <2>3 DEF OneAt, Straight
    <3>. QED BY <3>1 DEF OnTo
  <2>. QED BY <2>1, <2>2, <2>3
<1>c1. CASE n = 14
  <2>1. Head(todo).op = "cmd" /\ arg = 174
    BY <1>h, <1>c1 DEF OneAt
  <2>2. Empty
    BY <1>c1 DEF n
  <2>3. obuf' = obuf
    BY <2>1, <1>o
  <2>4. (Empty)'
    BY <2>2, <2>3, <1>0, <1>e, Codes DEF Holds
  <2>5. left' = 13
    BY <2>1, <1>c1, <1>s DEF Straight
  <2>. QED BY <2>4, <2>5 DEF WaitingOne
<1>c2. CASE n = 13
  <2>1. Head(todo).op = "kbd" /\ arg = 245
    BY <1>h, <1>c2 DEF OneAt
  <2>2. Empty
    BY <1>c2 DEF WaitingOne, n
  <2>3. Puts(1)
    BY <2>1, <1>k, Codes DEF Replies
  <2>4. Holds(1, {1})'
    BY <2>2, <2>3, <1>0, <1>e, Codes DEF Holds, Puts
  <2>5. left' = 12
    BY <2>1, <1>c2, <1>s DEF Straight
  <2>. QED BY <2>4, <2>5 DEF WaitingOne
<1>c3. CASE n = 12
  <2>1. Head(todo).op = "ack"
    BY <1>h, <1>c3 DEF OneAt
  <2>2. Holds(1, {1})
    BY <1>c3 DEF WaitingOne, n
  <2>3. Takes
    BY <2>1, <1>t
  <2>4. (Empty)'
    BY <2>2, <2>3, <1>0, Shapes
  <2>5. left' = 11
    <3>1. latch' = ACK
      BY <2>2, <2>3, <1>0, Shapes
    <3>. QED BY <2>1, <3>1, <1>c3, <1>s DEF Straight
  <2>. QED BY <2>4, <2>5 DEF WaitingOne
<1>c4. CASE n = 11
  <2>1. Head(todo).op = "cmd" /\ arg = 171
    BY <1>h, <1>c4 DEF OneAt
  <2>2. Empty
    BY <1>c4 DEF WaitingOne, n
  <2>3. Len(obuf') = 1 /\ obuf'[1].b = 0
    BY <2>1, <2>2, <1>a
  <2>4. Holds(1, {})'
    BY <2>2, <2>3, <1>0, <1>e, Codes DEF Holds
  <2>5. left' = 10
    BY <2>1, <1>c4, <1>s DEF Straight
  <2>. QED BY <2>4, <2>5 DEF WaitingOne
<1>c5. CASE n = 10
  <2>1. Head(todo).op = "read"
    BY <1>h, <1>c5 DEF OneAt
  <2>2. Holds(1, {})
    BY <1>c5 DEF WaitingOne, n
  <2>3. Takes
    BY <2>1, <1>t
  <2>4. (Empty)'
    BY <2>2, <2>3, <1>0, Shapes
  <2>5. left' = 9
    BY <2>1, <1>c5, <1>s DEF Straight
  <2>. QED BY <2>4, <2>5 DEF WaitingOne
<1>c6. CASE n = 9
  <2>1. Head(todo).op = "kbd" /\ arg = 255
    BY <1>h, <1>c6 DEF OneAt
  <2>2. Empty
    BY <1>c6 DEF WaitingOne, n
  <2>3. Puts(2)
    BY <2>1, <1>k, Codes DEF Replies
  <2>4. Holds(2, {1})'
    BY <2>2, <2>3, <1>0, <1>e, Codes DEF Holds, Puts
  <2>5. left' = 8
    BY <2>1, <1>c6, <1>s DEF Straight
  <2>. QED BY <2>4, <2>5, <1>r, <1>c6 DEF WaitingOne
<1>c7. CASE n = 7
  <2>1. Head(todo).op = "kbd" /\ arg = 242
    BY <1>h, <1>c7 DEF OneAt
  <2>2. Empty
    BY <1>c7 DEF WaitingOne, n
  <2>3. Puts(3)
    BY <2>1, <1>k, Codes DEF Replies
  <2>4. Holds(3, {1})'
    BY <2>2, <2>3, <1>0, <1>e, Codes DEF Holds, Puts
  <2>5. left' = 6
    BY <2>1, <1>c7, <1>s DEF Straight
  <2>. QED BY <2>4, <2>5 DEF WaitingOne
<1>c8. CASE n = 6
  <2>1. Head(todo).op = "ack"
    BY <1>h, <1>c8 DEF OneAt
  <2>2. Holds(3, {1})
    BY <1>c8 DEF WaitingOne, n
  <2>3. Takes
    BY <2>1, <1>t
  <2>4. Holds(2, {})'
    BY <2>2, <2>3, <1>0, Shapes
  <2>5. left' = 5
    <3>1. latch' = ACK
      BY <2>2, <2>3, <1>0, Shapes
    <3>. QED BY <2>1, <3>1, <1>c8, <1>s DEF Straight
  <2>. QED BY <2>4, <2>5 DEF WaitingOne
<1>c9. CASE n = 5
  <2>1. Head(todo).op = "read"
    BY <1>h, <1>c9 DEF OneAt
  <2>2. Holds(2, {})
    BY <1>c9 DEF WaitingOne, n
  <2>3. Takes
    BY <2>1, <1>t
  <2>4. Holds(1, {})'
    BY <2>2, <2>3, <1>0, Shapes
  <2>5. left' = 4
    BY <2>1, <1>c9, <1>s DEF Straight
  <2>. QED BY <2>4, <2>5 DEF WaitingOne
<1>c10. CASE n = 4
  <2>1. Head(todo).op = "read"
    BY <1>h, <1>c10 DEF OneAt
  <2>2. Holds(1, {})
    BY <1>c10 DEF WaitingOne, n
  <2>3. Takes
    BY <2>1, <1>t
  <2>4. (Empty)'
    BY <2>2, <2>3, <1>0, Shapes
  <2>5. left' = 3
    BY <2>1, <1>c10, <1>s DEF Straight
  <2>. QED BY <2>4, <2>5 DEF WaitingOne
<1>c11. CASE n = 3
  <2>1. Head(todo).op = "install"
    BY <1>h, <1>c11 DEF OneAt
  <2>2. Empty
    BY <1>c11 DEF WaitingOne, n
  <2>3. obuf' = obuf
    BY <2>1, <1>o
  <2>4. (Empty)'
    BY <2>2, <2>3, <1>0, <1>e, Codes DEF Holds
  <2>5. left' = 2
    BY <2>1, <1>c11, <1>s DEF Straight
  <2>. QED BY <2>4, <2>5 DEF WaitingOne
<1>c12. CASE n = 2
  <2>1. Head(todo).op = "kbd" /\ arg = 244
    BY <1>h, <1>c12 DEF OneAt
  <2>2. Empty
    BY <1>c12 DEF WaitingOne, n
  <2>3. Puts(1)
    BY <2>1, <1>k, Codes DEF Replies
  <2>4. Holds(1, {1})'
    BY <2>2, <2>3, <1>0, <1>e, Codes DEF Holds, Puts
  <2>5. left' = 1
    BY <2>1, <1>c12, <1>s DEF Straight
  <2>. QED BY <2>4, <2>5 DEF WaitingOne
<1>c13. CASE n = 1
  <2>1. Head(todo).op = "ack"
    BY <1>h, <1>c13 DEF OneAt
  <2>2. Holds(1, {1})
    BY <1>c13 DEF WaitingOne, n
  <2>3. Takes
    BY <2>1, <1>t
  <2>4. (Empty)'
    BY <2>2, <2>3, <1>0, Shapes
  <2>5. left' = 0
    <3>1. latch' = ACK
      BY <2>2, <2>3, <1>0, Shapes
    <3>. QED BY <2>1, <3>1, <1>c13, <1>s DEF Straight
  <2>. QED BY <2>4, <2>5 DEF WaitingOne
<1>d1. CASE n = 8
  <2>1. Head(todo).op \in {"reset", "read"} /\ Takes
    BY <1>h, <1>t, <1>d1 DEF OneAt
  <2>2. CASE Head(todo).op = "reset"
    <3>1. Holds(2, {1})
      BY <1>d1, <2>2 DEF WaitingOne, n
    <3>2. Holds(1, {})' /\ latch' = ACK
      BY <3>1, <2>1, <1>0, Shapes
    <3>3. left' = 8 /\ Head(todo').op = "read"
      BY <1>d1, <2>2, <3>2, Moves, OneIs DEF n
    <3>. QED BY <3>2, <3>3 DEF WaitingOne
  <2>3. CASE Head(todo).op = "read"
    <3>1. Holds(1, {})
      BY <1>d1, <2>3 DEF WaitingOne, n
    <3>2. Empty'
      BY <3>1, <2>1, <1>0, Shapes
    <3>3. left' = 7
      BY <1>d1, <1>s, <2>3 DEF Straight
    <3>. QED BY <3>2, <3>3 DEF WaitingOne
  <2>. QED BY <2>1, <2>2, <2>3
<1>9. n \in 1..14
  BY <1>1 DEF n
<1>. QED BY <1>9, <1>c1, <1>c2, <1>c3, <1>c4, <1>c5, <1>c6, <1>c7, <1>c8, <1>c9, <1>c10,
            <1>c11, <1>c12, <1>c13, <1>d1

\* Without a mouse there, ps2_install never gets past the loop at kb.c:544.
LEMMA UnansweredNext ==
    ASSUME Ps2Types, Ps2Types', On(Two), fitted.dual, fitted.mouse = "none",
           Unanswered, left <= 62, left = 62 => Empty,
           ps2_install, late \in Nat, late' = 0
    PROVE  Unanswered'
<1>. DEFINE n == left
<1>1. todo # <<>> /\ n \in 1..66
  BY ZenonT(30), Moves, TwoIs
<1>h. TwoAt(n)
  BY <1>1, TwoHead
<1>0. /\ obuf \in Seq(Reply) /\ obuf' \in Seq(Reply)
      /\ Len(obuf) \in Nat /\ Len(obuf') \in Nat
  BY Effects
<1>e. (Empty <=> (Len(obuf) = 0)) /\ (Empty' <=> (Len(obuf') = 0))
  BY Effects
<1>k. Head(todo).op = "kbd" => /\ Puts(Replies(arg, 2)) /\ scanning' = Scans(arg)
                               /\ latch' = latch
  BY Effects, KbdStep
<1>m. Head(todo).op = "mouse" => obuf' = obuf /\ scanning' = scanning /\ latch' = latch
  BY Effects, MouseStep
<1>t. Head(todo).op \in {"read", "ack", "reset"} => Takes /\ scanning' = scanning
  BY Effects, PollStep
<1>a. /\ (Head(todo).op = "cmd" /\ arg \in {174, 168}) => obuf' = obuf
      /\ (Head(todo).op = "cmd" /\ arg \in {171, 169} /\ Empty) => Waits(0)'
      /\ Head(todo).op = "cmd" => scanning' = scanning /\ latch' = latch
  BY Effects, CmdStep
<1>s. /\ Head(todo).op \in Straight => left' = n - 1 /\ OnTo(Two, n - 1)
      /\ (Head(todo).op = "ack" /\ latch' = ACK) => left' = n - 1
      /\ (Head(todo).op = "ack" /\ latch' # ACK) => left' = n
      /\ (Head(todo).op = "reset" /\ latch' = ACK)
         => left' = n /\ Head(todo').op = "read"
      /\ (Head(todo).op = "reset" /\ latch' # ACK) => left' = n - 1
  <2>1. /\ Head(todo).op \in Straight => OnTo(Two, n - 1)
        /\ Head(todo).op = "ack"
           => IF latch' = ACK THEN OnTo(Two, n - 1) ELSE On(Two)' /\ left' = n
        /\ Head(todo).op = "reset"
           => IF latch' = ACK THEN On(Two)' /\ left' = n /\ Head(todo').op = "read"
              ELSE OnTo(Two, n - 1)
    BY ZenonT(30), Moves, TwoIs
  <2>2. OnTo(Two, n - 1) => left' = n - 1
    BY DEF OnTo
  <2>. QED BY <2>1, <2>2
<1>g. n >= 43
  BY DEF Unanswered
<1>z. 0 # ACK
  BY Codes
\* Before and behind one poll.
<1>p. ASSUME Takes
      PROVE  /\ NoAck => NoAck' /\ (latch # ACK => latch' # ACK)
             /\ (NoAck /\ obuf # <<>>) => latch' # ACK
             /\ \A a \in 2..Len(obuf) : OneAck(a) => OneAck(a - 1)' /\ latch' # ACK
             /\ OneAck(1) => NoAck' /\ latch' = ACK
             /\ Len(obuf) > 0 => Len(obuf') = Len(obuf) - 1
             /\ Len(obuf) = 0 => Empty'
  <2>0. Len(obuf) = 0 <=> obuf = <<>>
    BY <1>0, EmptySeq
  <2>1. ASSUME Len(obuf) > 0
        PROVE  /\ Len(obuf') = Len(obuf) - 1 /\ latch' = obuf[1].b
               /\ \A i \in 1..Len(obuf') : i + 1 \in 1..Len(obuf) /\ obuf'[i] = obuf[i + 1]
    BY <1>0, <1>p, <2>1 DEF Takes
  <2>2. ASSUME Len(obuf) = 0 PROVE Len(obuf') = 0 /\ latch' = latch
    BY <1>0, <1>p, <2>2 DEF Takes
  <2>3. NoAck => NoAck' /\ (latch # ACK => latch' # ACK)
    <3>1. CASE Len(obuf) = 0
      BY <2>2, <3>1 DEF NoAck
    <3>2. CASE Len(obuf) > 0
      BY <1>0, <2>1, <3>2 DEF NoAck
    <3>. QED BY <1>0, <3>1, <3>2
  <2>4. (NoAck /\ obuf # <<>>) => latch' # ACK
    BY <1>0, <2>0, <2>1 DEF NoAck
  <2>5. ASSUME NEW a \in 2..Len(obuf), OneAck(a) PROVE OneAck(a - 1)' /\ latch' # ACK
    <3>1. Len(obuf) > 0 /\ a - 1 \in 1..Len(obuf') /\ 1 # a /\ 1 \in 1..Len(obuf)
      BY <1>0, <2>1
    <3>2. \A i \in 1..Len(obuf) : (obuf[i].b = ACK) <=> (i = a)
      BY <2>5 DEF OneAck
    <3>3. ASSUME NEW i \in 1..Len(obuf') PROVE (obuf'[i].b = ACK) <=> (i = a - 1)
      <4>1. i + 1 \in 1..Len(obuf) /\ obuf'[i] = obuf[i + 1]
        BY <2>1, <3>1
      <4>2. (obuf[i + 1].b = ACK) <=> (i + 1 = a)
        BY <3>2, <4>1
      <4>. QED BY <4>1, <4>2
    <3>. QED BY <2>1, <3>1, <3>2, <3>3 DEF OneAck
  <2>6. ASSUME OneAck(1) PROVE NoAck' /\ latch' = ACK
    <3>1. 1 \in 1..Len(obuf) /\ \A i \in 1..Len(obuf) : (obuf[i].b = ACK) <=> (i = 1)
      BY <2>6 DEF OneAck
    <3>2. ASSUME NEW i \in 1..Len(obuf') PROVE obuf'[i].b # ACK
      <4>1. i + 1 \in 1..Len(obuf) /\ obuf'[i] = obuf[i + 1] /\ i + 1 # 1
        BY <1>0, <2>1, <3>1
      <4>. QED BY <3>1, <4>1
    <3>. QED BY <1>0, <2>1, <3>1, <3>2 DEF NoAck
  <2>. QED BY <1>0, <1>e, <2>1, <2>2, <2>3, <2>4, <2>5, <2>6
\* Before and behind one command to the keyboard.
<1>q. ASSUME NEW k \in 1..3, Puts(k), NoAck, NEW a, a = Len(obuf) + 1
      PROVE  OneAck(a)' /\ Len(obuf') = Len(obuf) + k
  <2>1. /\ Len(obuf') = Len(obuf) + k
        /\ \A i \in 1..Len(obuf) : obuf'[i] = obuf[i] /\ obuf[i].b # ACK
        /\ \A i \in Len(obuf) + 1..Len(obuf) + k :
              (obuf'[i].b = ACK) <=> (i = Len(obuf) + 1)
    BY <1>q DEF Puts, NoAck
  <2>2. ASSUME NEW i \in 1..Len(obuf') PROVE (obuf'[i].b = ACK) <=> (i = Len(obuf) + 1)
    <3>1. CASE i <= Len(obuf)
      BY <1>0, <2>1, <3>1
    <3>2. CASE i > Len(obuf)
      <4>1. i \in Len(obuf) + 1..Len(obuf) + k
        BY <1>0, <2>1, <3>2
      <4>. QED BY <2>1, <4>1
    <3>. QED BY <1>0, <2>1, <3>1, <3>2
  <2>3. Len(obuf) + 1 \in 1..Len(obuf')
    BY <1>0, <2>1
  <2>. QED BY <1>q, <2>1, <2>2, <2>3 DEF OneAck
<1>. HIDE DEF n
<1>u. Unanswered /\ n = left
  BY DEF n
<1>62. CASE n = 62
  <2>1. obuf' = obuf /\ left' = 61
    BY <1>h, <1>a, <1>s, <1>62 DEF TwoAt, Straight
  <2>2. Len(obuf') = 0
    BY <1>e, <1>u, <1>62, <2>1
  <2>3. NoAck'
    BY <2>2 DEF NoAck
  <2>. QED BY <2>1, <2>3 DEF Unanswered
<1>61. CASE n = 61
  <2>1. obuf' = obuf /\ left' = 60
    BY <1>h, <1>a, <1>s, <1>61 DEF TwoAt, Straight
  <2>2. NoAck'
    BY <1>u, <1>61, <2>1 DEF NoAck, Unanswered
  <2>. QED BY <2>1, <2>2 DEF Unanswered
<1>60. CASE n = 60
  <2>1. Head(todo).op = "kbd" /\ arg = 245
    BY <1>h, <1>60 DEF TwoAt
  <2>2. Puts(1) /\ ~scanning' /\ left' = 59
    <3>1. Replies(arg, 2) = 1 /\ Scans(arg) = FALSE
      BY <2>1, Codes DEF Replies, Scans
    <3>2. left' = 59
      BY <1>s, <1>60, <2>1 DEF Straight
    <3>. QED BY <1>k, <2>1, <3>1, <3>2
  <2>3. NoAck
    BY <1>u, <1>60 DEF Unanswered
  <2>4. \A a : a = Len(obuf) + 1 => OneAck(a)'
    BY <1>q, <2>2, <2>3
  <2>5. Len(obuf') = Len(obuf) + 1
    BY <2>2 DEF Puts
  <2>6. OneAck(Len(obuf))'
    BY <2>4, <2>5
  <2>. QED BY <2>2, <2>6 DEF Unanswered
<1>59. CASE n = 59
  <2>1. Head(todo).op = "ack" /\ Takes
    BY <1>h, <1>t, <1>59 DEF TwoAt
  <2>2. OneAck(Len(obuf)) /\ ~scanning' /\ Len(obuf) > 0
    <3>1. OneAck(Len(obuf)) /\ ~scanning
      BY <1>u, <1>59 DEF Unanswered
    <3>2. Len(obuf) > 0
      BY <1>0, <3>1 DEF OneAck
    <3>. QED BY <3>1, <3>2, <2>1, <1>t
  <2>3. CASE Len(obuf) = 1
    <3>1. latch' = ACK /\ Len(obuf') = 0
      <4>1. OneAck(1)
        BY <2>2, <2>3
      <4>. QED BY <1>p, <2>1, <2>3, <4>1
    <3>2. Empty' /\ left' = 58
      BY <1>e, <1>s, <1>59, <2>1, <3>1
    <3>. QED BY <2>2, <3>2 DEF Unanswered
  <2>4. CASE Len(obuf) # 1
    <3>1. Len(obuf) \in 2..Len(obuf) /\ Len(obuf') = Len(obuf) - 1
      BY <1>0, <1>p, <2>1, <2>2, <2>4
    <3>2. \A a : a = Len(obuf) => OneAck(a - 1)' /\ latch' # ACK
      BY <1>p, <2>1, <2>2, <3>1
    <3>3. OneAck(Len(obuf))' /\ latch' # ACK
      BY <3>1, <3>2
    <3>4. left' = 59
      BY <1>s, <1>59, <2>1, <3>3
    <3>. QED BY <2>2, <3>3, <3>4 DEF Unanswered
  <2>. QED BY <2>3, <2>4
<1>58. CASE n = 58
  <2>1. obuf' = obuf /\ scanning' = scanning /\ left' = 57
    BY <1>h, <1>m, <1>s, <1>58 DEF TwoAt, Straight
  <2>2. Empty /\ ~scanning
    BY <1>u, <1>58 DEF Unanswered
  <2>3. Empty'
    BY <2>1, <2>2 DEF Empty
  <2>. QED BY <2>1, <2>2, <2>3 DEF Unanswered
<1>57. CASE n = 57
  <2>1. Head(todo).op = "ack" /\ Takes
    BY <1>h, <1>t, <1>57 DEF TwoAt
  <2>2. Empty /\ ~scanning
    BY <1>u, <1>57 DEF Unanswered
  <2>3. Empty' /\ ~scanning'
    BY <1>e, <1>p, <1>t, <2>1, <2>2
  <2>4. left' \in {57, 56}
    BY <1>s, <1>57, <2>1
  <2>. QED BY <2>3, <2>4 DEF Unanswered
<1>56. CASE n \in {56, 54}
  <2>1. Head(todo).op = "cmd" /\ arg \in {171, 169}
    BY <1>h, <1>56 DEF TwoAt
  <2>2. Empty /\ ~scanning
    BY <1>u, <1>56 DEF Unanswered
  <2>3. Waits(0)' /\ ~scanning' /\ left' \in {55, 53}
    BY <1>a, <1>s, <1>56, <2>1, <2>2 DEF Straight
  <2>. QED BY <2>3 DEF Unanswered
<1>55. CASE n \in {55, 53}
  <2>1. Head(todo).op = "read" /\ Takes
    BY <1>h, <1>t, <1>55 DEF TwoAt
  <2>2. Waits(0) /\ ~scanning
    BY <1>u, <1>55 DEF Unanswered
  <2>3. Len(obuf) = 1
    BY <2>2 DEF Waits
  <2>4. Empty' /\ ~scanning' /\ left' \in {54, 52}
    BY <1>e, <1>p, <1>t, <1>s, <1>55, <2>1, <2>2, <2>3 DEF Straight
  <2>. QED BY <2>4 DEF Unanswered
<1>52. CASE n = 52
  <2>1. Head(todo).op = "kbd" /\ arg = 255
    BY <1>h, <1>52 DEF TwoAt
  <2>2. Puts(2) /\ left' = 51 /\ OnTo(Two, n - 1)
    BY <1>k, <1>s, <1>52, <2>1, Codes DEF Replies, Straight
  <2>3. Len(obuf) = 0
    BY <1>e, <1>u, <1>52 DEF Unanswered
  <2>4. NoAck
    BY <2>3 DEF NoAck
  <2>5. OneAck(1)' /\ Len(obuf') = 2
    BY <1>q, <2>2, <2>3, <2>4
  <2>6. Head(todo').op = "reset"
    <3>1. Line(Two, 51) = I("reset", 0) /\ I("reset", 0).op = "reset"
      BY TwoIs DEF I
    <3>. QED BY <1>52, <2>2, <3>1 DEF OnTo
  <2>7. obuf' # <<>> /\ Len(obuf') >= 2
    <3>1. Len(obuf') = 2
      BY <2>5
    <3>2. Len(obuf') # 0 /\ Len(obuf') >= 2
      BY <3>1
    <3>3. obuf' # <<>>
      BY <1>0, <3>2, EmptySeq
    <3>. QED BY <3>2, <3>3
  <2>. QED BY <2>2, <2>5, <2>6, <2>7 DEF Unanswered
<1>51. CASE n = 51
  <2>1. /\ Head(todo).op \in {"reset", "read"} /\ Takes
        /\ obuf # <<>>
        /\ IF Head(todo).op = "reset" THEN OneAck(1) /\ Len(obuf) >= 2 ELSE NoAck
    BY <1>h, <1>t, <1>u, <1>51 DEF TwoAt, Unanswered
  <2>2. CASE Head(todo).op = "reset"
    <3>1. NoAck' /\ latch' = ACK /\ Len(obuf') = Len(obuf) - 1 /\ Len(obuf') # 0
      BY <1>0, <1>p, <2>1, <2>2
    <3>2. left' = 51 /\ Head(todo').op = "read"
      BY <1>s, <1>51, <2>2, <3>1
    <3>3. obuf' # <<>>
      BY <1>0, <3>1, EmptySeq
    <3>. QED BY <3>1, <3>2, <3>3 DEF Unanswered
  <2>3. CASE Head(todo).op = "read"
    <3>1. NoAck' /\ latch' # ACK
      BY <1>p, <2>1, <2>3
    <3>2. left' = 50
      BY <1>s, <1>51, <2>3 DEF Straight
    <3>. QED BY <3>1, <3>2 DEF Unanswered
  <2>. QED BY <2>1, <2>2, <2>3
<1>50. CASE n = 50
  <2>1. /\ obuf' = obuf /\ scanning' = scanning /\ latch' = latch
        /\ left' = 49 /\ OnTo(Two, n - 1)
    BY <1>h, <1>m, <1>s, <1>50 DEF TwoAt, Straight
  <2>2. NoAck /\ latch # ACK
    BY <1>u, <1>50 DEF Unanswered
  <2>3. NoAck' /\ latch' # ACK
    BY <2>1, <2>2 DEF NoAck
  <2>4. Head(todo').op = "reset"
    <3>1. Line(Two, 49) = I("reset", 0) /\ I("reset", 0).op = "reset"
      BY TwoIs DEF I
    <3>. QED BY <1>50, <2>1, <3>1 DEF OnTo
  <2>. QED BY <2>1, <2>3, <2>4 DEF Unanswered
<1>49. CASE n = 49
  <2>1. Head(todo).op = "reset" /\ NoAck /\ latch # ACK
    BY <1>u, <1>49 DEF Unanswered
  <2>2. NoAck' /\ latch' # ACK
    BY <1>p, <1>t, <2>1
  <2>3. left' = 48
    BY <1>s, <1>49, <2>1, <2>2
  <2>. QED BY <2>2, <2>3 DEF Unanswered
<1>48. CASE n = 48
  <2>1. Head(todo).op = "kbd" /\ arg = 242
    BY <1>h, <1>48 DEF TwoAt
  <2>2. Puts(3) /\ left' = 47
    BY <1>k, <1>s, <1>48, <2>1, Codes DEF Replies, Straight
  <2>3. NoAck
    BY <1>u, <1>48 DEF Unanswered
  <2>4. PICK a : a = Len(obuf) + 1
    OBVIOUS
  <2>5. OneAck(a)' /\ Len(obuf') = Len(obuf) + 3
    BY <1>q, <2>2, <2>3, <2>4
  <2>6. a \in 1..Len(obuf') - 1
    BY <1>0, <2>4, <2>5
  <2>. QED BY <2>2, <2>5, <2>6 DEF Unanswered
<1>47. CASE n = 47
  <2>1. Head(todo).op = "ack" /\ Takes
    BY <1>h, <1>t, <1>47 DEF TwoAt
  <2>2. PICK a \in 1..Len(obuf) - 1 : OneAck(a)
    BY <1>u, <1>47 DEF Unanswered
  <2>3. Len(obuf') = Len(obuf) - 1 /\ Len(obuf) >= 2
    BY <1>0, <1>p, <2>1, <2>2
  <2>4. CASE a = 1
    <3>1. NoAck' /\ latch' = ACK /\ Len(obuf') # 0
      BY <1>0, <1>p, <2>1, <2>2, <2>3, <2>4
    <3>2. obuf' # <<>>
      BY <1>0, <3>1, EmptySeq
    <3>3. left' = 46
      BY <1>s, <1>47, <2>1, <3>1
    <3>. QED BY <3>1, <3>2, <3>3 DEF Unanswered
  <2>5. CASE a # 1
    <3>1. a \in 2..Len(obuf) /\ a - 1 \in 1..Len(obuf') - 1
      BY <1>0, <2>2, <2>3, <2>5
    <3>2. OneAck(a - 1)' /\ latch' # ACK
      BY <1>p, <2>1, <2>2, <3>1
    <3>3. left' = 47
      BY <1>s, <1>47, <2>1, <3>2
    <3>. QED BY <3>1, <3>2, <3>3 DEF Unanswered
  <2>. QED BY <2>4, <2>5
<1>46. CASE n \in {46, 45}
  <2>1. Head(todo).op = "read" /\ Takes
    BY <1>h, <1>t, <1>46 DEF TwoAt
  <2>2. NoAck /\ (n = 46 => obuf # <<>>) /\ (n = 45 => latch # ACK)
    BY <1>u, <1>46 DEF Unanswered
  <2>3. NoAck' /\ latch' # ACK
    BY <1>p, <1>46, <2>1, <2>2
  <2>4. left' \in {45, 44}
    BY <1>s, <1>46, <2>1 DEF Straight
  <2>. QED BY <2>3, <2>4 DEF Unanswered
<1>44. CASE n = 44
  <2>1. obuf' = obuf /\ scanning' = scanning /\ latch' = latch /\ left' = 43
    BY <1>h, <1>m, <1>s, <1>44 DEF TwoAt, Straight
  <2>2. NoAck' /\ latch' # ACK
    BY <1>u, <1>44, <2>1 DEF NoAck, Unanswered
  <2>. QED BY <2>1, <2>2 DEF Unanswered
<1>43. CASE n = 43
  <2>1. Head(todo).op = "ack" /\ Takes
    BY <1>h, <1>t, <1>43 DEF TwoAt
  <2>2. NoAck /\ latch # ACK
    BY <1>u, <1>43 DEF Unanswered
  <2>3. NoAck' /\ latch' # ACK
    BY <1>p, <2>1, <2>2
  <2>4. left' = 43
    BY <1>s, <1>43, <2>1, <2>3
  <2>. QED BY <2>3, <2>4 DEF Unanswered
<1>2. \/ n \in {62, 61, 60, 59, 58, 57, 56, 55, 54, 53}
      \/ n \in {52, 51, 50, 49, 48, 47, 46, 45, 44, 43}
  BY <1>1, <1>g DEF n
<1>. QED BY <1>2, <1>43, <1>44, <1>46, <1>47, <1>48, <1>49, <1>50, <1>51, <1>52, <1>55,
            <1>56, <1>57, <1>58, <1>59, <1>60, <1>61, <1>62

\* Every instruction on two ports, whatever it is answered.
LEMMA TwoPortsNext ==
    ASSUME Ps2Types, Ps2Types', TwoPorts, ps2_install, late \in Nat, late' = 0,
           reports' = reports
    PROVE  TwoPorts'
<1>. DEFINE n == left
            R(i) == IF i >= 6 THEN {}
                    ELSE IF i = 5 THEN {IRQ_KEYBOARD}
                    ELSE {IRQ_KEYBOARD, IRQ_MOUSE_PS2}
<1>1. On(Two) /\ fitted.dual /\ is_dual_device /\ routines = R(n)
  BY DEF TwoPorts
<1>2. todo # <<>> /\ n \in 1..66
  BY ZenonT(30), <1>1, Moves, TwoIs
<1>h. TwoAt(n)
  BY <1>1, <1>2, TwoHead
<1>s. /\ On(Two)' /\ left' \in {n, n - 1}
      /\ Head(todo).op \in Straight => left' = n - 1
  <2>0. /\ Head(todo).op \in Straight => OnTo(Two, n - 1)
        /\ Head(todo).op = "ack" => OnTo(Two, n - 1) \/ (On(Two)' /\ left' = n)
        /\ Head(todo).op = "reset" => OnTo(Two, n - 1) \/ (On(Two)' /\ left' = n)
    BY ZenonT(30), <1>1, Moves, TwoIs
  <2>1. OnTo(Two, n - 1) \/ (On(Two)' /\ left' = n)
    <3>1. Head(todo).op \in Straight \cup {"ack", "reset"}
      BY ONLY Zenon, <1>h, <1>2, TwoOps
    <3>. QED BY <2>0, <3>1
  <2>2. OnTo(Two, n - 1) => On(Two)' /\ left' = n - 1
    BY DEF OnTo
  <2>. QED BY <2>0, <2>1, <2>2
<1>e. /\ (Empty /\ obuf' = obuf) => Empty'
      /\ (Head(todo).op = "cmd" /\ arg \in {167, 174, 168}) => obuf' = obuf
      /\ Head(todo).op = "config" => obuf' = obuf
  BY Effects DEF Empty
<1>u. /\ fitted' = fitted /\ is_dual_device' = is_dual_device /\ keys' = keys
      /\ Head(todo).op # "kbd" => scanning' = scanning
      /\ Head(todo).op # "mouse" => streaming' = streaming
      /\ Head(todo).op \notin {"cmd", "config"} => config' = config
      /\ Head(todo).op = "cmd" => config' = Configured(arg)
      /\ Head(todo).op # "install" => routines' = routines
      /\ Head(todo).op = "install" => routines' = routines \cup {arg}
  <2>1. CASE Head(todo).op = "cmd"
    BY <2>1, CmdStep
  <2>2. CASE Head(todo).op = "config"
    BY <2>2, ConfigStep
  <2>3. CASE Head(todo).op = "kbd"
    BY <2>3, KbdStep
  <2>4. CASE Head(todo).op = "mouse"
    BY <2>4, MouseStep
  <2>5. CASE Head(todo).op \in {"read", "ack", "reset", "mread"}
    BY <2>5, PollStep
  <2>6. CASE Head(todo).op \in {"wheel", "install"}
    BY <2>6, DecisionStep
  <2>7. Head(todo).op \in {"cmd", "config", "kbd", "mouse", "read", "ack", "reset",
                           "mread", "wheel", "install"}
    BY ONLY Zenon, <1>h, <1>2, TwoOps
  <2>. QED BY <2>1, <2>2, <2>3, <2>4, <2>5, <2>6, <2>7
<1>w. /\ n = 66 => config = 20
      /\ n \in {65, 64, 63} => config = 52
      /\ n = 62 => config = 119
      /\ n = 61 => config = 103
      /\ n <= 60 => config = 71
      /\ n \in {66, 65, 63, 62} => Empty
      /\ n = 64 => Waits(52)
      /\ n = 63 => status = 52
      /\ (n = 61 /\ keys = 0) => Empty
      /\ n <= 3 => scanning
      /\ streaming <=> (n <= 1)
      /\ fitted.mouse = "none" => Unanswered
      /\ fitted.mouse # "none" /\ keys = 0 /\ reports = 0 => WaitingTwo
  BY DEF TwoPorts
<1>g. fitted.mouse = "none" => n >= 43
  BY <1>w DEF Unanswered
<1>v. 52 \in Bytes8
  BY DEF Bytes8
<1>3. routines' = R(left')
  <2>1. CASE n = 6
    BY <1>h, <1>s, <1>u, <1>1, <2>1 DEF TwoAt, Straight, IRQ_KEYBOARD
  <2>2. CASE n = 5
    BY <1>h, <1>s, <1>u, <1>1, <2>2 DEF TwoAt, Straight, IRQ_KEYBOARD, IRQ_MOUSE_PS2
  <2>3. CASE n \notin {5, 6}
    <3>1. Head(todo).op # "install"
      BY <1>h, <1>2, <2>3 DEF TwoAt
    <3>2. (n >= 7 /\ left' >= 6) \/ (n <= 4 /\ left' <= 4)
      BY <1>2, <1>s, <2>3
    <3>. QED BY <1>1, <1>2, <1>s, <1>u, <3>1, <3>2
  <2>. QED BY <2>1, <2>2, <2>3
<1>. HIDE DEF n, R
<1>4. left' <= 3 => scanning'
  <2>1. CASE n = 4
    <3>1. Head(todo).op = "kbd" /\ arg = 244
      BY <1>h, <2>1 DEF TwoAt
    <3>2. scanning' = Scans(244)
      BY <3>1, KbdStep
    <3>3. Scans(244) = TRUE
      BY Codes DEF Scans
    <3>. QED BY <3>2, <3>3
  <2>2. CASE n <= 3
    <3>1. n \in {1, 2, 3}
      BY <1>2, <2>2
    <3>2. Head(todo).op # "kbd"
      BY <1>h, <3>1 DEF TwoAt
    <3>3. scanning
      BY <1>w, <2>2
    <3>. QED BY <1>u, <3>2, <3>3
  <2>3. CASE n > 4
    BY <1>2, <1>s, <2>3
  <2>. QED BY <1>2, <2>1, <2>2, <2>3
<1>5. streaming' <=> (left' <= 1)
  <2>1. CASE n = 2
    <3>1. Head(todo).op = "mouse" /\ arg = 244 /\ fitted.mouse # "none" /\ left' = 1
      BY <1>h, <1>g, <1>s, <2>1 DEF TwoAt, Straight
    <3>2. streaming'
      BY <1>1, <3>1, MouseStep, Codes
    <3>. QED BY <3>1, <3>2
  <2>2. CASE n = 1
    <3>1. Head(todo).op = "ack"
      BY <1>h, <2>2 DEF TwoAt
    <3>2. streaming' /\ left' \in {0, 1}
      <4>1. streaming /\ streaming' = streaming
        <5>1. n <= 1
          BY <2>2
        <5>2. streaming
          BY <1>w, <5>1
        <5>. QED BY <1>u, <3>1, <5>2
      <4>2. left' \in {0, 1}
        BY <1>s, <2>2
      <4>. QED BY <4>1, <4>2
    <3>. QED BY <3>2
  <2>3. CASE n > 2
    <3>1. ~streaming /\ left' >= 2 /\ left' \in Int
      BY <1>2, <1>s, <1>w, <2>3
    <3>2. Head(todo).op = "mouse" => arg # 244
      BY <1>h, <1>2, <2>3 DEF TwoAt
    <3>3. ~streaming'
      <4>1. CASE Head(todo).op = "mouse"
        BY <3>1, <3>2, <4>1, MouseStep, Codes
      <4>. QED BY <1>u, <3>1, <4>1
    <3>. QED BY <3>1, <3>3
  <2>. QED BY <1>2, <2>1, <2>2, <2>3
<1>6. /\ left' = 66 => config' = 20
      /\ left' \in {65, 64, 63} => config' = 52
      /\ left' = 62 => config' = 119
      /\ left' = 61 => config' = 103
      /\ left' <= 60 => config' = 71
      /\ left' \in {66, 65, 63, 62} => Empty'
      /\ left' = 64 => Waits(52)'
      /\ left' = 63 => status' = 52
      /\ (left' = 61 /\ keys' = 0) => Empty'
  <2>1. CASE n = 66
    <3>1. Head(todo).op = "cmd" /\ arg = 167
      BY <1>h, <2>1 DEF TwoAt
    <3>2. config' = 52
      BY <1>1, <1>u, <1>w, <2>1, <3>1, Answered, Values
    <3>3. Empty' /\ left' = 65
      BY <1>e, <1>s, <1>w, <2>1, <3>1 DEF Straight
    <3>. QED BY <3>2, <3>3
  <2>2. CASE n = 65
    <3>1. Head(todo).op = "cmd" /\ arg = 32 /\ config = 52 /\ Empty
      BY <1>h, <1>w, <2>2 DEF TwoAt
    <3>2. config' = 52 /\ obuf' = obuf \o From(0, <<52>>)
      BY <3>1, CmdStep, Answered
    <3>3. Waits(52)'
      BY <1>v, <3>1, <3>2, OneReply DEF Waits
    <3>4. left' = 64
      BY <1>s, <2>2, <3>1 DEF Straight
    <3>. QED BY <3>2, <3>3, <3>4
  <2>3. CASE n = 64
    <3>1. Head(todo).op = "read" /\ config = 52 /\ Waits(52)
      BY <1>h, <1>w, <2>3 DEF TwoAt
    <3>2. Taken1 /\ status' = latch' /\ config' = 52
      BY <1>u, <3>1, PollStep
    <3>3. Empty' /\ status' = 52
      BY <1>v, <3>1, <3>2, OneReply
    <3>4. left' = 63
      BY <1>s, <2>3, <3>1 DEF Straight
    <3>. QED BY <3>2, <3>3, <3>4
  <2>4. CASE n = 63
    <3>1. Head(todo).op = "config" /\ arg = "final" /\ status = 52 /\ Empty
      BY <1>h, <1>w, <2>4 DEF TwoAt
    <3>2. config' = 119
      <4>1. config' = Enabled
        BY <3>1, ConfigStep
      <4>2. Enabled = With(With(With(52, 0), 6), 1)
        BY <1>1, <3>1 DEF Enabled
      <4>. QED BY <4>1, <4>2, Values
    <3>3. Empty' /\ left' = 62
      BY <1>e, <1>s, <2>4, <3>1 DEF Straight
    <3>. QED BY <3>2, <3>3
  <2>5. CASE n = 62
    <3>1. Head(todo).op = "cmd" /\ arg = 174 /\ config = 119 /\ Empty
      BY <1>h, <1>w, <2>5 DEF TwoAt
    <3>2. config' = 103
      BY <1>u, <3>1, Answered, Values
    <3>3. Empty' /\ left' = 61
      BY <1>e, <1>s, <2>5, <3>1 DEF Straight
    <3>. QED BY <3>2, <3>3
  <2>6. CASE n = 61
    <3>1. Head(todo).op = "cmd" /\ arg = 168 /\ config = 103
      BY <1>h, <1>w, <2>6 DEF TwoAt
    <3>2. config' = 71
      BY <1>1, <1>u, <3>1, Answered, Values
    <3>3. left' = 60
      BY <1>s, <2>6, <3>1 DEF Straight
    <3>. QED BY <3>2, <3>3
  <2>7. CASE n <= 60
    <3>1. config' = 71
      <4>1. /\ Head(todo).op # "config"
            /\ Head(todo).op = "cmd" => arg \in {171, 169}
        BY <1>h, <1>2, <2>7 DEF TwoAt
      <4>2. config = 71
        BY <1>w, <2>7
      <4>. QED BY <1>u, <4>1, <4>2, Answered
    <3>2. left' <= 60 /\ left' \in Int
      BY <1>2, <1>s, <2>7
    <3>. QED BY <3>1, <3>2
  <2>. QED BY <1>2, <2>1, <2>2, <2>3, <2>4, <2>5, <2>6, <2>7
<1>7. fitted'.mouse = "none" => Unanswered'
  <2>1. SUFFICES ASSUME fitted.mouse = "none" PROVE Unanswered'
    BY <1>u
  <2>2. CASE n <= 62
    <3>1. Unanswered /\ left <= 62 /\ (left = 62 => Empty)
      BY <1>w, <2>1, <2>2 DEF n
    <3>. QED BY <1>1, <2>1, <3>1, UnansweredNext
  <2>3. CASE n > 62
    <3>1. left' \in {62, 63, 64, 65, 66}
      BY <1>2, <1>s, <2>3
    <3>. QED BY <3>1 DEF Unanswered
  <2>. QED BY <1>2, <2>2, <2>3
<1>8. (fitted'.mouse # "none" /\ keys' = 0 /\ reports' = 0) => WaitingTwo'
  <2>1. SUFFICES ASSUME fitted.mouse # "none", keys = 0, reports = 0 PROVE WaitingTwo'
    BY <1>u
  <2>2. CASE n <= 61
    <3>1. WaitingTwo /\ left <= 61 /\ (left = 61 => Empty)
      BY <1>w, <2>1, <2>2 DEF n
    <3>. QED BY <1>1, <2>1, <3>1, WaitingTwoNext
  <2>3. CASE n > 61
    <3>1. left' \in {61, 62, 63, 64, 65, 66}
      BY <1>2, <1>s, <2>3
    <3>. QED BY <3>1 DEF WaitingTwo
  <2>. QED BY <1>2, <2>2, <2>3
<1>9. fitted'.dual /\ is_dual_device'
  BY <1>1, <1>u
<1>. QED BY <1>s, <1>3, <1>4, <1>5, <1>6, <1>7, <1>8, <1>9 DEF TwoPorts, R

\* Every instruction on one port, whatever it is answered.
LEMMA OnePortNext ==
    ASSUME Ps2Types, Ps2Types', OnePort, ps2_install, late \in Nat, late' = 0,
           reports' = reports
    PROVE  OnePort'
<1>. DEFINE n == left
            R(i) == IF i >= 3 THEN {} ELSE {IRQ_KEYBOARD}
<1>1. On(One) /\ ~fitted.dual /\ ~is_dual_device /\ ~streaming /\ routines = R(n)
  BY DEF OnePort
<1>2. todo # <<>> /\ n \in 1..19
  BY <1>1, Moves, OneIs
<1>h. OneAt(n)
  BY <1>1, <1>2, OneHead
<1>s. /\ On(One)' /\ left' \in {n, n - 1}
      /\ Head(todo).op \in Straight => left' = n - 1
  <2>0. /\ Head(todo).op \in Straight => OnTo(One, n - 1)
        /\ Head(todo).op = "ack" => OnTo(One, n - 1) \/ (On(One)' /\ left' = n)
        /\ Head(todo).op = "reset" => OnTo(One, n - 1) \/ (On(One)' /\ left' = n)
    BY <1>1, Moves, OneIs
  <2>1. OnTo(One, n - 1) \/ (On(One)' /\ left' = n)
    <3>1. Head(todo).op \in Straight \cup {"ack", "reset"}
      BY <1>h, <1>2 DEF OneAt, Straight
    <3>. QED BY <2>0, <3>1
  <2>2. OnTo(One, n - 1) => On(One)' /\ left' = n - 1
    BY DEF OnTo
  <2>. QED BY <2>0, <2>1, <2>2
<1>e. /\ (Empty /\ obuf' = obuf) => Empty'
      /\ (Head(todo).op = "cmd" /\ arg = 174) => obuf' = obuf
      /\ Head(todo).op = "config" => obuf' = obuf
  BY Effects DEF Empty
<1>u. /\ fitted' = fitted /\ is_dual_device' = is_dual_device /\ keys' = keys
      /\ streaming' = streaming
      /\ Head(todo).op # "kbd" => scanning' = scanning
      /\ Head(todo).op \notin {"cmd", "config"} => config' = config
      /\ Head(todo).op = "cmd" => config' = Configured(arg)
      /\ Head(todo).op # "install" => routines' = routines
      /\ Head(todo).op = "install" => routines' = routines \cup {arg}
  <2>1. CASE Head(todo).op = "cmd"
    BY <2>1, CmdStep
  <2>2. CASE Head(todo).op = "config"
    BY <2>2, ConfigStep
  <2>3. CASE Head(todo).op = "kbd"
    BY <2>3, KbdStep
  <2>4. CASE Head(todo).op \in {"read", "ack", "reset"}
    BY <2>4, PollStep
  <2>5. CASE Head(todo).op = "install"
    BY <2>5, DecisionStep
  <2>6. Head(todo).op \in {"cmd", "config", "kbd", "read", "ack", "reset", "install"}
    BY <1>h, <1>2 DEF OneAt
  <2>. QED BY <2>1, <2>2, <2>3, <2>4, <2>5, <2>6
<1>w. /\ n >= 15 => config = 20
      /\ n = 14 => config = 85
      /\ n <= 13 => config = 69
      /\ n \in {19, 17, 15, 14} => Empty
      /\ n = 18 => Waits(85)
      /\ n = 16 => Waits(20)
      /\ n = 15 => status = 20
      /\ n <= 1 => scanning
      /\ (keys = 0 /\ reports = 0) => WaitingOne
  BY <1>2 DEF OnePort
<1>v. 85 \in Bytes8 /\ 20 \in Bytes8
  BY DEF Bytes8
<1>3. routines' = R(left')
  <2>1. CASE n = 3
    BY <1>h, <1>s, <1>u, <1>1, <2>1 DEF OneAt, Straight, IRQ_KEYBOARD
  <2>2. CASE n # 3
    <3>1. Head(todo).op # "install"
      BY <1>h, <1>2, <2>2 DEF OneAt
    <3>2. (n >= 4 /\ left' >= 3) \/ (n <= 2 /\ left' <= 2)
      BY <1>2, <1>s, <2>2
    <3>. QED BY <1>1, <1>2, <1>s, <1>u, <3>1, <3>2
  <2>. QED BY <2>1, <2>2
<1>. HIDE DEF n, R
<1>4. left' <= 1 => scanning'
  <2>1. CASE n = 2
    <3>1. Head(todo).op = "kbd" /\ arg = 244
      BY <1>h, <2>1 DEF OneAt
    <3>2. scanning' = Scans(244)
      BY <3>1, KbdStep
    <3>3. Scans(244) = TRUE
      BY Codes DEF Scans
    <3>. QED BY <3>2, <3>3
  <2>2. CASE n = 1
    <3>1. Head(todo).op = "ack"
      BY <1>h, <2>2 DEF OneAt
    <3>2. n <= 1
      BY <2>2
    <3>3. scanning
      BY <1>w, <3>2
    <3>. QED BY <1>u, <3>1, <3>3
  <2>3. CASE n > 2
    BY <1>2, <1>s, <2>3
  <2>. QED BY <1>2, <2>1, <2>2, <2>3
<1>6. /\ left' >= 15 => config' = 20
      /\ left' = 14 => config' = 85
      /\ left' <= 13 => config' = 69
      /\ left' \in {19, 17, 15, 14} => Empty'
      /\ left' = 18 => Waits(85)'
      /\ left' = 16 => Waits(20)'
      /\ left' = 15 => status' = 20
  <2>1. CASE n = 19
    <3>1. Head(todo).op = "cmd" /\ arg = 170 /\ config = 20 /\ Empty
      BY <1>h, <1>w, <2>1 DEF OneAt
    <3>2. config' = 20 /\ obuf' = obuf \o From(0, <<85>>)
      BY <3>1, CmdStep, Answered
    <3>3. Waits(85)'
      BY <1>v, <3>1, <3>2, OneReply DEF Waits
    <3>4. left' = 18
      BY <1>s, <2>1, <3>1 DEF Straight
    <3>. QED BY <3>2, <3>3, <3>4
  <2>2. CASE n = 18
    <3>1. Head(todo).op = "read" /\ config = 20 /\ Waits(85)
      BY <1>h, <1>w, <2>2 DEF OneAt
    <3>2. Taken1 /\ config' = 20
      BY <1>u, <3>1, PollStep
    <3>3. Empty'
      BY <1>v, <3>1, <3>2, OneReply
    <3>4. left' = 17
      BY <1>s, <2>2, <3>1 DEF Straight
    <3>. QED BY <3>2, <3>3, <3>4
  <2>3. CASE n = 17
    <3>1. Head(todo).op = "cmd" /\ arg = 32 /\ config = 20 /\ Empty
      BY <1>h, <1>w, <2>3 DEF OneAt
    <3>2. config' = 20 /\ obuf' = obuf \o From(0, <<20>>)
      BY <3>1, CmdStep, Answered
    <3>3. Waits(20)'
      BY <1>v, <3>1, <3>2, OneReply DEF Waits
    <3>4. left' = 16
      BY <1>s, <2>3, <3>1 DEF Straight
    <3>. QED BY <3>2, <3>3, <3>4
  <2>4. CASE n = 16
    <3>1. Head(todo).op = "read" /\ config = 20 /\ Waits(20)
      BY <1>h, <1>w, <2>4 DEF OneAt
    <3>2. Taken1 /\ status' = latch' /\ config' = 20
      BY <1>u, <3>1, PollStep
    <3>3. Empty' /\ status' = 20
      BY <1>v, <3>1, <3>2, OneReply
    <3>4. left' = 15
      BY <1>s, <2>4, <3>1 DEF Straight
    <3>. QED BY <3>2, <3>3, <3>4
  <2>5. CASE n = 15
    <3>1. Head(todo).op = "config" /\ arg = "final" /\ status = 20 /\ Empty
      BY <1>h, <1>w, <2>5 DEF OneAt
    <3>2. config' = 85
      <4>1. config' = Enabled
        BY <3>1, ConfigStep
      <4>2. Enabled = With(With(20, 0), 6)
        BY <1>1, <3>1 DEF Enabled
      <4>. QED BY <4>1, <4>2, Values
    <3>3. Empty' /\ left' = 14
      BY <1>e, <1>s, <2>5, <3>1 DEF Straight
    <3>. QED BY <3>2, <3>3
  <2>6. CASE n = 14
    <3>1. Head(todo).op = "cmd" /\ arg = 174 /\ config = 85
      BY <1>h, <1>w, <2>6 DEF OneAt
    <3>2. config' = 69
      BY <1>u, <3>1, Answered, Values
    <3>3. left' = 13
      BY <1>s, <2>6, <3>1 DEF Straight
    <3>. QED BY <3>2, <3>3
  <2>7. CASE n <= 13
    <3>1. config' = 69
      <4>1. /\ Head(todo).op # "config"
            /\ Head(todo).op = "cmd" => arg = 171
        BY SMTT(20), <1>h, <1>2, <2>7 DEF OneAt
      <4>2. config = 69
        BY <1>w, <2>7
      <4>. QED BY <1>u, <4>1, <4>2, Answered
    <3>2. left' <= 13 /\ left' \in Int
      BY <1>2, <1>s, <2>7
    <3>. QED BY <3>1, <3>2
  <2>. QED BY <1>2, <2>1, <2>2, <2>3, <2>4, <2>5, <2>6, <2>7
<1>8. (keys' = 0 /\ reports' = 0) => WaitingOne'
  <2>1. SUFFICES ASSUME keys = 0, reports = 0 PROVE WaitingOne'
    BY <1>u
  <2>2. CASE n <= 14
    <3>1. WaitingOne /\ left <= 14 /\ (left = 14 => Empty)
      BY <1>w, <2>1, <2>2 DEF n
    <3>. QED BY <1>1, <3>1, WaitingOneNext
  <2>3. CASE n > 14
    <3>1. left' \in {14, 15, 16, 17, 18, 19}
      BY <1>2, <1>s, <2>3
    <3>. QED BY <3>1 DEF WaitingOne
  <2>. QED BY <1>2, <2>2, <2>3
<1>9. ~fitted'.dual /\ ~is_dual_device' /\ ~streaming'
  BY <1>1, <1>u
<1>10. config' = IF left' >= 15 THEN 20 ELSE IF left' = 14 THEN 85 ELSE 69
  <2>1. left' \in Int
    BY <1>2, <1>s
  <2>. QED BY <1>6, <2>1
<1>. QED BY <1>s, <1>3, <1>4, <1>6, <1>8, <1>9, <1>10 DEF OnePort, R

-----------------------------------------------------------------------------
(* A key typed meanwhile, and what follows ps2_install *)

\* A key reaches the buffer only with the first port's clock on.
LEMMA KeyTypedIs ==
    ASSUME KeyTyped, keys \in Nat
    PROVE  /\ todo # <<>> /\ scanning /\ ~Bit(config, 4) /\ keys' # 0
           /\ obuf' = obuf \o From(1, <<KeyByte>>)
           /\ UNCHANGED <<config, latch, fitted, scanning, streaming, todo,
                          status, is_dual_device, routines, late>>
BY DEF KeyTyped, mouse, locals

\* An ACK is waited for at kb.c:544 that no mouse sends: a key does not replace it.
LEMMA UnansweredKey ==
    ASSUME Ps2Types, On(Two), Unanswered, KeyTyped, keys \in Nat, KeyByte # ACK
    PROVE  Unanswered'
<1>1. /\ todo # <<>> /\ scanning /\ obuf' = obuf \o From(1, <<KeyByte>>)
      /\ todo' = todo /\ latch' = latch /\ scanning' = scanning
  BY KeyTypedIs
<1>2. left' = left /\ Head(todo').op = Head(todo).op
  BY <1>1 DEF left
<1>3. obuf \in Seq(Reply) /\ Len(obuf) \in Nat
  BY DEF Ps2Types
<1>. DEFINE s == <<KeyByte>>
<1>4. s \in Seq(Bytes8) /\ Len(s) = 1 /\ s[1] = KeyByte /\ 1 \in 0..2
  BY Ps2Assumption DEF Ps2Assumption, Bytes8
<1>5. obuf' = obuf \o From(1, s)
  BY <1>1
<1>. HIDE DEF s
<1>6. /\ Len(obuf') = Len(obuf) + 1
      /\ \A i \in 1..Len(obuf) : obuf'[i] = obuf[i]
      /\ obuf'[Len(obuf) + 1].b = KeyByte
  <2>1. /\ Len(obuf') = Len(obuf) + Len(s)
        /\ \A i \in 1..Len(obuf) : obuf'[i] = obuf[i]
        /\ \A i \in Len(obuf) + 1..Len(obuf) + Len(s) : obuf'[i].b = s[i - Len(obuf)]
    BY <1>3, <1>4, <1>5, Putting
  <2>2. /\ Len(obuf) + 1 \in Len(obuf) + 1..Len(obuf) + Len(s)
        /\ (Len(obuf) + 1) - Len(obuf) = 1
    BY <1>3, <1>4
  <2>. QED BY <1>4, <2>1, <2>2
<1>7. obuf' # <<>> /\ (Len(obuf) >= 2 => Len(obuf') >= 2)
  <2>1. Len(obuf') # 0 /\ (Len(obuf) >= 2 => Len(obuf') >= 2)
    BY <1>3, <1>6
  <2>. QED BY <2>1
<1>8. NoAck => NoAck'
  BY <1>3, <1>6 DEF NoAck
<1>9. \A a \in 1..Len(obuf) : OneAck(a) => OneAck(a)'
  BY <1>3, <1>6 DEF OneAck
<1>10. left \in Nat
  <2>1. left \in 1..66
    BY <1>1, OnHead, TwoIs
  <2>. QED BY <2>1
<1>11. left >= 43 /\ left \notin 52..59
  BY <1>1 DEF Unanswered
<1>12. left = 47 => \E a \in 1..Len(obuf') - 1 : OneAck(a)'
  <2>. SUFFICES ASSUME left = 47 PROVE \E a \in 1..Len(obuf') - 1 : OneAck(a)'
    OBVIOUS
  <2>1. PICK a \in 1..Len(obuf) - 1 : OneAck(a)
    BY DEF Unanswered
  <2>2. a \in 1..Len(obuf) /\ a \in 1..Len(obuf') - 1
    BY <1>3, <1>6, <2>1
  <2>. QED BY <1>9, <2>1, <2>2
<1>13. left = 51 => IF Head(todo).op = "reset" THEN OneAck(1)' /\ Len(obuf') >= 2
                    ELSE NoAck'
  <2>. SUFFICES ASSUME left = 51
                PROVE  IF Head(todo).op = "reset" THEN OneAck(1)' /\ Len(obuf') >= 2
                       ELSE NoAck'
    OBVIOUS
  <2>1. IF Head(todo).op = "reset" THEN OneAck(1) /\ Len(obuf) >= 2 ELSE NoAck
    BY DEF Unanswered
  <2>2. Len(obuf) >= 2 => 1 \in 1..Len(obuf)
    BY <1>3
  <2>. QED BY <1>7, <1>8, <1>9, <2>1, <2>2
<1>14. left \in {61, 60, 50, 49, 48, 46, 45, 44, 43} => NoAck'
  BY <1>8 DEF Unanswered
<1>15. left = 49 => Head(todo').op = "reset"
  BY <1>2 DEF Unanswered
<1>16. left \in {50, 49, 48, 45, 44, 43} => latch' # ACK
  BY <1>1 DEF Unanswered
<1>17. left # 59 /\ left \notin {58, 57, 56, 54, 52} /\ left \notin {55, 53}
  BY <1>11
<1>18. ACK' = ACK
  BY DEF ACK
<1>. QED BY SMTT(20), <1>2, <1>7, <1>11, <1>12, <1>13, <1>14, <1>15, <1>16, <1>17, <1>18
        DEF Unanswered

\* A key typed meanwhile leaves each of the four stretches where it is.
LEMMA PortsKey ==
    ASSUME Ps2Types, Probing \/ Deciding \/ OnePort \/ TwoPorts, KeyTyped,
           keys \in Nat, KeyByte # ACK
    PROVE  (Probing \/ Deciding \/ OnePort \/ TwoPorts)'
<1>1. /\ todo # <<>> /\ ~Bit(config, 4) /\ keys' # 0
      /\ UNCHANGED <<config, latch, fitted, scanning, streaming, todo,
                     status, is_dual_device, routines>>
  BY KeyTypedIs
<1>2. /\ config # 20 /\ config # 52 /\ config # 87 /\ config # 119 /\ config # 85
  BY <1>1, Values
<1>3. left' = left
  BY <1>1 DEF left
<1>4. CASE Probing
  <2>1. On(Probe) /\ left \in 1..9
    BY <1>1, <1>4, OnHead, ProbeIs DEF Probing
  <2>2. left = 9
    BY <1>2, <1>4, <2>1 DEF Probing
  <2>3. On(Probe)'
    BY <1>1, <2>1, OnSame
  <2>. QED BY <1>1, <1>3, <1>4, <2>2, <2>3 DEF Probing
<1>5. CASE Deciding
  BY <1>2, <1>5 DEF Deciding
<1>6. CASE OnePort
  <2>1. On(One) /\ left \in 1..19
    BY <1>1, <1>6, OnHead, OneIs DEF OnePort
  <2>2. left <= 13
    BY <1>2, <1>6, <2>1 DEF OnePort
  <2>3. On(One)'
    BY <1>1, <2>1, OnSame
  <2>4. left' \notin {19, 17, 15, 14} /\ left' # 18 /\ left' # 16 /\ left' # 15
    BY <1>3, <2>1, <2>2
  <2>5. IRQ_KEYBOARD' = IRQ_KEYBOARD
    BY DEF IRQ_KEYBOARD
  <2>. QED BY <1>1, <1>3, <1>6, <2>3, <2>4, <2>5 DEF OnePort
<1>7. CASE TwoPorts
  <2>1. On(Two) /\ left \in 1..66
    BY ZenonT(30), <1>1, <1>7, OnHead, TwoIs DEF TwoPorts
  <2>2. left <= 61
    BY <1>2, <1>7, <2>1 DEF TwoPorts
  <2>3. On(Two)'
    BY <1>1, <2>1, OnSame
  <2>4. left' \notin {66, 65, 63, 62} /\ left' # 64 /\ left' # 63
    BY <1>3, <2>1, <2>2
  <2>5. fitted.mouse = "none" => Unanswered'
    BY <1>7, <2>1, UnansweredKey DEF TwoPorts
  <2>. QED BY <1>1, <1>3, <1>7, <2>3, <2>4, <2>5 DEF TwoPorts
<1>. QED BY <1>4, <1>5, <1>6, <1>7

\* Nothing is left to execute: one port, or two and a mouse on the second.
LEMMA Settled ==
    ASSUME Probing \/ Deciding \/ OnePort \/ TwoPorts, todo = <<>>
    PROVE  left = 0 /\ (OnePort \/ (TwoPorts /\ fitted.mouse # "none"))
<1>1. left = 0
  BY DEF left
<1>2. ~Probing /\ ~Deciding
  BY <1>1 DEF Probing, Deciding
<1>3. ASSUME TwoPorts PROVE fitted.mouse # "none"
  BY <1>1, <1>3 DEF TwoPorts, Unanswered
<1>. QED BY <1>1, <1>2, <1>3

\* Interrupts take what is in the buffer and reports fill it; the ports stay.
LEMMA PortsLater ==
    ASSUME Probing \/ Deciding \/ OnePort \/ TwoPorts, todo = <<>>,
           UNCHANGED <<config, fitted, scanning, streaming, todo, is_dual_device,
                       routines, keys>>,
           (keys = 0 /\ reports = 0 /\ obuf = <<>>)
           => (reports' # 0 \/ obuf' = <<>>),
           reports # 0 => reports' # 0
    PROVE  (OnePort \/ TwoPorts)'
<1>1. left = 0 /\ left' = 0 /\ (OnePort \/ (TwoPorts /\ fitted.mouse # "none"))
  BY Settled DEF left
<1>2. \A i \in 1..66 : left' # i
  BY <1>1
<1>3. CASE OnePort
  <2>1. (keys = 0 /\ reports = 0) => Empty
    BY <1>1, <1>3 DEF OnePort, WaitingOne
  <2>2. (keys' = 0 /\ reports' = 0) => Empty'
    BY <2>1 DEF Empty
  <2>3. (keys' = 0 /\ reports' = 0) => WaitingOne'
    BY <1>1, <2>2 DEF WaitingOne
  <2>4. On(One)' /\ IRQ_KEYBOARD' = IRQ_KEYBOARD
    BY <1>3, OnSame DEF OnePort, IRQ_KEYBOARD
  <2>. QED BY <1>1, <1>3, <2>3, <2>4 DEF OnePort
<1>4. CASE TwoPorts /\ fitted.mouse # "none"
  <2>1. (keys = 0 /\ reports = 0) => Empty
    BY <1>1, <1>4 DEF TwoPorts, WaitingTwo
  <2>2. (keys' = 0 /\ reports' = 0) => Empty'
    BY <2>1 DEF Empty
  <2>3. (keys' = 0 /\ reports' = 0) => WaitingTwo'
    BY <1>1, <2>2 DEF WaitingTwo
  <2>4. /\ On(Two)' /\ IRQ_KEYBOARD' = IRQ_KEYBOARD
        /\ IRQ_MOUSE_PS2' = IRQ_MOUSE_PS2
    BY <1>4, OnSame DEF TwoPorts, IRQ_KEYBOARD, IRQ_MOUSE_PS2
  <2>. QED BY <1>1, <1>4, <2>3, <2>4 DEF TwoPorts
<1>. QED BY <1>1, <1>3, <1>4

\* Replies given up and keys are only counted; the mouse streams or does not.
Counts == late \in Nat /\ keys \in Nat /\ streaming \in BOOLEAN

LEMMA InstructionCounts ==
    ASSUME Counts, ps2_install
    PROVE  Counts' /\ (late' = 0 => late = 0)
<1>1. ASSUME Arrives \/ GivesUp PROVE late' \in {late, late + 1}
  BY <1>1 DEF Arrives, GivesUp
<1>2. CASE Command \/ WriteConfig \/ SendKeyboard \/ Drain \/ GuessDual \/ Confirm
           \/ TryWheel \/ Install
  <2>1. UNCHANGED <<late, keys, streaming>>
    BY <1>2 DEF Command, WriteConfig, SendKeyboard, Drain, GuessDual, Confirm, TryWheel,
                Install, Decide, mouse, locals
  <2>. QED BY <2>1 DEF Counts
<1>3. CASE SendMouse
  <2>1. /\ UNCHANGED <<late, keys>>
        /\ \/ UNCHANGED streaming
           \/ streaming' = (\/ arg = ENABLE_STREAMING
                            \/ streaming /\ arg \notin {DISABLE_STREAMING, RESET})
    BY <1>3 DEF SendMouse, mouse, locals
  <2>2. streaming' \in BOOLEAN
    BY <2>1, Zenon DEF Counts
  <2>. QED BY <2>1, <2>2 DEF Counts
<1>4. CASE ReadByte \/ AwaitAck \/ ReadReset \/ mouse_read
  <2>1. UNCHANGED <<keys, streaming>> /\ (Arrives \/ GivesUp)
    BY <1>4 DEF ReadByte, AwaitAck, ReadReset, mouse_read, Inb, mouse, locals
  <2>. QED BY <1>1, <2>1 DEF Counts
<1>. QED BY <1>2, <1>3, <1>4 DEF ps2_install

\* What is left of ps2_install, for the run's constants and any others.
BringUpInv == Counts /\ PortsInv

LEMMA BringUpInit == PointerInit => BringUpInv
<1>. SUFFICES ASSUME PointerInit PROVE BringUpInv
  OBVIOUS
<1>1. /\ todo = Probe /\ config = 71 /\ routines = {} /\ streaming = FALSE
      /\ keys = 0 /\ late = 0
  BY Codes DEF PointerInit, Ps2Init
<1>2. /\ todo \in Seq(Instr) /\ Len(todo) = 9 /\ Len(Probe) = 9
  BY <1>1, ProbeIs DEF Code
<1>3. On(Probe) /\ left = 9
  <2>1. \A i \in 2..Len(todo) : Len(Probe) - Len(todo) + i = i
    BY <1>2
  <2>2. todo # <<>> => Stands(todo[1], Line(Probe, left))
    BY <1>1, <1>2 DEF Stands, Line, left
  <2>. QED BY <1>1, <1>2, <2>1, <2>2 DEF On, left
<1>4. Probing
  BY <1>1, <1>3 DEF Probing
<1>. QED BY <1>1, <1>4 DEF BringUpInv, Counts, PortsInv

\* The three dummy reads (kb.c:358) empty the controller.
Drained == (late = 0 /\ todo = Probe) => Len(obuf) <= 3

LEMMA BringUpNext ==
    ASSUME Ps2Types, Ps2Types', TrackInv, BringUpInv, Drained, KeyByte # ACK,
           [Next]_vars
    PROVE  BringUpInv'
<1>. DEFINE P == Probing \/ Deciding \/ OnePort \/ TwoPorts
<1>0. /\ Ps2Types /\ Ps2Types' /\ reports \in Nat /\ late \in Nat /\ keys \in Nat
      /\ Counts /\ (late = 0 => P)
  BY DEF TrackInv, BringUpInv, Counts, PortsInv
<1>1. CASE ps2_install /\ UNCHANGED history
  <2>1. Counts' /\ (late' = 0 => late = 0)
    BY <1>0, <1>1, InstructionCounts
  <2>2. ASSUME late' = 0 PROVE P'
    <3>1. P /\ reports' = reports
      BY <1>0, <1>1, <2>1, <2>2 DEF history
    <3>2. CASE Probing
      BY <1>0, <1>1, <2>1, <2>2, <3>2, ProbingNext DEF Drained
    <3>3. CASE Deciding
      BY <1>0, <1>1, <2>2, <3>3, DecidingNext
    <3>4. CASE OnePort
      BY <1>0, <1>1, <2>2, <3>1, <3>4, OnePortNext
    <3>5. CASE TwoPorts
      BY <1>0, <1>1, <2>2, <3>1, <3>5, TwoPortsNext
    <3>. QED BY <3>1, <3>2, <3>3, <3>4, <3>5
  <2>. QED BY <2>1, <2>2 DEF BringUpInv, PortsInv
<1>2. CASE KeyTyped
  <2>1. late' = late /\ keys' = keys + 1 /\ streaming' = streaming
    BY <1>2 DEF KeyTyped, mouse
  <2>2. Counts'
    BY <1>0, <2>1 DEF Counts
  <2>3. ASSUME late' = 0 PROVE P'
    BY <1>0, <1>2, <2>1, <2>3, PortsKey
  <2>. QED BY <2>2, <2>3 DEF BringUpInv, PortsInv
<1>3. ASSUME UNCHANGED <<config, fitted, scanning, streaming, todo, is_dual_device,
                         routines, keys, late>>,
             Installed,
             (keys = 0 /\ reports = 0 /\ obuf = <<>>) => (reports' # 0 \/ obuf' = <<>>),
             reports # 0 => reports' # 0
      PROVE  BringUpInv'
  <2>1. Counts'
    BY <1>0, <1>3 DEF Counts
  <2>2. ASSUME late' = 0 PROVE P'
    <3>1. P /\ todo = <<>>
      BY <1>0, <1>3, <2>2 DEF Installed
    <3>. QED BY <1>3, <3>1, PortsLater
  <2>. QED BY <2>1, <2>2 DEF BringUpInv, PortsInv
<1>4. CASE Compare \/ Take \/ Draw
  <2>1. Installed /\ UNCHANGED <<ps2vars, reports>>
    BY <1>4, LoopStep
  <2>. QED BY <1>3, <2>1 DEF ps2vars, controller, mouse, locals
<1>5. CASE Interrupt \/ Lose
  <2>1. /\ Installed /\ obuf # <<>> /\ reports' = reports
        /\ UNCHANGED <<config, fitted, scanning, streaming, todo, is_dual_device,
                       routines, keys, late>>
    BY <1>5 DEF Interrupt, Lose, mouse, locals
  <2>. QED BY <1>3, <2>1
<1>6. ASSUME NEW m \in Movements, Report(m) PROVE BringUpInv'
  <2>1. /\ Installed /\ reports' = reports + 1
        /\ UNCHANGED <<config, fitted, scanning, streaming, todo, is_dual_device,
                       routines, keys, late>>
    BY <1>6 DEF Report, mouse, locals
  <2>2. reports' # 0
    BY <1>0, <2>1
  <2>. QED BY <1>3, <2>1, <2>2
<1>7. CASE UNCHANGED vars
  <2>1. UNCHANGED <<ps2vars, reports>>
    BY <1>7 DEF vars, history
  <2>2. UNCHANGED <<config, obuf, fitted, scanning, streaming, todo, is_dual_device,
                    routines, keys, late, latch, status, reports>>
    BY <2>1 DEF ps2vars, controller, mouse, locals
  <2>3. ASSUME late' = 0 PROVE P'
    <3>1. /\ Probing => Probing'
          /\ Deciding => Deciding'
          /\ OnePort => OnePort'
          /\ TwoPorts => TwoPorts'
      <4>. USE <2>2 DEF On, left, Waits, Empty
      <4>1. Probing => Probing'
        BY DEF Probing
      <4>2. Deciding => Deciding'
        BY DEF Deciding
      <4>3. OnePort => OnePort'
        BY DEF OnePort, WaitingOne, Holds, IRQ_KEYBOARD, ACK
      <4>4. TwoPorts => TwoPorts'
        BY DEF TwoPorts, WaitingTwo, Unanswered, Holds, NoAck, OneAck, IRQ_KEYBOARD,
               IRQ_MOUSE_PS2, ACK
      <4>. QED BY <4>1, <4>2, <4>3, <4>4
    <3>. QED BY <1>0, <2>2, <2>3, <3>1
  <2>. QED BY <1>0, <2>2, <2>3 DEF BringUpInv, PortsInv, Counts
<1>8. BringUp => (ps2_install /\ UNCHANGED history) \/ KeyTyped
  BY DEF BringUp
<1>. QED BY <1>1, <1>2, <1>4, <1>5, <1>6, <1>7, <1>8 DEF Next

\* The first instruction is executed once.
LEMMA ProbingMoves ==
    ASSUME Probing, ps2_install, late \in Nat, late' = 0
    PROVE  todo' # Probe
<1>. DEFINE n == left
<1>0. /\ todo # <<>> /\ n \in 1..9 /\ Stands(Head(todo), Line(Probe, n)) /\ On(Probe)
      /\ Len(Probe) = 9 /\ Len(Confirming) = 6 /\ Len(One) = 19
  BY ZenonT(30), Executes, OnHead, ProbeIs, ConfirmingIs, OneIs DEF Probing, Code
<1>1. todo' = Probe => left' = 9
  BY <1>0 DEF left
<1>9. ASSUME NEW c, Len(c) # 9, todo' = c PROVE todo' # Probe
  BY <1>0, <1>9
<1>2. ASSUME todo' = Tail(todo) PROVE left' # 9
  <2>1. left' = n - 1
    BY <1>0, <1>2, OnDone, ProbeIs
  <2>. QED BY <1>0, <2>1
<1>. HIDE DEF n
<1>3. CASE n \in {9, 8, 6, 3}
  <2>1. Head(todo).op = "cmd"
    BY <1>0, <1>3, ProbeIs, HeadIs
  <2>. QED BY <1>1, <1>2, <2>1, CmdStep
<1>4. CASE n \in {5, 2}
  <2>1. Head(todo).op = "read"
    BY <1>0, <1>4, ProbeIs, HeadIs
  <2>2. todo' = Tail(todo)
    BY <2>1, PollStep
  <2>. QED BY <1>1, <1>2, <2>2
<1>5. CASE n = 4
  <2>1. Head(todo).op = "config"
    BY <1>0, <1>5, ProbeIs, HeadIs
  <2>. QED BY <1>1, <1>2, <2>1, ConfigStep
<1>6. CASE n = 7
  <2>1. Head(todo).op = "drain"
    BY <1>0, <1>6, ProbeIs, HeadIs
  <2>2. todo' = Tail(todo) \/ todo' = <<I("drain", arg - 1)>> \o Tail(todo)
    BY <2>1, DrainStep
  <2>3. Len(Tail(todo)) = 6 /\ Tail(todo) \in Seq(Instr)
    <3>1. todo \in Seq(Instr) /\ Len(todo) = 7
      BY <1>0, <1>6 DEF On, left, n
    <3>. QED BY <1>0, <3>1, HeadTailProperties
  <2>4. Len(<<I("drain", arg - 1)>> \o Tail(todo)) = 7
    <3>. DEFINE x == I("drain", arg - 1)
    <3>1. <<x>> \in Seq({x} \cup Instr) /\ Len(<<x>>) = 1
      OBVIOUS
    <3>2. Tail(todo) \in Seq({x} \cup Instr)
      BY <2>3
    <3>. HIDE DEF x
    <3>3. Len(<<x>> \o Tail(todo)) = Len(<<x>>) + Len(Tail(todo))
      BY <3>1, <3>2
    <3>4. Len(<<x>> \o Tail(todo)) = 7
      BY <2>3, <3>1, <3>3
    <3>. QED BY <3>4 DEF x
  <2>5. 6 # 9 /\ 7 # 9
    OBVIOUS
  <2>6. Len(Tail(todo)) # 9 /\ Len(<<I("drain", arg - 1)>> \o Tail(todo)) # 9
    BY <2>3, <2>4, <2>5, Zenon
  <2>7. CASE todo' = Tail(todo)
    BY <1>9, <2>6, <2>7, Zenon
  <2>8. CASE todo' = <<I("drain", arg - 1)>> \o Tail(todo)
    BY <1>9, <2>6, <2>8, Zenon
  <2>. QED BY <2>2, <2>7, <2>8, Zenon
<1>7. CASE n = 1
  <2>1. Head(todo).op = "guess"
    BY <1>0, <1>7, ProbeIs, HeadIs
  <2>2. todo' \in {Confirming, One}
    BY <2>1, DecisionStep
  <2>3. Len(Confirming) # 9 /\ Len(One) # 9
    BY <1>0
  <2>. QED BY <1>9, <2>2, <2>3, Zenon
<1>8. n \in {1, 2, 3, 4, 5, 6, 7, 8, 9}
  BY <1>0
<1>. QED BY <1>3, <1>4, <1>5, <1>6, <1>7, <1>8

\* The code before the first decision is not run again.
LEMMA BehindProbe ==
    /\ Deciding \/ OnePort \/ TwoPorts => todo # Probe
    /\ (Deciding \/ OnePort \/ TwoPorts)' => todo' # Probe
<1>1. /\ Len(Probe) = 9 /\ Len(Confirming) = 6 /\ Len(One) = 19 /\ Len(Two) = 66
      /\ Probe[9] = I("guess", 0) /\ One[19] = I("ack", 0) /\ Two[66] = I("ack", 0)
  <2>1. /\ Code(Probe, 9) /\ Code(Confirming, 6) /\ Code(One, 19) /\ Code(Two, 66)
        /\ Line(Probe, 1) = I("guess", 0) /\ Line(One, 1) = I("ack", 0)
        /\ Line(Two, 1) = I("ack", 0)
    BY ProbeIs, ConfirmingIs, OneIs, TwoIs
  <2>. QED BY <2>1 DEF Code, Line
<1>2. I("guess", 0) # I("ack", 0)
  BY DEF I
<1>3. 9 \in 2..9 /\ 19 - 9 + 9 = 19 /\ 66 - 9 + 9 = 66
  OBVIOUS
<1>4. /\ Deciding => Len(todo) <= 6
      /\ OnePort => \A i \in 2..Len(todo) : todo[i] = One[19 - Len(todo) + i]
      /\ TwoPorts => \A i \in 2..Len(todo) : todo[i] = Two[66 - Len(todo) + i]
  BY <1>1 DEF Deciding, OnePort, TwoPorts, On
<1>5. /\ Deciding' => Len(todo') <= 6
      /\ OnePort' => \A i \in 2..Len(todo') : todo'[i] = One[19 - Len(todo') + i]
      /\ TwoPorts' => \A i \in 2..Len(todo') : todo'[i] = Two[66 - Len(todo') + i]
  BY <1>1 DEF Deciding, OnePort, TwoPorts, On
<1>6. todo = Probe => ~Deciding /\ ~OnePort /\ ~TwoPorts
  <2>. SUFFICES ASSUME todo = Probe PROVE ~Deciding /\ ~OnePort /\ ~TwoPorts
    OBVIOUS
  <2>1. Len(todo) = 9 /\ todo[9] = I("guess", 0)
    BY <1>1
  <2>2. OnePort => todo[9] = I("ack", 0)
    BY <1>1, <1>3, <1>4, <2>1
  <2>3. TwoPorts => todo[9] = I("ack", 0)
    BY <1>1, <1>3, <1>4, <2>1
  <2>. QED BY <1>2, <1>4, <2>1, <2>2, <2>3
<1>7. todo' = Probe => ~Deciding' /\ ~OnePort' /\ ~TwoPorts'
  <2>. SUFFICES ASSUME todo' = Probe PROVE ~Deciding' /\ ~OnePort' /\ ~TwoPorts'
    OBVIOUS
  <2>1. Len(todo') = 9 /\ todo'[9] = I("guess", 0)
    BY <1>1
  <2>2. OnePort' => todo'[9] = I("ack", 0)
    BY <1>1, <1>3, <1>5, <2>1
  <2>3. TwoPorts' => todo'[9] = I("ack", 0)
    BY <1>1, <1>3, <1>5, <2>1
  <2>. QED BY <1>2, <1>5, <2>1, <2>2, <2>3
<1>. QED BY <1>6, <1>7

\* At the start the controller holds the noise and the keys typed by then.
FewBytes == /\ keys <= MaxKeys
            /\ (late = 0 /\ todo = Probe)
               => \E s \in Noise : Len(obuf) <= Len(s) + keys

LEMMA FewInit == PointerInit => FewBytes
<1>. SUFFICES ASSUME PointerInit PROVE FewBytes
  OBVIOUS
<1>1. keys = 0 /\ MaxKeys \in Nat /\ Noise \subseteq Seq(0..255)
  BY Ps2Assumption DEF PointerInit, Ps2Init, Ps2Assumption
<1>2. PICK s \in Noise : obuf = [i \in DOMAIN s |-> [from |-> 1, b |-> s[i]]]
  BY DEF PointerInit, Ps2Init
<1>3. Len(obuf) = Len(s) /\ Len(s) \in Nat
  BY <1>1, <1>2
<1>. QED BY <1>1, <1>3 DEF FewBytes

LEMMA FewNext ==
    ASSUME Ps2Types, Ps2Types', BringUpInv, BringUpInv', FewBytes, [Next]_vars
    PROVE  FewBytes'
<1>0. /\ keys \in Nat /\ late \in Nat /\ obuf \in Seq(Reply) /\ MaxKeys \in Nat
      /\ Noise \subseteq Seq(0..255)
  BY Ps2Assumption DEF BringUpInv, Counts, Ps2Types, Ps2Assumption
<1>1. CASE ps2_install /\ UNCHANGED history
  <2>1. keys' = keys
    BY <1>1 DEF ps2_install, Command, WriteConfig, SendKeyboard, SendMouse, ReadByte,
       AwaitAck, ReadReset, Drain, mouse_read, GuessDual, Confirm, TryWheel, Install,
       Inb, Decide
  <2>2. ASSUME late' = 0 PROVE todo' # Probe
    <3>1. late = 0
      BY <1>1, <2>2, InstructionCounts DEF BringUpInv
    <3>2. /\ Probing \/ Deciding \/ OnePort \/ TwoPorts
          /\ (Probing \/ Deciding \/ OnePort \/ TwoPorts)'
      BY <2>2, <3>1 DEF BringUpInv, PortsInv
    <3>3. CASE Probing
      BY <1>0, <1>1, <2>2, <3>3, ProbingMoves
    <3>4. CASE Deciding
      <4>1. Deciding' \/ TwoPorts'
        BY <1>0, <1>1, <2>2, <3>4, DecidingNext
      <4>. QED BY <4>1, BehindProbe
    <3>5. CASE OnePort
      <4>1. OnePort'
        BY <1>0, <1>1, <2>2, <3>5, OnePortNext DEF history
      <4>. QED BY <4>1, BehindProbe
    <3>6. CASE TwoPorts
      <4>1. TwoPorts'
        BY <1>0, <1>1, <2>2, <3>6, TwoPortsNext DEF history
      <4>. QED BY <4>1, BehindProbe
    <3>. QED BY <3>2, <3>3, <3>4, <3>5, <3>6
  <2>. QED BY <2>1, <2>2, <1>0 DEF FewBytes
<1>2. CASE KeyTyped
  <2>1. /\ keys' = keys + 1 /\ keys' <= MaxKeys /\ todo' = todo /\ late' = late
        /\ obuf' = obuf \o From(1, <<KeyByte>>)
    BY <1>0, <1>2 DEF KeyTyped
  <2>2. Len(obuf') = Len(obuf) + 1
    <3>. DEFINE s == <<KeyByte>>
    <3>1. s \in Seq(Bytes8) /\ Len(s) = 1 /\ 1 \in 0..2
      BY Ps2Assumption DEF Ps2Assumption, Bytes8
    <3>2. obuf' = obuf \o From(1, s)
      BY <2>1
    <3>. HIDE DEF s
    <3>3. Len(obuf') = Len(obuf) + Len(s)
      BY <1>0, <3>1, <3>2, Putting
    <3>. QED BY <3>1, <3>3
  <2>3. ASSUME late' = 0, todo' = Probe
        PROVE  \E s \in Noise : Len(obuf') <= Len(s) + keys'
    <3>1. PICK s \in Noise : Len(obuf) <= Len(s) + keys
      BY <2>1, <2>3 DEF FewBytes
    <3>2. Len(s) \in Nat /\ Len(obuf) \in Nat
      BY <1>0, <3>1
    <3>3. Len(obuf') <= Len(s) + keys'
      BY <1>0, <2>1, <2>2, <3>1, <3>2
    <3>. QED BY <3>3
  <2>. QED BY <2>1, <2>3 DEF FewBytes
<1>3. ASSUME todo' = todo, todo = <<>> \/ obuf' = obuf, UNCHANGED <<keys, late>>
      PROVE  FewBytes'
  <2>1. Len(Probe) = 9
    BY ProbeIs DEF Code
  <2>2. <<>> # Probe
    BY <2>1
  <2>. QED BY <1>3, <2>2 DEF FewBytes
<1>4. CASE Compare \/ Take \/ Draw
  <2>1. Installed /\ UNCHANGED ps2vars
    BY <1>4, LoopStep
  <2>. QED BY <1>3, <2>1 DEF ps2vars, controller
<1>5. CASE Interrupt \/ Lose \/ \E m \in Movements : Report(m)
  <2>1. todo = <<>> /\ UNCHANGED <<todo, keys, late>>
    BY <1>5 DEF Interrupt, Lose, Report, Installed
  <2>. QED BY <1>3, <2>1
<1>6. CASE UNCHANGED vars
  BY <1>3, <1>6 DEF vars, ps2vars, controller
<1>7. BringUp => (ps2_install /\ UNCHANGED history) \/ KeyTyped
  BY DEF BringUp
<1>. QED BY <1>1, <1>2, <1>4, <1>5, <1>6, <1>7 DEF Next
-----------------------------------------------------------------------------
(* Theorems *)

IInv == /\ Ps2Types /\ MouseTypes /\ SquareInv
        /\ StepInv /\ StreamInv /\ TrackInv

THEOREM Inductive == Spec => []IInv
<1>1. PointerInit => IInv
  BY InitTypes, SquareInit, StepInit, StreamInit, TrackInit DEF IInv
<1>2. IInv /\ [Next]_vars => IInv'
  BY NextTypes, SquareNext, StepNext, StreamNext, TrackNext DEF IInv
<1>. QED BY <1>1, <1>2, PTL DEF Spec

\* Whatever the controller, the devices and the wire deliver, every register and
\* index keeps its type; mouse_cycle never leaves the packet (kb.c:262).
THEOREM TypeCorrect == Spec => []PointerTypeOK
<1>1. IInv => PointerTypeOK
  <2>. SUFFICES ASSUME IInv PROVE PointerTypeOK
    OBVIOUS
  <2>1. Ps2Types /\ MouseTypes /\ Last(mouse_mode) \in 2..3
    BY DEF IInv, Last
  <2>2. \A i \in DOMAIN obuf : obuf[i].b \in 0..255
    <3>1. obuf \in Seq(Reply)
      BY <2>1 DEF Ps2Types
    <3>2. \A i \in DOMAIN obuf : obuf[i] \in Reply
      BY <3>1
    <3>. QED BY <3>2 DEF Reply, Bytes8
  <2>. QED BY <2>1, <2>2 DEF Ps2Types, MouseTypes, Bytes8, PointerTypeOK
<1>. QED BY Inductive, <1>1, PTL

\* The square is drawn where the pointer was in the round, x and y each at a time of
\* its own, whatever IRQ 12 wrote between CLAMP's readings, and its pixels go no further
\* than those of a square at the bound unless the pointer crossed the bound in that
\* round, for screens, fields and squares of any size (main.c:877).
THEOREM SquarePlaced == Spec => []SquareWherePointerWas
<1>1. ASSUME IInv PROVE SquareWherePointerWas
  <2>1. SquareInv
    BY <1>1 DEF IInv
  <2>2. ASSUME pc = "x", ~Crossed, NEW o \in pixels
        PROVE  o <= (ScreenH + Side - 1) * ScreenW + ScreenW + Side - 1
    <3>1. Placed(1) /\ Placed(2) /\ pixels = fillrect(square)
      BY <2>1, <2>2 DEF SquareInv
    <3>2. PICK x \in Nat, y \in Nat : square = <<x, y>>
      BY <2>1 DEF SquareInv
    <3>3. ScreenW \in Nat /\ ScreenH \in Nat /\ seen \subseteq Nat \X Nat
      BY <2>1, PointerAssumption DEF PointerAssumption, SquareInv
    <3>4. square[1] \in Nat /\ square[2] \in Nat
      BY <3>2
    <3>5. Bound(1) \in Nat /\ Bound(2) \in Nat
      BY <3>3, BoundsAre
    <3>6. square[1] <= Bound(1) /\ square[2] <= Bound(2)
      BY <2>2, <3>1, <3>3, <3>4, <3>5, PlacedWithin
    <3>7. x <= ScreenW /\ y <= ScreenH
      BY <3>2, <3>6, BoundsAre
    <3>8. o \in fillrect(<<x, y>>)
      BY <2>2, <3>1, <3>2
    <3>. QED BY <3>7, <3>8, FillWithin
  <2>. QED BY <2>1, <2>2 DEF SquareInv, SquareWherePointerWas
<1>. QED BY Inductive, <1>1, PTL

\* No byte of the mouse comes before there is a routine for it: ps2_install lets it
\* send last, and only behind irq_install_handler (kb.c:640).
THEOREM SendsToItsRoutine == Spec => [](streaming => IRQ_MOUSE_PS2 \in routines)
<1>1. IInv => (streaming => IRQ_MOUSE_PS2 \in routines)
  BY DEF IInv, StreamInv
<1>. QED BY Inductive, <1>1, PTL

\* One calm report brings mouse_handler back in step however many bytes were lost
\* before, on every mouse whose reports are as long as the packets expected.
THEOREM Resynchronises == Spec => [](LongEnough => CalmReportResynchronises)
<1>1. IInv => (LongEnough => CalmReportResynchronises)
  <2>. SUFFICES ASSUME IInv, LongEnough, Installed, reports > 0, calm, obuf = <<>>
                PROVE  mouse_cycle = 0
    BY DEF CalmReportResynchronises
  <2>1. CalmLeft /\ Len(obuf) = 0
    BY DEF IInv, StepInv
  <2>2. ReportLength # 0
    BY DEF ReportLength
  <2>3. mouse_cycle = 0 \/ Last(mouse_mode) - mouse_cycle < 0
    BY <2>1, <2>2 DEF CalmLeft
  <2>4. mouse_cycle \in 0..Last(mouse_mode) /\ Last(mouse_mode) \in Nat
    BY DEF IInv, MouseTypes, Last
  <2>. QED BY <2>3, <2>4
<1>. QED BY Inductive, <1>1, PTL

\* The pointer is where the user moved it, after any number of movements of any
\* size, on mice of three and of four bytes, as long as nothing went wrong on the
\* wire and the packets are taken to have three bytes.
THEOREM FollowsTheHand == Spec => [](mouse_mode = MOUSE_DEFAULT => TracksReports)
<1>1. IInv => (mouse_mode = MOUSE_DEFAULT => TracksReports)
  <2>. SUFFICES ASSUME IInv, mouse_mode = MOUSE_DEFAULT, Installed, clean, obuf = <<>>
                PROVE  Position = hand
    BY DEF TracksReports, Position
  <2>1. CASE reports = 0
    BY <2>1 DEF IInv, TrackInv
  <2>2. CASE reports # 0
    <3>1. PICK m \in Movements, j \in 0..ReportLength : Taken(m, j)
      BY <2>2 DEF IInv, TrackInv
    <3>2. Len(obuf) = 0 /\ ReportLength \in {3, 4} /\ Len(obuf) = ReportLength - j
      BY <3>1 DEF Taken, ReportLength
    <3>3. j >= 3
      BY <3>2
    <3>. QED BY <3>1, <3>3 DEF Taken
  <2>. QED BY <2>1, <2>2
<1>. QED BY Inductive, <1>1, PTL

\* What is left of ps2_install says which replies wait and what the configuration
\* is, for any controller, any number of keys and of slow replies.
THEOREM BringsUp == ASSUME KeyByte # ACK PROVE Spec /\ []Drained => []BringUpInv
<1>1. PointerInit => BringUpInv
  BY BringUpInit
<1>2. IInv /\ IInv' /\ BringUpInv /\ Drained /\ [Next]_vars => BringUpInv'
  BY BringUpNext DEF IInv
<1>. QED BY Inductive, <1>1, <1>2, PTL DEF Spec

\* Three dummy reads are enough for noise and keys of three bytes.
THEOREM ThreeReadsDrain ==
    ASSUME KeyByte # ACK, \A s \in Noise : Len(s) + MaxKeys <= 3
    PROVE  Spec => []Drained
<1>1. PointerInit => BringUpInv /\ FewBytes
  BY BringUpInit, FewInit
<1>2. IInv /\ BringUpInv /\ FewBytes => Drained
  <2>. SUFFICES ASSUME IInv, BringUpInv, FewBytes, late = 0, todo = Probe
                PROVE  Len(obuf) <= 3
    BY DEF Drained
  <2>0. keys \in Nat /\ Len(obuf) \in Nat /\ MaxKeys \in Nat /\ Noise \subseteq Seq(0..255)
    BY Ps2Assumption DEF IInv, Ps2Types, BringUpInv, Counts, Ps2Assumption
  <2>1. PICK s \in Noise : Len(obuf) <= Len(s) + keys
    BY DEF FewBytes
  <2>2. keys <= MaxKeys /\ Len(s) + MaxKeys <= 3 /\ Len(s) \in Nat
    BY <2>0, <2>1 DEF FewBytes
  <2>. QED BY <2>0, <2>1, <2>2
<1>3. IInv /\ IInv' /\ BringUpInv /\ FewBytes /\ [Next]_vars => BringUpInv' /\ FewBytes'
  <2>. SUFFICES ASSUME IInv, IInv', BringUpInv, FewBytes, [Next]_vars
                PROVE  BringUpInv' /\ FewBytes'
    OBVIOUS
  <2>1. BringUpInv'
    BY <1>2, BringUpNext DEF IInv
  <2>2. FewBytes'
    BY <2>1, FewNext DEF IInv
  <2>. QED BY <2>1, <2>2
<1>. QED BY Inductive, <1>1, <1>2, <1>3, PTL DEF Spec

\* After ps2_install exactly the ports with a routine interrupt, have a clock and a
\* device that sends, whatever the controller and the keys typed meanwhile: if no
\* reply came too late for a poll (kb.c:145), no key is sent as the byte of an ACK
\* and the three dummy reads (kb.c:358) leave nothing in the controller.
THEOREM PortsHaveHandlers ==
    ASSUME KeyByte # ACK PROVE Spec /\ []Drained => []HandlersMatchPorts
<1>1. BringUpInv => HandlersMatchPorts
  <2>. SUFFICES ASSUME BringUpInv, Installed, late = 0
                PROVE  LET two == IRQ_MOUSE_PS2 \in routines
                       IN /\ two = Bit(config, 1) /\ two = streaming
                          /\ two => ~Bit(config, 5)
                          /\ IRQ_KEYBOARD \in routines /\ Bit(config, 0) /\ scanning
                          /\ ~Bit(config, 4)
    BY DEF HandlersMatchPorts
  <2>1. left = 0 /\ (OnePort \/ TwoPorts) /\ streaming \in BOOLEAN
    BY Settled DEF BringUpInv, Counts, PortsInv, Installed
  <2>2. CASE OnePort
    <3>1. config = 69 /\ routines = {1} /\ scanning /\ ~streaming
      BY <2>1, <2>2 DEF OnePort, IRQ_KEYBOARD
    <3>2. ~Bit(config, 4) /\ Bit(config, 0) /\ ~Bit(config, 1)
      BY <3>1, Values
    <3>3. IRQ_MOUSE_PS2 \notin routines /\ IRQ_KEYBOARD \in routines
      BY <3>1 DEF IRQ_MOUSE_PS2, IRQ_KEYBOARD
    <3>4. (IRQ_MOUSE_PS2 \in routines) = Bit(config, 1)
      BY <3>2, <3>3 DEF Bit
    <3>5. (IRQ_MOUSE_PS2 \in routines) = streaming
      BY <2>1, <3>1, <3>3
    <3>. QED BY <3>1, <3>2, <3>3, <3>4, <3>5
  <2>3. CASE TwoPorts
    <3>1. config = 71 /\ routines = {1, 12} /\ scanning /\ streaming
      BY <2>1, <2>3 DEF TwoPorts, IRQ_KEYBOARD, IRQ_MOUSE_PS2
    <3>2. ~Bit(config, 4) /\ ~Bit(config, 5) /\ Bit(config, 0) /\ Bit(config, 1)
      BY <3>1, Values
    <3>3. IRQ_MOUSE_PS2 \in routines /\ IRQ_KEYBOARD \in routines
      BY <3>1 DEF IRQ_MOUSE_PS2, IRQ_KEYBOARD
    <3>4. Bit(config, 1) \in BOOLEAN
      BY DEF Bit
    <3>. QED BY <2>1, <3>1, <3>2, <3>3, <3>4, Zenon
  <2>. QED BY <2>1, <2>2, <2>3
<1>. QED BY BringsUp, <1>1, PTL

\* It leaves no reply behind for the routines if no key was typed and no reply
\* given up: not even on a wheel mouse, whose identity it asks for three times.
THEOREM LeavesNothing ==
    ASSUME KeyByte # ACK PROVE Spec /\ []Drained => []NothingLeft
<1>1. BringUpInv => NothingLeft
  <2>. SUFFICES ASSUME BringUpInv, Installed, keys = 0, late = 0, reports = 0
                PROVE  obuf = <<>>
    BY DEF NothingLeft
  <2>1. left = 0 /\ (OnePort \/ (TwoPorts /\ fitted.mouse # "none"))
    BY Settled DEF BringUpInv, PortsInv, Installed
  <2>2. OnePort => Empty
    BY <2>1 DEF OnePort, WaitingOne
  <2>3. TwoPorts /\ fitted.mouse # "none" => Empty
    BY <2>1 DEF TwoPorts, WaitingTwo
  <2>. QED BY <2>1, <2>2, <2>3 DEF Empty
<1>. QED BY BringsUp, <1>1, PTL
=============================================================================
