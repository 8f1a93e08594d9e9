-------------------------------- MODULE Ps2 --------------------------------
(***************************************************************************)
(* ps2_install (kb.c): bringing up the 8042 controller, the keyboard on    *)
(* its first port and the mouse on its second, by polling.                 *)
(*                                                                         *)
(* The routine is straight-line port traffic with three decisions; todo is *)
(* what is left of it.  Replies queue in the controller.  A poll gives up  *)
(* after a while, also on a reply that is merely slow (at most MaxLate     *)
(* times), and inb then returns the byte read last; the loops that insist  *)
(* on an ACK never give up.  The user may type at most MaxKeys keys.       *)
(***************************************************************************)
EXTENDS Integers, Sequences

CONSTANTS Controllers,  \* set of [dual, mouse]: second port, device on it
          Noise,        \* what may sit in the controller at the start
          KeyByte,      \* the byte of a key typed meanwhile
          MaxKeys, MaxLate

ASSUME Ps2Assumption == /\ Controllers \subseteq
                             [dual : BOOLEAN,
                              mouse : {"none", "plain", "wheel", "buttons"}]
                        /\ Noise \subseteq Seq(0..255) /\ KeyByte \in 0..255
                        /\ {MaxKeys, MaxLate} \subseteq Nat

ACK == \hFA
BAT == \hAA          \* basic assurance test passed
CONFIG_READ == \h20
IDENTIFY == \hF2
ENABLE_STREAMING == \hF4
DISABLE_STREAMING == \hF5
RESET == \hFF
SET_SAMPLE_RATE == \hF3
IRQ_KEYBOARD == 1
IRQ_MOUSE_PS2 == 12
MOUSE_DEFAULT == 0
MOUSE_SCROLLWHEEL == 1
MOUSE_BUTTONS == 2

VARIABLES config, obuf, latch,       \* the controller: configuration byte,
                                     \* replies not read, byte read last
          fitted,                    \* the controller of this machine
          scanning,                  \* the keyboard sends keys
          streaming, id, rates,      \* the mouse
          todo,                      \* what is left of ps2_install
          status, result, is_dual_device, mouse_mode,
          routines,                  \* irq_install_handler's lines
          keys, late                 \* bounds' counters

controller == <<config, obuf, latch, fitted>>
mouse == <<streaming, id, rates>>
locals == <<status, result, is_dual_device, mouse_mode, routines>>
ps2vars == <<controller, scanning, mouse, todo, locals, keys, late>>

Bit(b, i) == (b \div (2^i)) % 2 = 1
With(b, i) == IF Bit(b, i) THEN b ELSE b + 2^i
Without(b, i) == IF Bit(b, i) THEN b - 2^i ELSE b

-----------------------------------------------------------------------------
(* The routine, as the port traffic it causes *)

I(op, arg) == [op |-> op, arg |-> arg]
Cmd(c) == I("cmd", c)                     \* outb(PS2_CMD, c)
Read == I("read", 0)                      \* ps2_wait_read, inb
Ack == I("ack", 0)                        \* the same until it is the ACK
MouseRead == I("mread", 0)                \* mouse_read
Send(port, b) == I(IF port = 2 THEN "mouse" ELSE "kbd", b)
ConfigRead == <<Cmd(CONFIG_READ), Read>>

\* Ports off, three dummy reads, then the configuration byte without
\* interrupts and translation.
Probe == <<Cmd(\hAD), Cmd(\hA7), I("drain", 3)>>
         \o ConfigRead \o <<I("config", "quiet")>> \o ConfigRead
         \o <<I("guess", 0)>>
SelfTest == <<Cmd(\hAA), Read>>
ConfirmDual == <<Cmd(\hA8)>> \o ConfigRead \o <<I("confirm", 0)>>

\* for(i = 0; i < n; ++i)
Ports(n, P(_)) == IF n = 2 THEN P(1) \o P(2) ELSE P(1)

FinalConfig(n) == ConfigRead
                  \o <<I("config", "final"), Cmd(\hAE)>>
                  \o (IF n = 2 THEN <<Cmd(\hA8)>> ELSE <<>>)
Quiet(p) == <<Send(p, DISABLE_STREAMING), Ack>>
Test(p) == <<Cmd(IF p = 2 THEN \hA9 ELSE \hAB), Read>>
Reset(p) == <<Send(p, RESET), I("reset", 0)>>
\* mutant of Identify: an ACK is awaited behind the identity as well
IdentifyTwice(p) == <<Send(p, IDENTIFY), Ack, Read, Read, Ack>>
Identify(p) == <<Send(p, IDENTIFY), Ack, Read, Read>>
\* mutant of Stream: its ACK is not awaited
StreamNoAck(p) == <<Send(p, ENABLE_STREAMING)>>
Stream(p) == <<Send(p, ENABLE_STREAMING), Ack>>

\* The sample rates 200, r, 80 and what the mouse then says it is.
Rate(r) == <<Send(2, SET_SAMPLE_RATE), MouseRead, Send(2, r), MouseRead>>
Knock(r, k) == Rate(200) \o Rate(r) \o Rate(80)
               \o <<Send(2, IDENTIFY), Ack, MouseRead, I("wheel", k)>>
Wheel == <<Send(2, IDENTIFY), MouseRead>> \o Knock(100, 3) \o Knock(200, 4)

Rest(n) == FinalConfig(n) \o Ports(n, Quiet) \o Ports(n, Test)
           \o Ports(n, Reset) \o Ports(n, Identify)
           \o (IF n = 2 THEN Wheel ELSE <<>>)
           \o <<I("install", IRQ_KEYBOARD)>>
           \o (IF n = 2 THEN <<I("install", IRQ_MOUSE_PS2)>> ELSE <<>>)
           \o Ports(n, Stream)

Ps2Init == /\ fitted \in Controllers /\ obuf \in {[i \in DOMAIN n |->
                                     [from |-> 1, b |-> n[i]]] : n \in Noise}
           /\ config = \h47 /\ latch = 0
           /\ scanning = TRUE /\ streaming = FALSE /\ id = 0 /\ rates = <<>>
           /\ todo = Probe
           /\ status = 0 /\ result = 0 /\ is_dual_device = FALSE
           /\ mouse_mode = MOUSE_DEFAULT /\ routines = {}
           /\ keys = 0 /\ late = 0

-----------------------------------------------------------------------------
(* The controller and the devices *)

From(port, bytes) == [i \in DOMAIN bytes |-> [from |-> port, b |-> bytes[i]]]

Answer(c) == CASE c = CONFIG_READ -> From(0, <<config>>)
               [] c = \hAA -> From(0, <<\h55>>)
               [] c \in {\hAB, \hA9} -> From(0, <<0>>)
               [] OTHER -> <<>>
Configured(c) == CASE c = \hAD -> With(config, 4)
                   [] c = \hAE -> Without(config, 4)
                   [] c = \hA7 /\ fitted.dual -> With(config, 5)
                   [] c = \hA8 /\ fitted.dual -> Without(config, 5)
                   [] OTHER -> config

KeyboardAnswer(c) == From(1, CASE c = RESET -> <<ACK, BAT>>
                               [] c = IDENTIFY -> <<ACK, \hAB, \h83>>
                               [] OTHER -> <<ACK>>)

\* A mouse turns into a wheel mouse at 200, 100, 80, and that one into a five
\* button mouse at 200, 200, 80.
Becomes(s) == CASE s = <<200, 100, 80>> /\ fitted.mouse # "plain" /\ id = 0 -> 3
                [] s = <<200, 200, 80>> /\ fitted.mouse = "buttons"
                   /\ id = 3 -> 4
                [] OTHER -> id
MouseAnswer(c) == From(2, CASE c = RESET -> <<ACK, BAT, 0>>
                            [] c = IDENTIFY -> <<ACK, id>>
                            [] OTHER -> <<ACK>>)
LastThree(s) == IF Len(s) > 3 THEN Tail(s) ELSE s

KeyTyped == /\ todo # <<>> /\ scanning /\ ~Bit(config, 4) /\ keys < MaxKeys
            /\ obuf' = obuf \o From(1, <<KeyByte>>) /\ keys' = keys + 1
            /\ UNCHANGED <<config, latch, fitted, scanning, mouse, todo, locals,
                           late>>

-----------------------------------------------------------------------------
(* The instructions *)

At(op) == todo # <<>> /\ Head(todo).op = op
arg == Head(todo).arg
Done == todo' = Tail(todo)

Command == /\ At("cmd") /\ Done
           /\ obuf' = obuf \o Answer(arg) /\ config' = Configured(arg)
           /\ UNCHANGED <<latch, fitted, scanning, mouse, locals, keys, late>>

\* outb(PS2_CMD, PS2_CONFIG_WRITE), ps2_wait_write, outb(PS2_DATA, ...)
Quieted == Without(Without(Without(status, 0), 1), 6)
\* mutant of Enabled: the second port's interrupt is forgotten
EnabledOne == With(With(status, 0), 6)
Enabled == LET s == With(With(status, 0), 6)
           IN IF is_dual_device THEN With(s, 1) ELSE s
WriteConfig == /\ At("config") /\ Done
               /\ config' = IF arg = "quiet" THEN Quieted ELSE Enabled
               /\ status' = IF arg = "quiet" THEN status ELSE Enabled
               /\ UNCHANGED <<obuf, latch, fitted, scanning, mouse, result,
                              is_dual_device, mouse_mode, routines, keys, late>>

Scans(c) == IF c = RESET THEN TRUE
            ELSE IF c \in {ENABLE_STREAMING, DISABLE_STREAMING}
                 THEN c = ENABLE_STREAMING ELSE scanning
SendKeyboard == /\ At("kbd") /\ Done
                /\ obuf' = obuf \o KeyboardAnswer(arg) /\ scanning' = Scans(arg)
                /\ UNCHANGED <<config, latch, fitted, mouse, locals, keys, late>>

\* MOUSE_WRITE, then the byte: a command, or the rate the command before asked.
SendMouse == /\ At("mouse") /\ Done
             /\ IF fitted.mouse = "none" \/ ~fitted.dual
                THEN UNCHANGED <<obuf, mouse>>
                ELSE /\ obuf' = obuf \o MouseAnswer(arg)
                     /\ streaming' = (\/ arg = ENABLE_STREAMING
                                      \/ streaming /\ arg \notin {DISABLE_STREAMING, RESET})
                     /\ IF arg \in {200, 100, 80}
                        THEN /\ rates' = LastThree(Append(rates, arg))
                             /\ id' = Becomes(rates')
                        ELSE /\ rates' = IF arg = RESET THEN <<>> ELSE rates
                             /\ id' = IF arg = RESET THEN 0 ELSE id
             /\ UNCHANGED <<config, latch, fitted, scanning, locals, keys, late>>

\* ps2_wait_read: the reply is there, or the poll is given up.
Arrives == /\ obuf # <<>> /\ obuf' = Tail(obuf) /\ latch' = Head(obuf).b
           /\ late' = late
GivesUp == /\ UNCHANGED <<obuf, latch>>
           /\ IF obuf = <<>> THEN late' = late
              ELSE late < MaxLate /\ late' = late + 1

\* inb after it: status = latch' either way.
Inb(op) == /\ At(op) /\ (Arrives \/ GivesUp) /\ status' = latch'
           /\ UNCHANGED <<config, fitted, scanning, mouse, result,
                          is_dual_device, mouse_mode, routines, keys>>
ReadByte == Inb("read") /\ Done
AwaitAck == Inb("ack") /\ todo' = IF status' = ACK THEN Tail(todo) ELSE todo
ReadReset == /\ Inb("reset")
             /\ todo' = IF status' = ACK THEN <<Read>> \o Tail(todo)
                        ELSE Tail(todo)

\* The dummy reads do not wait.
Drain == /\ At("drain")
         /\ todo' = IF arg = 1 THEN Tail(todo)
                    ELSE <<I("drain", arg - 1)>> \o Tail(todo)
         /\ IF obuf = <<>> THEN UNCHANGED <<obuf, latch>>
            ELSE obuf' = Tail(obuf) /\ latch' = Head(obuf).b
         /\ UNCHANGED <<config, fitted, scanning, mouse, locals, keys, late>>

mouse_read == /\ At("mread") /\ Done
              /\ \/ Arrives /\ result' = latch'
                 \/ GivesUp /\ result' = 0
              /\ UNCHANGED <<config, fitted, scanning, mouse, status,
                             is_dual_device, mouse_mode, routines, keys>>

Decide(op) == /\ At(op)
              /\ UNCHANGED <<controller, scanning, mouse, status, result, keys,
                             late>>
GuessDual == /\ Decide("guess") /\ is_dual_device' = Bit(status, 5)
             /\ todo' = SelfTest \o IF is_dual_device' THEN ConfirmDual
                                    ELSE Rest(1)
             /\ UNCHANGED <<mouse_mode, routines>>
Confirm == /\ Decide("confirm") /\ is_dual_device' = ~Bit(status, 5)
           /\ todo' = IF is_dual_device' THEN <<Cmd(\hA7)>> \o Rest(2)
                      ELSE Rest(1)
           /\ UNCHANGED <<mouse_mode, routines>>
TryWheel == /\ Decide("wheel") /\ Done
            /\ mouse_mode' = IF result = arg THEN MOUSE_SCROLLWHEEL
                             ELSE mouse_mode
            /\ UNCHANGED <<is_dual_device, routines>>
Install == /\ Decide("install") /\ Done /\ routines' = routines \cup {arg}
           /\ UNCHANGED <<is_dual_device, mouse_mode>>

ps2_install == \/ Command \/ WriteConfig \/ SendKeyboard \/ SendMouse
               \/ ReadByte \/ AwaitAck \/ ReadReset \/ Drain \/ mouse_read
               \/ GuessDual \/ Confirm \/ TryWheel \/ Install
=============================================================================
