----------------------------- MODULE Keyboard ------------------------------
(***************************************************************************)
(* The keyboard buffer of kb.c.  keyboard_handler (IRQ 1) stores scancodes *)
(* in a ring indexed by two u8 counters; the main program takes them out   *)
(* with keyboard_read_next, called by kgetch, by wait_any_key and by the   *)
(* SPACE BAR loop of kmain.                                                *)
(*                                                                         *)
(* The handler runs with interrupts disabled and is one step.  The main    *)
(* program can be interrupted between any two instructions, so each of its *)
(* accesses to the shared bytes is a step of its own, in the order of the  *)
(* -O0 build: kb_buf_first, kb_buf_last (compare), kb_buf_first again,     *)
(* the store of the incremented index, the load of the slot.               *)
(*                                                                         *)
(* The indices take U8 values but the ring has one slot less, so the last  *)
(* index names the byte that follows kb_buf in memory.  Which byte that is *)
(* is the layout chosen by the linker: kb_buf_first when variables are     *)
(* laid out in the order of their definitions, or a byte nobody else uses. *)
(***************************************************************************)
EXTENDS Integers, Sequences

CONSTANTS U8,       \* number of values of a u8 index (256)
          Scan,     \* make codes the keyboard sends
          Space,    \* SCAN_US_SPACE
          F2,       \* SCAN_US_F2
          MaxKeys,  \* bound on the keys pressed since boot
          Layouts   \* the layouts considered

ASSUME KeyboardAssumption ==
    /\ U8 \in Nat /\ U8 > 1
    /\ Scan \subseteq 1..(U8 - 1)
    /\ {Space, F2} \subseteq Scan
    /\ MaxKeys \in Nat
    /\ Layouts \subseteq {"first_follows", "spare_follows"}

VARIABLES kb_buf,        \* the slots and the byte after the last one
          kb_buf_first,  \* index of the first scancode not read yet
          kb_buf_last,   \* index of the next slot to fill
          layout,        \* what the byte after the ring is
          user,          \* jump_usermode has left the handler for ring 3
          caller,        \* who runs keyboard_read_next, "kmain" when nobody does
          pc,            \* the next access of keyboard_read_next
          reg,           \* the index or the byte it loaded last
          accepted,      \* history: the scancodes stored by the handler
          delivered,     \* history: the scancodes returned to a caller
          overrun        \* history: a key was stored in a ring with no room left

ring == <<kb_buf, kb_buf_first, kb_buf_last, layout>>
main == <<caller, pc, reg>>
history == <<accepted, delivered, overrun>>
vars == <<ring, user, main, history>>

Byte == 0..(U8 - 1)
BufLen == U8 - 1       \* MAX_BUFFERED_INPUT_KEYS
NoKey == 0             \* what keyboard_read_next returns from an empty ring

Init == /\ kb_buf = [i \in Byte |-> 0]
        /\ kb_buf_first = 0
        /\ kb_buf_last = 0
        /\ layout \in Layouts
        /\ user = FALSE
        /\ caller = "kmain" /\ pc = "call" /\ reg = 0
        /\ accepted = <<>> /\ delivered = <<>> /\ overrun = FALSE

IncNoWrap(i) == i + 1                                  \* mutant of Inc

\* ++ on a u8
Inc(i) == (i + 1) % U8

\* The index BufLen of kb_buf names kb_buf_first.
Aliased(i) == i = BufLen /\ layout = "first_follows"

\* Number of unread scancodes, as the two indices have it.
Count == (U8 + kb_buf_last - kb_buf_first) % U8

-----------------------------------------------------------------------------
(* IRQ 1 *)

\* mutant of StoreScancode: kb_buf[++kb_buf_last] = scancode
StoreScancodeAfterInc(c) ==
    /\ kb_buf_last' = Inc(kb_buf_last)
    /\ kb_buf' = [kb_buf EXCEPT ![Inc(kb_buf_last)] = c]
    /\ UNCHANGED kb_buf_first
    /\ accepted' = Append(accepted, c)
    /\ overrun' = (overrun \/ Count = U8 - 1)

\* mutant of StoreScancode: the index is not advanced
StoreScancodeNoInc(c) ==
    /\ kb_buf' = [kb_buf EXCEPT ![kb_buf_last] = c]
    /\ UNCHANGED <<kb_buf_first, kb_buf_last, overrun>>
    /\ accepted' = Append(accepted, c)

\* kb_buf[kb_buf_last++] = scancode
StoreScancode(c) ==
    /\ kb_buf_last' = Inc(kb_buf_last)
    /\ IF Aliased(kb_buf_last)
       THEN kb_buf_first' = c /\ UNCHANGED kb_buf
       ELSE kb_buf' = [kb_buf EXCEPT ![kb_buf_last] = c] /\ UNCHANGED kb_buf_first
    /\ accepted' = Append(accepted, c)
    /\ overrun' = (overrun \/ Count = U8 - 1)

\* A key goes down.  Every key is stored, whatever room there is.  F2 then
\* enters ring 3 and never comes back to the interrupted program.
keyboard_handler(c) ==
    /\ ~user
    /\ Len(accepted) < MaxKeys
    /\ StoreScancode(c)
    /\ user' = (c = F2)
    /\ UNCHANGED <<layout, main, delivered>>

\* A key comes up, or a prefix byte arrives: bit 7 is set, nothing is stored.
KeyReleased == ~user /\ UNCHANGED vars

-----------------------------------------------------------------------------
(* keyboard_read_next, one access to shared memory at a time *)

Step(from) == ~user /\ caller # "kmain" /\ pc = from

\* Control comes back to the caller with the value k.
Return(k) ==
    /\ pc' = "call"
    /\ reg' = k
    /\ delivered' = IF k = NoKey THEN delivered ELSE Append(delivered, k)
    /\ UNCHANGED <<ring, user, caller, accepted, overrun>>

LoadFirst ==
    /\ Step("first")
    /\ reg' = kb_buf_first /\ pc' = "last"
    /\ UNCHANGED <<ring, user, caller, history>>

\* mutant of CompareEmpty: one slot is thought to be kept free
CompareAlmostEmpty == /\ Step("last") /\ kb_buf_last \in {reg, Inc(reg)}
                      /\ Return(NoKey)

CompareEmpty == Step("last") /\ reg = kb_buf_last /\ Return(NoKey)

CompareNonEmpty ==
    /\ Step("last") /\ reg # kb_buf_last
    /\ pc' = "index"
    /\ UNCHANGED <<ring, user, caller, reg, history>>

LoadIndex ==
    /\ Step("index")
    /\ reg' = kb_buf_first /\ pc' = "bump"
    /\ UNCHANGED <<ring, user, caller, history>>

StoreFirst ==
    /\ Step("bump")
    /\ kb_buf_first' = Inc(reg) /\ pc' = "slot"
    /\ UNCHANGED <<kb_buf, kb_buf_last, layout, user, caller, reg, history>>

Slot(i) == IF Aliased(i) THEN kb_buf_first ELSE kb_buf[i]

\* mutant of LoadSlot: return kb_buf[++kb_buf_first]
LoadSlotAfterInc == Step("slot") /\ Return(Slot(Inc(reg)))

LoadSlot == Step("slot") /\ Return(Slot(reg))

keyboard_read_next == \/ LoadFirst \/ CompareEmpty \/ CompareNonEmpty
                      \/ LoadIndex \/ StoreFirst \/ LoadSlot

-----------------------------------------------------------------------------
(* The callers: they look at the value returned and call again or go on.   *)

Enter(who) == /\ caller' = who /\ pc' = "first" /\ reg' = 0
              /\ UNCHANGED <<ring, user, history>>

Leave == /\ caller' = "kmain" /\ pc' = "call" /\ reg' = 0
         /\ UNCHANGED <<ring, user, history>>

\* kmain starts waiting: wait_any_key drains the ring first, the SPACE BAR
\* loop takes one key every 100 ms.
CallWaitAnyKey == ~user /\ caller = "kmain" /\ Enter("drain")
CallSpaceBarLoop == ~user /\ caller = "kmain" /\ Enter("spacebar")

\* while(keyboard_read_next()) ...; kgetch();
wait_any_key == /\ Step("call") /\ caller = "drain"
                /\ Enter(IF reg = NoKey THEN "kgetch" ELSE "drain")

\* while(!ch) ch = keyboard_read_next();
kgetch == /\ Step("call") /\ caller = "kgetch"
          /\ IF reg = NoKey THEN Enter("kgetch") ELSE Leave

\* for(u8 ch = 0; ch != SCAN_US_SPACE; ch = keyboard_read_next())
SpaceBarLoop == /\ Step("call") /\ caller = "spacebar"
                /\ IF reg = Space THEN Leave ELSE Enter("spacebar")

\* The kernel program that was interrupted is never resumed: ring 3 was entered
\* from inside the handler, before its end-of-interrupt, with interrupts disabled.
RingThreeFault == user /\ UNCHANGED vars

Interrupts == (\E c \in Scan : keyboard_handler(c)) \/ KeyReleased
Reading == keyboard_read_next \/ wait_any_key \/ kgetch \/ SpaceBarLoop

Next == \/ Interrupts
        \/ Reading
        \/ CallWaitAnyKey \/ CallSpaceBarLoop
        \/ RingThreeFault

(* The processor executes the next instruction of the main program some   *)
(* time after each interrupt, so a program that reads goes on reading.     *)
Spec == Init /\ [][Next]_vars /\ WF_vars(Reading)

-----------------------------------------------------------------------------
(* Properties *)

TypeOK ==
    /\ kb_buf \in [Byte -> Byte]
    /\ kb_buf_first \in Byte /\ kb_buf_last \in Byte
    /\ layout \in Layouts
    /\ user \in BOOLEAN
    /\ caller \in {"kmain", "drain", "kgetch", "spacebar"}
    /\ pc \in {"call", "first", "last", "index", "bump", "slot"}
    /\ reg \in Byte
    /\ accepted \in Seq(Scan) /\ delivered \in Seq(Byte)
    /\ overrun \in BOOLEAN

\* The ring has not met a situation it has no answer to: it was never filled
\* beyond U8 - 1 unread keys, and the byte after it was never overwritten.
Intact == /\ ~overrun
          /\ layout = "first_follows" => Len(accepted) <= BufLen

\* The unread scancodes, oldest first; the one between StoreFirst and LoadSlot
\* has left the ring but is still to be loaded from its slot.
Unread == [j \in 1..Count |-> kb_buf[(kb_buf_first + j - 1) % U8]]
InHand == IF pc = "slot" THEN <<kb_buf[reg]>> ELSE <<>>

\* No key is lost, duplicated, reordered or overwritten between the interrupt
\* that stores it and the caller that gets it (keyboard_handler against the
\* unlocked index updates of keyboard_read_next), as long as the ring is intact.
KeysInOrder == Intact => accepted = delivered \o InHand \o Unread

\* keyboard_read_next says "empty" only when every key pressed so far has been
\* handed out: wait_any_key's drain leaves no old key behind.
EmptyMeansAllDelivered ==
    [][CompareEmpty /\ Intact => delivered = accepted]_vars

\* A key pressed while kgetch spins ends the wait, unless it is F2.
KgetchReturns ==
    []Intact => ((caller = "kgetch" /\ delivered # accepted)
                   ~> (caller # "kgetch" \/ user))

Queue == INSTANCE ScanQueue WITH Key <- Scan, Life <- BufLen, sent <- accepted,
                                 taken <- delivered, broken <- ~Intact

\* The ring implements the queue of scancodes it stands for.
ImplementsQueue == Queue!Spec

\* kb.c:55 has up to 255 characters buffered and kb.c:60 has the indices wrap
\* around by overflow: keys stay in order for as long as at most that many are
\* unread, however many were typed before.
BuffersUpTo255 == ~overrun => accepted = delivered \o InHand \o Unread
=============================================================================
