-------------------------- MODULE KeyboardProofs ---------------------------
(***************************************************************************)
(* For every width of the index, every set of scancodes and every number   *)
(* of keys pressed: the keyboard buffer stays well typed, hands its keys   *)
(* out in order while it is intact, and implements ScanQueue.              *)
(*                                                                         *)
(* The inductive invariant relates positions instead of sequences: the     *)
(* j-th unread slot, counted from kb_buf_first and around the end of the   *)
(* index range, holds the key that follows the delivered ones by j places. *)
(***************************************************************************)
EXTENDS Keyboard, SequenceTheorems, TLAPS

\* Reduction modulo N of a number below 2 * N.
LEMMA ModSmall ==
    ASSUME NEW N \in Nat, N > 0, NEW a \in 0..(2 * N - 1)
    PROVE  a % N = IF a < N THEN a ELSE a - N
  BY SMT

\* ++ on a u8, without the modulus.
LEMMA IncValue ==
    ASSUME NEW i \in Byte
    PROVE  Inc(i) = IF i = U8 - 1 THEN 0 ELSE i + 1
<1>1. i + 1 \in 0..(2 * U8 - 1)
  BY KeyboardAssumption DEF Byte, KeyboardAssumption
<1> QED BY <1>1, ModSmall, KeyboardAssumption DEF Inc, Byte, KeyboardAssumption

\* The slot j places after i.
At(i, j) == IF i + j < U8 THEN i + j ELSE i + j - U8

LEMMA AtValue ==
    ASSUME NEW i \in Byte, NEW j \in 0..(U8 - 1)
    PROVE  (i + j) % U8 = At(i, j) /\ At(i, j) \in Byte
<1>1. i + j \in 0..(2 * U8 - 1)
  BY KeyboardAssumption DEF Byte, KeyboardAssumption
<1> QED BY <1>1, ModSmall, KeyboardAssumption DEF At, Byte, KeyboardAssumption

\* The number of unread slots, without the modulus.
LEMMA CountValue ==
    ASSUME kb_buf_first \in Byte, kb_buf_last \in Byte
    PROVE  /\ Count = IF kb_buf_first <= kb_buf_last
                      THEN kb_buf_last - kb_buf_first
                      ELSE U8 + kb_buf_last - kb_buf_first
           /\ Count \in 0..(U8 - 1)
<1>1. U8 + kb_buf_last - kb_buf_first \in 0..(2 * U8 - 1)
  BY KeyboardAssumption DEF Byte, KeyboardAssumption
<1> QED BY <1>1, ModSmall, KeyboardAssumption DEF Count, Byte, KeyboardAssumption

-----------------------------------------------------------------------------
(* Type correctness *)

\* Every byte, index and program counter keeps to its range (the u8 indices
\* of kb.c:61-63 and the register of keyboard_read_next).
THEOREM TypeCorrect == Spec => []TypeOK
<1>1. Init => TypeOK
  <2>1. 0 \in Byte
    BY KeyboardAssumption DEF Byte, KeyboardAssumption
  <2> QED BY <2>1 DEF Init, TypeOK
<1>2. TypeOK /\ [Next]_vars => TypeOK'
  <2> SUFFICES ASSUME TypeOK, [Next]_vars PROVE TypeOK'
    OBVIOUS
  <2> USE KeyboardAssumption DEF TypeOK, KeyboardAssumption
  <2>1. \A i \in Byte : Inc(i) \in Byte
    <3> TAKE i \in Byte
    <3>1. Inc(i) = IF i = U8 - 1 THEN 0 ELSE i + 1
      BY IncValue
    <3> QED BY <3>1 DEF Byte
  <2>2. 0 \in Byte /\ Scan \subseteq Byte
    BY DEF Byte
  <2>3. ASSUME NEW c \in Scan, keyboard_handler(c) PROVE TypeOK'
    BY <2>1, <2>2, <2>3 DEF keyboard_handler, StoreScancode, main
  <2>4. ASSUME NEW k \in Byte, Return(k), pc # "call" PROVE TypeOK'
    BY <2>4 DEF Return, ring
  <2>5. CASE keyboard_read_next
    <3>1. CASE LoadFirst
      BY <3>1 DEF LoadFirst, ring, history
    <3>2. CASE CompareEmpty
      BY <3>2, <2>2, <2>4 DEF CompareEmpty, Step, NoKey
    <3>3. CASE CompareNonEmpty
      BY <3>3 DEF CompareNonEmpty, ring, history
    <3>4. CASE LoadIndex
      BY <3>4 DEF LoadIndex, ring, history
    <3>5. CASE StoreFirst
      BY <3>5, <2>1 DEF StoreFirst, history
    <3>6. CASE LoadSlot
      <4>1. Slot(reg) \in Byte
        BY DEF Slot
      <4> QED BY <3>6, <4>1, <2>4 DEF LoadSlot, Step
    <3> QED BY <2>5, <3>1, <3>2, <3>3, <3>4, <3>5, <3>6 DEF keyboard_read_next
  <2>6. ASSUME NEW who \in {"drain", "kgetch", "spacebar"}, Enter(who) PROVE TypeOK'
    BY <2>2, <2>6 DEF Enter, ring, history
  <2>7. ASSUME Leave PROVE TypeOK'
    BY <2>2, <2>7 DEF Leave, ring, history
  <2>8. CASE wait_any_key \/ kgetch \/ SpaceBarLoop \/ CallWaitAnyKey \/ CallSpaceBarLoop
    BY <2>8, <2>6, <2>7
    DEF wait_any_key, kgetch, SpaceBarLoop, CallWaitAnyKey, CallSpaceBarLoop
  <2>9. CASE UNCHANGED vars
    BY <2>9 DEF vars, ring, main, history
  <2> QED BY <2>3, <2>5, <2>8, <2>9
          DEF Next, Interrupts, Reading, KeyReleased, RingThreeFault
<1> QED BY <1>1, <1>2, PTL DEF Spec

-----------------------------------------------------------------------------
(* The inductive invariant *)

\* Number of keys that have left the ring.
Gone == Len(delivered) + (IF pc = "slot" THEN 1 ELSE 0)

\* The ring and its reader agree with the history of keys.
Lockstep ==
    /\ Len(accepted) = Gone + Count
    /\ \A k \in 1..Len(delivered) : delivered[k] = accepted[k]
    /\ \A j \in 0..(Count - 1) : kb_buf[At(kb_buf_first, j)] = accepted[Gone + j + 1]
    /\ layout = "first_follows" => kb_buf_last = Len(accepted)
    /\ pc = "last" => reg = kb_buf_first
    /\ pc = "index" => Count > 0
    /\ pc = "bump" => Count > 0 /\ reg = kb_buf_first
    /\ pc = "slot" => /\ kb_buf_first = Inc(reg)
                      /\ kb_buf[reg] = accepted[Gone]
                      /\ ~Aliased(reg)

\* Outside keyboard_read_next no access of it is pending.
Resting == caller = "kmain" => pc = "call"

IInv == TypeOK /\ Resting /\ (Intact => Lockstep)

\* The history only grows: what is intact after a step was intact before it.
LEMMA IntactBefore ==
    ASSUME TypeOK, Next \/ UNCHANGED vars, Intact'
    PROVE  Intact
<1> USE DEF Intact, ring, history, main
<1>1. ASSUME NEW c \in Scan, keyboard_handler(c) PROVE Intact
  <2>1. Len(accepted') = Len(accepted) + 1
    BY <1>1 DEF keyboard_handler, StoreScancode, TypeOK
  <2> QED BY <1>1, <2>1, KeyboardAssumption
          DEF keyboard_handler, StoreScancode, TypeOK, BufLen, KeyboardAssumption
<1>2. CASE UNCHANGED <<layout, accepted, overrun>>
  BY <1>2
<1>3. keyboard_read_next \/ wait_any_key \/ kgetch \/ SpaceBarLoop
        \/ CallWaitAnyKey \/ CallSpaceBarLoop \/ UNCHANGED vars
      => UNCHANGED <<layout, accepted, overrun>>
  BY DEF keyboard_read_next, LoadFirst, CompareEmpty, CompareNonEmpty, LoadIndex,
         StoreFirst, LoadSlot, Return, wait_any_key, kgetch, SpaceBarLoop,
         CallWaitAnyKey, CallSpaceBarLoop, Enter, Leave, vars
<1> QED BY <1>1, <1>2, <1>3
        DEF Next, Interrupts, Reading, KeyReleased, RingThreeFault

\* What the proofs below need of the types.
LEMMA Types ==
    ASSUME TypeOK
    PROVE  /\ U8 \in Nat /\ U8 > 1 /\ Byte = 0..(U8 - 1)
           /\ kb_buf_first \in Byte /\ kb_buf_last \in Byte /\ reg \in Byte
           /\ Len(accepted) \in Nat /\ Len(delivered) \in Nat /\ Gone \in Nat
           /\ Gone = IF pc = "slot" THEN Len(delivered) + 1 ELSE Len(delivered)
<1>1. Len(accepted) \in Nat /\ Len(delivered) \in Nat
  BY DEF TypeOK
<1> QED BY <1>1, KeyboardAssumption DEF TypeOK, Byte, Gone, KeyboardAssumption

\* Storing a key appends it to the unread ones and leaves the slot that the
\* reader is about to load alone.
LEMMA HandlerKeepsLockstep ==
    ASSUME TypeOK, TypeOK', Intact', Intact, Lockstep,
           NEW c \in Scan, keyboard_handler(c)
    PROVE  Lockstep'
<1>0. /\ U8 \in Nat /\ U8 > 1 /\ Byte = 0..(U8 - 1)
      /\ kb_buf_first \in Byte /\ kb_buf_last \in Byte /\ reg \in Byte
      /\ Len(accepted) \in Nat /\ Len(delivered) \in Nat /\ Gone \in Nat
      /\ Gone = IF pc = "slot" THEN Len(delivered) + 1 ELSE Len(delivered)
  BY Types
<1>1. /\ Len(accepted') = Len(accepted) + 1
      /\ accepted'[Len(accepted) + 1] = c
      /\ \A k \in 1..Len(accepted) : accepted'[k] = accepted[k]
  BY DEF keyboard_handler, StoreScancode, TypeOK
<1>2. /\ kb_buf_last' = Inc(kb_buf_last)
      /\ UNCHANGED <<layout, caller, pc, reg, delivered>>
  BY DEF keyboard_handler, StoreScancode, main
<1>3. Count < U8 - 1 /\ Count \in 0..(U8 - 1)
  <2>1. Count # U8 - 1
    BY DEF keyboard_handler, StoreScancode, Intact
  <2> QED BY <2>1, <1>0, CountValue
<1>4. /\ ~Aliased(kb_buf_last)
      /\ kb_buf_first' = kb_buf_first
      /\ kb_buf' = [kb_buf EXCEPT ![kb_buf_last] = c]
  <2>1. ~Aliased(kb_buf_last)
    BY <1>0, <1>1, <1>2 DEF Aliased, Intact, Lockstep, BufLen
  <2> QED BY <2>1 DEF keyboard_handler, StoreScancode
<1>5. kb_buf_last' = IF kb_buf_last = U8 - 1 THEN 0 ELSE kb_buf_last + 1
  BY <1>0, <1>2, IncValue
<1>6. Count = IF kb_buf_first <= kb_buf_last
              THEN kb_buf_last - kb_buf_first
              ELSE U8 + kb_buf_last - kb_buf_first
  BY <1>0, CountValue
<1>7. Count' = Count + 1
  <2>1. U8 + kb_buf_last' - kb_buf_first' \in 0..(2 * U8 - 1)
    BY <1>0, <1>4, <1>5
  <2>2. Count' = IF kb_buf_first' <= kb_buf_last'
                 THEN kb_buf_last' - kb_buf_first'
                 ELSE U8 + kb_buf_last' - kb_buf_first'
    BY SMTT(30), <1>0, <1>4, <1>5, <2>1, ModSmall DEF Count
  <2> QED BY <2>2, <1>0, <1>3, <1>4, <1>5, <1>6
<1>8. Gone' = Gone
  BY <1>2 DEF Gone
<1>9. \A j \in 0..(Count - 1) : At(kb_buf_first, j) # kb_buf_last
  BY <1>0, <1>3, <1>6 DEF At
<1>10. At(kb_buf_first, Count) = kb_buf_last
  BY <1>0, <1>3, <1>6 DEF At
<1>11. kb_buf'[kb_buf_last] = c
       /\ \A i \in Byte : i # kb_buf_last => kb_buf'[i] = kb_buf[i]
  BY <1>0, <1>4 DEF TypeOK
<1>12. Len(accepted) = Gone + Count
  BY DEF Lockstep
<1>13. \A j \in 0..(Count' - 1) :
         kb_buf'[At(kb_buf_first', j)] = accepted'[Gone' + j + 1]
  <2> SUFFICES ASSUME NEW j \in 0..Count
               PROVE  kb_buf'[At(kb_buf_first, j)] = accepted'[Gone + j + 1]
    BY <1>3, <1>4, <1>7, <1>8
  <2>1. CASE j = Count
    BY <2>1, <1>0, <1>1, <1>3, <1>10, <1>11, <1>12
  <2>2. CASE j # Count
    <3>1. j \in 0..(Count - 1)
      BY <2>2, <1>3
    <3>2. At(kb_buf_first, j) \in Byte /\ At(kb_buf_first, j) # kb_buf_last
      <4>1. At(kb_buf_first, j) \in Byte
        BY <3>1, <1>0, <1>3 DEF At
      <4> QED BY <3>1, <4>1, <1>9
    <3>3. Gone + j + 1 \in 1..Len(accepted)
      BY <3>1, <1>0, <1>3, <1>12
    <3>4. kb_buf[At(kb_buf_first, j)] = accepted[Gone + j + 1]
      BY <3>1 DEF Lockstep
    <3> QED BY <3>2, <3>3, <3>4, <1>1, <1>11
  <2> QED BY <2>1, <2>2
<1>14. pc = "slot" => /\ kb_buf_first' = Inc(reg)
                      /\ kb_buf'[reg] = accepted'[Gone]
                      /\ ~Aliased(reg)'
  <2> SUFFICES ASSUME pc = "slot"
               PROVE  /\ kb_buf_first' = Inc(reg)
                      /\ kb_buf'[reg] = accepted'[Gone]
                      /\ ~Aliased(reg)'
    OBVIOUS
  <2>1. /\ kb_buf_first = Inc(reg)
        /\ kb_buf[reg] = accepted[Gone]
        /\ ~Aliased(reg)
    BY DEF Lockstep
  <2>2. Inc(reg) = IF reg = U8 - 1 THEN 0 ELSE reg + 1
    BY <1>0, IncValue
  <2>3. reg # kb_buf_last
    BY <2>1, <2>2, <1>0, <1>3, <1>6
  <2>4. Gone \in 1..Len(accepted)
    BY <1>0, <1>3, <1>12
  <2> QED BY <2>1, <2>3, <2>4, <1>0, <1>1, <1>2, <1>4, <1>11 DEF Aliased
<1>15. layout' = "first_follows" => kb_buf_last' = Len(accepted')
  BY <1>0, <1>1, <1>2, <1>5 DEF Lockstep, Intact, BufLen
<1>16. \A k \in 1..Len(delivered') : delivered'[k] = accepted'[k]
  <2>1. Len(delivered) <= Len(accepted)
    BY <1>0, <1>3, <1>12
  <2>2. \A k \in 1..Len(delivered) : delivered[k] = accepted[k] /\ k \in 1..Len(accepted)
    BY <2>1, <1>0 DEF Lockstep
  <2>3. delivered' = delivered
    BY <1>2
  <2> QED BY <2>2, <2>3, <1>1
<1>17. Len(accepted') = Gone' + Count'
  <2>1. Len(accepted') = Len(accepted) + 1
    BY <1>1
  <2>2. Gone \in Int /\ Count \in Int
    BY <1>0, <1>3
  <2>3. Gone' + Count' = (Gone + Count) + 1
    BY <2>2, <1>7, <1>8
  <2> QED BY <2>1, <2>3, <1>12
<1>18. /\ pc' = "last" => reg' = kb_buf_first'
       /\ pc' = "index" => Count' > 0
       /\ pc' = "bump" => Count' > 0 /\ reg' = kb_buf_first'
  BY <1>2, <1>3, <1>4, <1>7 DEF Lockstep
<1>19. pc' = "slot" => /\ kb_buf_first' = Inc(reg)'
                       /\ kb_buf'[reg'] = accepted'[Gone']
                       /\ ~Aliased(reg)'
  BY <1>2, <1>8, <1>14 DEF Inc
<1> QED BY <1>13, <1>15, <1>16, <1>17, <1>18, <1>19 DEF Lockstep

\* Steps that touch neither the ring nor the histories keep the agreement as
\* long as they do not enter the second half of keyboard_read_next.
LEMMA ControlKeepsLockstep ==
    ASSUME TypeOK, Lockstep, UNCHANGED ring, UNCHANGED <<accepted, delivered>>,
           pc # "slot", pc' # "slot",
           pc' = "last" => reg' = kb_buf_first,
           pc' \in {"index", "bump"} => Count > 0,
           pc' = "bump" => reg' = kb_buf_first
    PROVE  Lockstep'
<1>1. Count' = Count /\ Gone' = Gone
  BY DEF Count, Gone, ring
<1>2. /\ Len(accepted) = Gone + Count
      /\ \A k \in 1..Len(delivered) : delivered[k] = accepted[k]
      /\ \A j \in 0..(Count - 1) : kb_buf[At(kb_buf_first, j)] = accepted[Gone + j + 1]
      /\ layout = "first_follows" => kb_buf_last = Len(accepted)
  BY DEF Lockstep
<1>3. /\ Len(accepted') = Gone' + Count'
      /\ \A k \in 1..Len(delivered') : delivered'[k] = accepted'[k]
      /\ \A j \in 0..(Count' - 1) :
            kb_buf'[At(kb_buf_first', j)] = accepted'[Gone' + j + 1]
      /\ layout' = "first_follows" => kb_buf_last' = Len(accepted')
  BY <1>1, <1>2 DEF ring
<1>4. /\ pc' = "last" => reg' = kb_buf_first'
      /\ pc' = "index" => Count' > 0
      /\ pc' = "bump" => Count' > 0 /\ reg' = kb_buf_first'
  BY <1>1 DEF ring
<1> QED BY <1>3, <1>4 DEF Lockstep

\* StoreFirst takes the oldest unread slot out of the ring.
LEMMA StoreFirstKeepsLockstep ==
    ASSUME TypeOK, Intact, Lockstep, StoreFirst
    PROVE  Lockstep'
<1>0. /\ U8 \in Nat /\ U8 > 1 /\ Byte = 0..(U8 - 1)
      /\ kb_buf_first \in Byte /\ kb_buf_last \in Byte /\ reg \in Byte
      /\ Len(accepted) \in Nat /\ Len(delivered) \in Nat /\ Gone \in Nat
      /\ Gone = IF pc = "slot" THEN Len(delivered) + 1 ELSE Len(delivered)
  BY Types
<1>1. /\ pc = "bump" /\ pc' = "slot"
      /\ kb_buf_first' = Inc(reg)
      /\ UNCHANGED <<kb_buf, kb_buf_last, layout, reg, accepted, delivered>>
  BY DEF StoreFirst, Step, history
<1>2. /\ Count > 0 /\ reg = kb_buf_first
      /\ Len(accepted) = Gone + Count
      /\ \A j \in 0..(Count - 1) : kb_buf[At(kb_buf_first, j)] = accepted[Gone + j + 1]
  BY <1>1 DEF Lockstep
<1>3. kb_buf_first' = IF kb_buf_first = U8 - 1 THEN 0 ELSE kb_buf_first + 1
  BY <1>0, <1>1, <1>2, IncValue
<1>4. /\ Count = IF kb_buf_first <= kb_buf_last
                 THEN kb_buf_last - kb_buf_first
                 ELSE U8 + kb_buf_last - kb_buf_first
      /\ Count \in 0..(U8 - 1)
  BY <1>0, CountValue
<1>5. Count' = Count - 1
  <2>1. U8 + kb_buf_last - kb_buf_first' \in 0..(2 * U8 - 1)
    BY <1>0, <1>3
  <2>2. Count' = IF kb_buf_first' <= kb_buf_last
                 THEN kb_buf_last - kb_buf_first'
                 ELSE U8 + kb_buf_last - kb_buf_first'
    BY <1>0, <1>1, <1>3, <2>1, ModSmall DEF Count
  <2> QED BY SMTT(30), <2>2, <1>0, <1>2, <1>3, <1>4
<1>6. Gone' = Gone + 1 /\ Gone = Len(delivered)
  BY <1>0, <1>1 DEF Gone
<1>13. Gone \in Int /\ Count \in Int
  BY <1>0, <1>4
<1>7. Len(accepted') = Gone' + Count'
  <2>1. Gone + Count = (Gone + 1) + (Count - 1)
    BY <1>13
  <2> QED BY <2>1, <1>1, <1>2, <1>5, <1>6
<1>8. \A j \in 0..(Count' - 1) :
         kb_buf'[At(kb_buf_first', j)] = accepted'[Gone' + j + 1]
  <2> SUFFICES ASSUME NEW j \in 0..(Count - 2)
               PROVE  kb_buf[At(kb_buf_first', j)] = accepted[Gone + 1 + j + 1]
    BY <1>1, <1>13, <1>5, <1>6
  <2>1. At(kb_buf_first', j) = At(kb_buf_first, j + 1)
    BY <1>0, <1>3, <1>4 DEF At
  <2>2. j + 1 \in 0..(Count - 1) /\ Gone + (j + 1) + 1 = Gone + 1 + j + 1
    BY <1>13
  <2> QED BY <2>1, <2>2, <1>2
<1>9. kb_buf'[reg'] = accepted'[Gone']
  <2>1. 0 \in 0..(Count - 1) /\ At(kb_buf_first, 0) = kb_buf_first /\ Gone + 0 + 1 = Gone + 1
    BY <1>0, <1>2, <1>4 DEF At
  <2> QED BY <2>1, <1>1, <1>2, <1>6
<1>10. ~Aliased(reg)'
  <2> SUFFICES ASSUME layout = "first_follows", reg = BufLen PROVE FALSE
    BY <1>1 DEF Aliased
  <2>1. kb_buf_last = Gone + Count
    BY <1>2 DEF Lockstep
  <2>2. kb_buf_first = U8 - 1 /\ kb_buf_first <= kb_buf_last => Count = 0
    BY <1>0, <1>4
  <2>3. kb_buf_first > kb_buf_last => Count = U8 + kb_buf_last - kb_buf_first
    BY <1>0, <1>4
  <2>4. kb_buf_first = U8 - 1
    BY <1>2 DEF BufLen
  <2>5. Count = 1 + kb_buf_last /\ kb_buf_last < U8 - 1
    BY <1>0, <1>2, <2>2, <2>3, <2>4, <1>13
  <2> QED BY <2>1, <2>5, <1>0, <1>13
<1>11. kb_buf_first' = Inc(reg)'
  BY <1>1 DEF Inc
<1>12. /\ \A k \in 1..Len(delivered') : delivered'[k] = accepted'[k]
       /\ layout' = "first_follows" => kb_buf_last' = Len(accepted')
  BY <1>1 DEF Lockstep
<1> QED BY <1>1, <1>7, <1>8, <1>9, <1>10, <1>11, <1>12 DEF Lockstep

\* LoadSlot hands out the key whose turn it is, and it is a key.
LEMMA LoadSlotReturnsNext ==
    ASSUME TypeOK, Lockstep, LoadSlot
    PROVE  /\ Len(delivered) + 1 \in 1..Len(accepted)
           /\ delivered' = Append(delivered, accepted[Len(delivered) + 1])
<1>0. /\ U8 \in Nat /\ U8 > 1 /\ Byte = 0..(U8 - 1)
      /\ kb_buf_first \in Byte /\ kb_buf_last \in Byte /\ reg \in Byte
      /\ Len(accepted) \in Nat /\ Len(delivered) \in Nat /\ Gone \in Nat
      /\ Gone = IF pc = "slot" THEN Len(delivered) + 1 ELSE Len(delivered)
  BY Types
<1>1. pc = "slot" /\ Return(Slot(reg))
  BY DEF LoadSlot, Step
<1>2. Gone = Len(delivered) + 1
  BY <1>0, <1>1
<1>3. Slot(reg) = accepted[Gone] /\ Len(accepted) = Gone + Count
  BY <1>1 DEF Slot, Lockstep
<1>4. Count \in 0..(U8 - 1)
  BY <1>0, CountValue
<1>5. Gone \in 1..Len(accepted)
  BY <1>0, <1>2, <1>3, <1>4
<1>6. accepted[Gone] # NoKey
  <2>1. accepted[Gone] \in Scan
    BY <1>5 DEF TypeOK
  <2> QED BY <2>1, KeyboardAssumption DEF NoKey, KeyboardAssumption
<1> QED BY <1>1, <1>2, <1>3, <1>5, <1>6 DEF Return

LEMMA LoadSlotKeepsLockstep ==
    ASSUME TypeOK, Lockstep, LoadSlot
    PROVE  Lockstep'
<1>0. /\ Len(accepted) \in Nat /\ Len(delivered) \in Nat
      /\ Gone = IF pc = "slot" THEN Len(delivered) + 1 ELSE Len(delivered)
  BY Types
<1>1. /\ pc = "slot" /\ pc' = "call"
      /\ UNCHANGED <<kb_buf, kb_buf_first, kb_buf_last, layout, accepted>>
  BY DEF LoadSlot, Step, Return, ring
<1>2. /\ Len(delivered) + 1 \in 1..Len(accepted)
      /\ delivered' = Append(delivered, accepted[Len(delivered) + 1])
  BY LoadSlotReturnsNext
<1>3. /\ Len(delivered') = Len(delivered) + 1
      /\ delivered'[Len(delivered) + 1] = accepted[Len(delivered) + 1]
      /\ \A k \in 1..Len(delivered) : delivered'[k] = delivered[k]
  BY <1>2, KeyboardAssumption DEF TypeOK, Byte, KeyboardAssumption
<1>4. Gone' = Gone /\ Count' = Count
  BY <1>0, <1>1, <1>3 DEF Gone, Count
<1>5. \A k \in 1..Len(delivered') : delivered'[k] = accepted[k]
  <2> SUFFICES ASSUME NEW k \in 1..(Len(delivered) + 1) PROVE delivered'[k] = accepted[k]
    BY <1>3
  <2>1. k = Len(delivered) + 1 \/ k \in 1..Len(delivered)
    BY <1>0
  <2> QED BY <2>1, <1>3 DEF Lockstep
<1> QED BY <1>1, <1>4, <1>5 DEF Lockstep

-----------------------------------------------------------------------------
(* The theorems *)

LEMMA InitIInv == Init => IInv
<1> SUFFICES ASSUME Init PROVE IInv
  OBVIOUS
<1>1. TypeOK
  <2>1. 0 \in Byte
    BY KeyboardAssumption DEF Byte, KeyboardAssumption
  <2> QED BY <2>1 DEF Init, TypeOK
<1>2. Count = 0 /\ Gone = 0
  <2>1. Count = 0
    BY <1>1, CountValue DEF Init, TypeOK
  <2> QED BY <2>1 DEF Init, Gone
<1>3. Lockstep
  BY <1>2 DEF Init, Lockstep
<1> QED BY <1>1, <1>3 DEF IInv, Resting, Init

\* While the ring stays intact every step keeps the agreement.
LEMMA StepKeepsLockstep ==
    ASSUME TypeOK, TypeOK', Resting, Intact, Intact', Lockstep,
           Next \/ UNCHANGED vars
    PROVE  Lockstep'
<1>1. ASSUME NEW c \in Scan, keyboard_handler(c) PROVE Lockstep'
  BY <1>1, HandlerKeepsLockstep
<1>2. CASE LoadFirst
  BY <1>2, ControlKeepsLockstep DEF LoadFirst, Step, history
<1>3. CASE CompareEmpty
  BY <1>3, ControlKeepsLockstep DEF CompareEmpty, Step, Return, NoKey
<1>4. CASE CompareNonEmpty
  <2>1. Count > 0
    <3>1. reg = kb_buf_first /\ reg # kb_buf_last
      BY <1>4 DEF CompareNonEmpty, Step, Lockstep
    <3> QED BY <3>1, Types, CountValue
  <2> QED BY <1>4, <2>1, ControlKeepsLockstep DEF CompareNonEmpty, Step, history
<1>5. CASE LoadIndex
  <2>1. Count > 0
    BY <1>5 DEF LoadIndex, Step, Lockstep
  <2> QED BY <1>5, <2>1, ControlKeepsLockstep DEF LoadIndex, Step, history
<1>6. CASE StoreFirst
  BY <1>6, StoreFirstKeepsLockstep
<1>7. CASE LoadSlot
  BY <1>7, LoadSlotKeepsLockstep
<1>8. ASSUME pc = "call", NEW who, Enter(who) PROVE Lockstep'
  BY <1>8, ControlKeepsLockstep DEF Enter, history
<1>9. ASSUME pc = "call", Leave PROVE Lockstep'
  BY <1>9, ControlKeepsLockstep DEF Leave, history
<1>10. CASE wait_any_key \/ kgetch \/ SpaceBarLoop
  BY <1>10, <1>8, <1>9 DEF wait_any_key, kgetch, SpaceBarLoop, Step
<1>11. CASE CallWaitAnyKey \/ CallSpaceBarLoop
  BY <1>11, <1>8 DEF CallWaitAnyKey, CallSpaceBarLoop, Resting
<1>12. CASE UNCHANGED vars
  BY <1>12 DEF vars, ring, main, history, Lockstep, Gone, Count, At, Inc, Aliased
<1> QED BY <1>1, <1>2, <1>3, <1>4, <1>5, <1>6, <1>7, <1>10, <1>11, <1>12
        DEF Next, Interrupts, Reading, keyboard_read_next, KeyReleased, RingThreeFault

LEMMA StepKeepsResting ==
    ASSUME TypeOK, Resting, Next \/ UNCHANGED vars
    PROVE  Resting'
<1>1. CASE UNCHANGED main
  BY <1>1 DEF Resting, main
<1>2. CASE keyboard_read_next
  BY <1>2 DEF keyboard_read_next, LoadFirst, CompareEmpty, CompareNonEmpty, LoadIndex,
              StoreFirst, LoadSlot, Return, Step, Resting
<1>3. CASE wait_any_key \/ kgetch \/ SpaceBarLoop \/ CallWaitAnyKey \/ CallSpaceBarLoop
  BY <1>3 DEF wait_any_key, kgetch, SpaceBarLoop, CallWaitAnyKey, CallSpaceBarLoop,
              Enter, Leave, Resting
<1> QED BY <1>1, <1>2, <1>3
        DEF Next, Interrupts, Reading, KeyReleased, RingThreeFault, keyboard_handler, vars

\* The invariant that carries everything below.
THEOREM Inductive == Spec => []IInv
<1>1. ASSUME IInv, TypeOK', [Next]_vars PROVE IInv'
  <2>1. Intact' => Lockstep'
    BY <1>1, IntactBefore, StepKeepsLockstep DEF IInv
  <2> QED BY <1>1, <2>1, StepKeepsResting DEF IInv
<1>2. Init => IInv
  BY InitIInv
<1> QED BY <1>1, <1>2, TypeCorrect, PTL DEF Spec

\* An intact ring holds every key that was stored and not yet handed out, in
\* order, for every ring size and any interleaving of IRQ 1 with the reader.
THEOREM InOrder == Spec => []KeysInOrder
<1>1. IInv => KeysInOrder
  <2> SUFFICES ASSUME TypeOK, Lockstep PROVE accepted = delivered \o InHand \o Unread
    BY DEF IInv, KeysInOrder
  <2>0. /\ U8 \in Nat /\ U8 > 1 /\ Byte = 0..(U8 - 1)
        /\ kb_buf_first \in Byte /\ kb_buf_last \in Byte /\ reg \in Byte
        /\ Len(accepted) \in Nat /\ Len(delivered) \in Nat /\ Gone \in Nat
        /\ Gone = IF pc = "slot" THEN Len(delivered) + 1 ELSE Len(delivered)
    BY Types
  <2>1. Count \in 0..(U8 - 1)
    BY <2>0, CountValue
  <2>2. Unread \in Seq(Byte) /\ Len(Unread) = Count
    <3>1. \A j \in 1..Count : (kb_buf_first + j - 1) % U8 \in Byte
      BY <2>0, <2>1
    <3> QED BY <3>1, <2>1 DEF Unread, TypeOK
  <2>3. \A j \in 1..Count : Unread[j] = accepted[Gone + j]
    <3> SUFFICES ASSUME NEW j \in 1..Count PROVE Unread[j] = accepted[Gone + j]
      OBVIOUS
    <3>1. j - 1 \in 0..(U8 - 1) /\ j - 1 \in 0..(Count - 1)
      BY <2>0, <2>1
    <3>2. (kb_buf_first + (j - 1)) % U8 = At(kb_buf_first, j - 1)
      BY <2>0, <3>1, AtValue
    <3>3. kb_buf_first + (j - 1) = kb_buf_first + j - 1 /\ Gone + (j - 1) + 1 = Gone + j
      BY <2>0, <2>1
    <3>4. kb_buf[At(kb_buf_first, j - 1)] = accepted[Gone + (j - 1) + 1]
      BY <3>1 DEF Lockstep
    <3> QED BY <3>2, <3>3, <3>4 DEF Unread
  <2>4. /\ InHand \in Seq(Byte)
        /\ Len(InHand) = Gone - Len(delivered)
        /\ pc = "slot" => InHand[1] = accepted[Len(delivered) + 1]
    <3>1. CASE pc = "slot"
      <4>1. kb_buf[reg] \in Byte /\ kb_buf[reg] = accepted[Gone]
        BY <3>1 DEF Lockstep, TypeOK
      <4>2. Gone = Len(delivered) + 1 /\ Gone - Len(delivered) = 1
        BY <2>0, <3>1
      <4> QED BY <3>1, <4>1, <4>2 DEF InHand
    <3>2. CASE pc # "slot"
      <4>1. Gone - Len(delivered) = 0
        BY <2>0, <3>2
      <4> QED BY <3>2, <4>1 DEF InHand
    <3> QED BY <3>1, <3>2
  <2>5. Len(delivered) + Len(InHand) = Gone
    <3>1. Gone \in Int /\ Len(delivered) \in Int
      BY <2>0
    <3> QED BY <3>1, <2>4
  <2> DEFINE out == delivered \o InHand
  <2>6. /\ out \in Seq(Byte) /\ Len(out) = Gone
        /\ \A k \in 1..Gone :
             out[k] = IF k <= Len(delivered) THEN delivered[k] ELSE InHand[k - Len(delivered)]
    <3>1. delivered \in Seq(Byte) /\ InHand \in Seq(Byte)
      BY <2>4 DEF TypeOK
    <3> QED BY <3>1, <2>5, ConcatProperties
  <2> HIDE DEF out
  <2>7. \A k \in 1..Gone : out[k] = accepted[k]
    <3> SUFFICES ASSUME NEW k \in 1..Gone PROVE out[k] = accepted[k]
      OBVIOUS
    <3>1. CASE k <= Len(delivered)
      BY <3>1, <2>0, <2>6 DEF Lockstep
    <3>2. CASE k > Len(delivered)
      <4>1. pc = "slot" /\ k = Len(delivered) + 1 /\ k - Len(delivered) = 1
        BY <3>2, <2>0
      <4>2. ~(k <= Len(delivered))
        BY <3>2, <2>0
      <4>3. out[k] = InHand[1]
        BY <4>1, <4>2, <2>6
      <4> QED BY <4>1, <4>3, <2>4
    <3> QED BY <3>1, <3>2, <2>0
  <2>8. Len(accepted) = Gone + Count
    BY DEF Lockstep
  <2>9. /\ out \o Unread \in Seq(Byte) /\ Len(out \o Unread) = Len(accepted)
        /\ \A k \in 1..(Gone + Count) :
             (out \o Unread)[k] = IF k <= Gone THEN out[k] ELSE Unread[k - Gone]
    BY <2>2, <2>6, <2>8, ConcatProperties
  <2>10. \A k \in 1..Len(accepted) : accepted[k] = (out \o Unread)[k]
    <3> SUFFICES ASSUME NEW k \in 1..(Gone + Count)
                 PROVE  accepted[k] = (out \o Unread)[k]
      BY <2>8
    <3>1. CASE k <= Gone
      <4>1. k \in 1..Gone
        BY <3>1, <2>0, <2>1
      <4> QED BY <4>1, <3>1, <2>7, <2>9
    <3>2. CASE ~(k <= Gone)
      <4>1. k - Gone \in 1..Count /\ Gone + (k - Gone) = k /\ ~(k <= Gone)
        BY <3>2, <2>0, <2>1
      <4>2. Unread[k - Gone] = accepted[Gone + (k - Gone)]
        BY <4>1, <2>3
      <4>3. (out \o Unread)[k] = Unread[k - Gone]
        BY <4>1, <2>9
      <4> QED BY <4>1, <4>2, <4>3
    <3> QED BY <3>1, <3>2
  <2>11. accepted \in Seq(Byte)
    <3>1. Scan \subseteq Byte
      BY KeyboardAssumption DEF Byte, KeyboardAssumption
    <3> QED BY <3>1, SeqMonotonic DEF TypeOK
  <2>12. accepted = out \o Unread
    BY <2>9, <2>10, <2>11, SeqEqual
  <2> QED BY <2>12 DEF out
<1> QED BY <1>1, Inductive, PTL

\* Equal lengths and equal keys: when the ring is empty nothing is pending.
LEMMA EmptyRing ==
    ASSUME TypeOK, Lockstep, Gone = Len(delivered), Count = 0
    PROVE  delivered = accepted
<1>1. delivered \in Seq(Byte) /\ accepted \in Seq(Byte)
  <2>1. Scan \subseteq Byte
    BY KeyboardAssumption DEF Byte, KeyboardAssumption
  <2> QED BY <2>1, SeqMonotonic DEF TypeOK
<1>2. Len(delivered) = Len(accepted)
  <2>1. Len(delivered) \in Int
    BY Types
  <2> QED BY <2>1 DEF Lockstep
<1>3. \A k \in 1..Len(delivered) : delivered[k] = accepted[k]
  BY DEF Lockstep
<1> QED BY <1>1, <1>2, <1>3, SeqEqual

\* keyboard_read_next reports an empty ring only when no key is waiting, however
\* IRQ 1 falls between its two loads.
THEOREM EmptyIsEmpty == Spec => EmptyMeansAllDelivered
<1>1. ASSUME IInv, CompareEmpty, Intact PROVE delivered = accepted
  <2>1. TypeOK /\ Lockstep
    BY <1>1 DEF IInv
  <2>2. pc = "last" /\ reg = kb_buf_last /\ reg = kb_buf_first
    BY <1>1, <2>1 DEF CompareEmpty, Step, Lockstep
  <2>3. Count = 0
    BY <2>1, <2>2, Types, CountValue
  <2>4. Gone = Len(delivered)
    BY <2>1, <2>2, Types
  <2> QED BY <2>1, <2>3, <2>4, EmptyRing
<1> QED BY <1>1, Inductive, PTL DEF EmptyMeansAllDelivered

\* The histories move only where keys are stored and handed out.
LEMMA SilentSteps ==
    ASSUME Next \/ UNCHANGED vars,
           ~LoadSlot, \A c \in Scan : ~keyboard_handler(c)
    PROVE  UNCHANGED <<accepted, delivered, overrun, layout>>
BY DEF Next, Interrupts, Reading, KeyReleased, RingThreeFault, keyboard_read_next,
       LoadFirst, CompareEmpty, CompareNonEmpty, LoadIndex, StoreFirst, Return, NoKey,
       wait_any_key, kgetch, SpaceBarLoop, CallWaitAnyKey, CallSpaceBarLoop,
       Enter, Leave, vars, ring, main, history

\* The keyboard buffer, with its unlocked indices, implements the queue of
\* ScanQueue: keys leave in the order of arrival for as long as the ring is
\* intact, and it does not break before U8 - 1 keys were pressed.
THEOREM Refinement == Spec => ImplementsQueue
<1>1. Init => Queue!Init
  BY KeyboardAssumption DEF Init, Queue!Init, Intact, BufLen, KeyboardAssumption
<1>2. ASSUME IInv, [Next]_vars PROVE [Queue!Next]_(Queue!queueVars)
  <2> USE DEF Queue!Next, Queue!queueVars
  <2>0. TypeOK /\ (Intact => Lockstep) /\ (Next \/ UNCHANGED vars)
    BY <1>2 DEF IInv
  <2>1. CASE ~Intact
    <3>1. ~Intact'
      BY <2>0, <2>1, IntactBefore
    <3> QED BY <2>1, <3>1 DEF Queue!AfterBreak
  <2>2. ASSUME Intact, NEW c \in Scan, keyboard_handler(c)
        PROVE  [Queue!Next]_(Queue!queueVars)
    <3>1. /\ accepted' = Append(accepted, c) /\ delivered' = delivered
          /\ layout' = layout
          /\ overrun' => Count = U8 - 1
      BY <2>2 DEF keyboard_handler, StoreScancode, Intact
    <3>2. CASE Intact'
      BY <2>2, <3>1, <3>2 DEF Queue!Arrive
    <3>3. CASE ~Intact'
      <4>1. /\ U8 \in Nat /\ Gone \in Nat /\ Len(accepted) \in Nat
            /\ Len(accepted') = Len(accepted) + 1
            /\ Len(accepted) = Gone + Count
        BY <2>0, <2>2, <3>1, Types DEF Lockstep, TypeOK
      <4>2. overrun' \/ Len(accepted') > BufLen
        BY <3>3, <4>1 DEF Intact, BufLen
      <4>3. Len(accepted) >= BufLen
        BY <4>1, <4>2, <3>1 DEF BufLen
      <4> QED BY <3>3, <4>3 DEF Queue!Break
    <3> QED BY <3>2, <3>3
  <2>3. CASE Intact /\ LoadSlot
    <3>1. /\ Len(delivered) + 1 \in 1..Len(accepted)
          /\ delivered' = Append(delivered, accepted[Len(delivered) + 1])
      BY <2>0, <2>3, LoadSlotReturnsNext
    <3>2. UNCHANGED accepted /\ Intact'
      BY <2>3 DEF LoadSlot, Return, ring, Intact
    <3>3. Len(delivered) < Len(accepted)
      <4>1. Len(delivered) \in Nat /\ Len(accepted) \in Nat
        BY <2>0, Types
      <4> QED BY <3>1, <4>1
    <3> QED BY <2>3, <3>1, <3>2, <3>3 DEF Queue!Take
  <2>4. CASE Intact /\ ~LoadSlot /\ \A c \in Scan : ~keyboard_handler(c)
    <3>1. UNCHANGED <<accepted, delivered, overrun, layout>>
      BY <2>0, <2>4, SilentSteps
    <3> QED BY <3>1 DEF Intact
  <2> QED BY <2>1, <2>2, <2>3, <2>4
<1> QED BY <1>1, <1>2, Inductive, PTL DEF Spec, ImplementsQueue, Queue!Spec
=============================================================================
