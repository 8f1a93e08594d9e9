---------------------------- MODULE Descriptors ----------------------------
(***************************************************************************)
(* The descriptor tables (gdt.c, isrs.c) and the remapping of the two      *)
(* interrupt controllers (isrs.c).  A u32 is its four bytes, least         *)
(* significant first; a table entry is its eight bytes in memory.  The     *)
(* processor and the controllers read them back.                           *)
(***************************************************************************)
EXTENDS Loops, Sequences

CONSTANTS TssSize      \* sizeof(tss_entry), 104
ASSUME DescriptorsAssumption == TssSize \in Nat

Bytes(n) == <<n % 256, (n \div 256) % 256, (n \div 65536) % 256,
              (n \div 16777216) % 256>>
AllOnes == <<255, 255, 255, 255>>

gdt_set_gate(base, limit, access, gran) ==
    <<limit[1], limit[2], base[1], base[2], base[3], access,
      ((gran \div 16) * 16) + (limit[3] % 16), base[4]>>

\* gdt_install: entries 0 to 5; write_tss gives the TSS one byte too much.
gdt(tss) == <<gdt_set_gate(Bytes(0), Bytes(0), 0, 0),
              gdt_set_gate(Bytes(0), AllOnes, \h9a, \hcf),
              gdt_set_gate(Bytes(0), AllOnes, \h92, \hcf),
              gdt_set_gate(Bytes(0), AllOnes, \hfa, \hcf),
              gdt_set_gate(Bytes(0), AllOnes, \hf2, \hcf),
              gdt_set_gate(Bytes(tss), Bytes(tss + TssSize), \he9, 0)>>

idt_set_gate(base, sel, flags) ==
    <<base[1], base[2], sel % 256, sel \div 256, 0, flags, base[3], base[4]>>

\* isrs_install: the gate of vector n leads to the n-th stub, at stub[n].
idt(stub) == [n \in 0..47 |->
    idt_set_gate(Bytes(stub[n]), 8, IF n \in {3, 4, 5} THEN \hef
                                    ELSE IF n < 32 THEN \h8f ELSE \h8e)]

-----------------------------------------------------------------------------
(* The 8259 controllers, 1 and 2: command port and data port.  After ICW1  *)
(* three data bytes are ICW2 to ICW4; otherwise data is the mask.          *)

Command(pic, val) == [pic |-> pic, cmd |-> TRUE, val |-> val]
Data(pic, val) == [pic |-> pic, cmd |-> FALSE, val |-> val]

\* mutant of irq_remap: ICW4 is forgotten
RemapNoIcw4(primary, secondary, masks) ==
    <<Command(1, \h11), Command(2, \h11), Data(1, primary), Data(2, secondary),
      Data(1, 4), Data(2, 2), Data(1, \h20), Data(2, \h20),
      Data(1, masks[1]), Data(2, masks[2])>>
\* The writes; "reset" sends the EOI command to the data ports, as a mask.
irq_remap(primary, secondary, masks) ==
    <<Command(1, \h11), Command(2, \h11), Data(1, primary), Data(2, secondary),
      Data(1, 4), Data(2, 2), Data(1, 1), Data(2, 1), Data(1, \h20), Data(2, \h20),
      Data(1, masks[1]), Data(2, masks[2])>>

PowerOn(mask) == [icw |-> 5, base |-> 0, cascade |-> 0, mode |-> 0, mask |-> mask]
Take(p, w) ==
    LET Read(icw, old) == IF ~w.cmd /\ p.icw = icw THEN w.val ELSE old
    IN [icw |-> IF w.cmd THEN 2 ELSE IF p.icw < 5 THEN p.icw + 1 ELSE 5,
        base |-> Read(2, p.base), cascade |-> Read(3, p.cascade),
        mode |-> Read(4, p.mode), mask |-> IF w.cmd THEN 0 ELSE Read(5, p.mask)]
Controller == [icw : Nat, base : Nat, cascade : Nat, mode : Nat, mask : Nat]
Controllers(masks, writes) ==
    LET once[i \in 1..Len(writes)] == [s \in [{1, 2} -> Controller] |->
            [s EXCEPT ![writes[i].pic] = Take(@, writes[i])]]
    IN Loop(once, [pic \in {1, 2} |-> PowerOn(masks[pic])], Len(writes))

-----------------------------------------------------------------------------
(* What the processor reads *)

Word16(lo, hi) == lo + 256 * hi
SegmentBase(e) == Word16(e[3], e[4]) + 65536 * e[5] + 16777216 * e[8]
SegmentLimit(e) == Word16(e[1], e[2]) + (65536 * (e[7] % 16))
Segment(e) == [base |-> SegmentBase(e), limit |-> SegmentLimit(e),
               pages |-> e[7] >= 128, dpl |-> (e[6] \div 32) % 4,
               type |-> e[6] % 32, present |-> e[6] >= 128]
Gate(e) == [offset |-> Word16(e[1], e[2]) + 65536 * Word16(e[7], e[8]),
            selector |-> Word16(e[3], e[4]), dpl |-> (e[6] \div 32) % 4,
            type |-> e[6] % 32, present |-> e[6] >= 128]
=============================================================================
