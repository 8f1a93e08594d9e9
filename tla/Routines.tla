------------------------------ MODULE Routines ------------------------------
(***************************************************************************)
(* The kernel's sequential routines, each called once with one of many     *)
(* arguments: what memory, text, pixels or device registers it leaves,     *)
(* against what it is for.                                                 *)
(***************************************************************************)
EXTENDS MemoryOps, Format, Vga, Descriptors, SequencesExt

CONSTANTS Memory,        \* the memory the memory routines work on
          MemorySize,    \* its bytes
          Numbers,       \* printed by the integer routines, in [0, U32)
          LongNumbers,   \* by the 64-bit ones
          Reals,         \* by writeReal
          Sizes,         \* widths and heights asked for
          Grid,          \* coordinates of lines and vertices
          TssAddresses, Masks
ASSUME RoutinesAssumption == /\ MemorySize \in Nat
                             /\ Memory \in [0..(MemorySize - 1) -> Byte]
                             /\ Masks \subseteq Nat /\ Grid \subseteq Int
                             /\ Numbers \subseteq 0..(U32 - 1)
                             \* 32 bits
                             /\ TssAddresses \subseteq Nat
                             /\ \A t \in TssAddresses : t \div 16777216 < 256
\* Reals: up to INT32_MAX, 64 bits and a fraction that all the digits express;
\* beyond, what a real64 can be.
Written(r) == \E k \in 0..MAX_FLOATING_FRACTIONAL_DIGITS :
                 /\ r = <<r[1], Power(2, k)>> /\ r[1] \in Int
                 /\ r[1] > -(Power(2, LongBits - 1) * Power(2, k))
Large(r) == r[1] > INT32_MAX * r[2]
ASSUME NumbersAssumption ==
    /\ LongNumbers \subseteq 0..(Power(2, LongBits) - 1)
    /\ \A r \in Reals :
          /\ Written(r)
          /\ Large(r) => \E e \in 0..MaxExponent :
                /\ Between(r, e)
                /\ (r[1] * Power(2, MantissaBits)) % (r[2] * Power(2, e)) = 0

VARIABLES job, out, done
vars == <<job, out, done>>

Asked ==
    \/ /\ job \in [op : {"move", "compare"}, d : DOMAIN Memory, s : DOMAIN Memory,
                   n : 0..MemorySize]
       /\ {job.d + job.n, job.s + job.n} \subseteq 0..MemorySize
    \/ /\ job \in [op : {"find"}, s : DOMAIN Memory, n : DOMAIN Memory,
                   c : {Memory[i] : i \in DOMAIN Memory} \cup {0}]
       /\ job.s + job.n <= MemorySize
    \/ job \in [op : {"print"}, num : Numbers]
    \/ job \in [op : {"print64"}, num : LongNumbers]
    \/ job \in [op : {"real"}, num : Reals]
    \/ job \in [op : {"mode"}, w : Sizes, h : Sizes, chain4 : BOOLEAN]
    \/ job \in [op : {"polygon"}, p : [1..3 -> Grid \X Grid]]
    \/ job \in [op : {"gdt"}, tss : TssAddresses]
    \/ job \in [op : {"idt"}, masks : Masks \X Masks]
Init == Asked /\ out = <<>> /\ done = FALSE

Call(op) == ~done /\ job.op = op /\ done' = TRUE /\ UNCHANGED job

Move == Call("move") /\ out' = kmemmove(Memory, job.d, job.s, job.n)
Compare == Call("compare") /\ out' = kmemcmp(Memory, job.d, job.s, job.n)
Find == Call("find") /\ out' = <<kmemchr(Memory, job.s, job.c, job.n),
                                 kmemrchr(Memory, job.s, job.c, job.n)>>
PrintInt == Call("print")
            /\ out' = [u |-> directive("u", job.num), pos |-> directive("d", job.num),
                       neg |-> directive("d", -job.num), bin |-> directive("b", job.num),
                       hex |-> directive("x", job.num)]
PrintLong == Call("print64")
             /\ out' = <<directive("q", job.num), writeInt64(-job.num)>>
PrintReal == Call("real") /\ out' = directive("f", job.num)
SetMode == Call("mode") /\ out' = init_graph_vga(job.w, job.h, job.chain4)
Draw == Call("polygon") /\ out' = polygon(job.p)
InstallGdt == Call("gdt") /\ out' = gdt(job.tss)
Stub(n) == 1048576 + 65539 * n
InstallIdt == Call("idt")
              /\ out' = [gates |-> idt([n \in 0..47 |-> Stub(n)]),
                         pics |-> Controllers(job.masks,
                                              irq_remap(\h20, \h28, job.masks))]

Next == \/ Move \/ Compare \/ Find \/ PrintInt \/ PrintLong \/ PrintReal
        \/ SetMode \/ Draw \/ InstallGdt \/ InstallIdt
Spec == Init /\ [][Next]_vars

-----------------------------------------------------------------------------
(* Properties *)

After(op) == done /\ job.op = op
Span(s, n) == s..(s + n - 1)

\* kmemmove copies as if by way of a second buffer, however the regions overlap
\* and whatever their alignment; kmemchr and kmemrchr find the first and the last
\* one, word by word or not; kmemcmp is zero for equal regions (main.c:148-232).
MemoryAsPromised ==
    /\ After("move") => \A i \in DOMAIN Memory :
           out[i] = IF i \in Span(job.d, job.n) THEN Memory[i - job.d + job.s]
                    ELSE Memory[i]
    /\ After("compare") => (out = 0 <=> \A k \in 0..(job.n - 1) :
                                Memory[job.d + k] = Memory[job.s + k])
    /\ After("find") =>
           LET at == {i \in Span(job.s, job.n) : Memory[i] = job.c}
           IN IF at = {} THEN out = <<NULL, NULL>>
              ELSE /\ {out[1], out[2]} \subseteq at
                   /\ \A i \in at : out[1] <= i /\ i <= out[2]

ValueOf(text, radix) ==
    LET once[i \in 1..Len(text)] == [v \in Nat |->
            v * radix + (CHOOSE d \in 0..15 : Digit(d) = text[i])]
    IN Loop(once, 0, Len(text))
Reads(text, num) ==
    /\ text # <<>> /\ (text[1] = "-" <=> num < 0)
    /\ num = (IF num < 0 THEN -ValueOf(Tail(text), 10) ELSE ValueOf(text, 10))
Short(text) == Len(text) > 1 => text[1] # "0"

\* div64_slow by 10 fails exactly at 10 times a power of two from the first on,
\* and one above it.
Slips(n) == \E m \in 1..LongBits : n - 10 * Power(2, m) \in {0, 1}
Exact(n) ==
    LET once[i \in 1..LongBits] == [x \in [n : Nat, exact : BOOLEAN] |->
            [n |-> x.n \div 10, exact |-> x.exact /\ ~Slips(x.n)]]
    IN Loop(once, [n |-> n, exact |-> TRUE], LongBits).exact

\* What is printed for a u32, an i32 (the least one too), in hexadecimal and in
\* binary reads back as the number; decimals have no leading zeros, the others
\* their full length (scrn.c:207-217, 365-393, 506-536, 573-587).
IntegersReadBack ==
    After("print") =>
        /\ Reads(out.u, job.num) /\ Short(out.u)
        /\ job.num < U32 \div 2 => Reads(out.pos, job.num)
        /\ job.num <= U32 \div 2 => Reads(out.neg, -job.num)
        /\ ValueOf(SubSeq(out.hex, 3, Len(out.hex)), 16) = job.num
        /\ ValueOf(SubSeq(out.bin, 3, Len(out.bin)), 2) = job.num
        /\ Len(out.bin) = 2 + Bits /\ Len(out.hex) = 2 + Bits \div 4

\* What the 64-bit routines and writeReal print reads back exactly when no step of
\* the slow division slips (scrn.c:296-327: writeUInt64 prints 15 for 20).  Beyond
\* INT32_MAX writeReal prints the exponent, and 32 of the mantissa's 52 bits.
LongsReadBack ==
    /\ After("print64") => /\ Reads(out[1], job.num) <=> Exact(job.num)
                           /\ Reads(out[2], -job.num) <=> Exact(job.num)
    /\ After("real") /\ ~Large(job.num) =>
           LET n == IF job.num[1] < 0 THEN -job.num[1] ELSE job.num[1]
               text == IF job.num[1] < 0 THEN Tail(out) ELSE out
               dot == CHOOSE i \in DOMAIN text : text[i] = "."
               frac == SubSeq(text, dot + 1, Len(text))
           IN /\ (job.num[1] < 0) <=> (out[1] = "-")
              /\ Reads(SubSeq(text, 1, dot - 1), n \div job.num[2])
                 <=> Exact(n \div job.num[2])
              /\ ValueOf(frac, 10) * job.num[2] = (n % job.num[2]) * Power(10, Len(frac))
    /\ After("real") /\ Large(job.num) =>
           \E i \in DOMAIN out, e \in 0..MaxExponent :
              LET one == Power(2, MantissaBits)
                  m == (job.num[1] * one) \div (job.num[2] * Power(2, e)) - one
              IN /\ Between(job.num, e) /\ m \in 0..(one - 1)
                 /\ SubSeq(out, 1, 2) = <<"1", ".">>
                 /\ Reads(SubSeq(out, 3, i), m % U32) <=> Exact(m % U32)
                 /\ SubSeq(out, i + 1, i + 5) = <<" ", "*", " ", "2", "^">>
                 /\ Reads(SubSeq(out, i + 6, Len(out)), e)

\* Numbers read back: of 32 bits always, of 64 bits and reals while no division slips.
NumbersReadBack == IntegersReadBack /\ LongsReadBack

Bit(val, b) == (val \div Power(2, b)) % 2
\* What the adapter shows after a mode switch is what was asked for: so many
\* columns and lines, rows in memory that far apart; blanking and retrace start
\* behind the picture and before the total.  Other sizes, and
\* chained ones of more than 64 KB, are refused without a write (vga.c:89-222:
\* eleven tables, and registers 0 to 7 are protected when it is called).
ModeAsAsked ==
    After("mode") =>
        LET a == Adapter(out)["crt"]
            High(bit1, bit2) == 256 * Bit(a[7], bit1) + 512 * bit2
            end == a[\h12] + High(1, Bit(a[7], 6))
            blank == a[\h15] + High(3, Bit(a[9], 5))
            retrace == a[\h10] + High(2, Bit(a[7], 7))
            total == a[6] + High(0, Bit(a[7], 5))
            known == job.w \in DOMAIN width_regs /\ job.h \in DOMAIN height_regs
            fits == job.chain4 => job.w * job.h <= 65536
        IN IF ~(known /\ fits) THEN out = <<>>
           ELSE /\ out # <<>>
                /\ 4 * (a[1] + 1) = job.w /\ 8 * a[\h13] = job.w
                /\ (end + 1) \div ((a[9] % 32) + 1) = job.h
                /\ a[1] < a[2] /\ a[2] <= a[4] /\ a[4] < a[0] + 5
                /\ end < blank /\ blank < total /\ end < retrace /\ retrace < total
                /\ Adapter(out)["seq"][2] = 15

\* A line begins and ends at its points, makes one pixel per step of the longer
\* distance, neighbours all of them, and none is further from the ideal line
\* than half a pixel; a polygon's lines close (vga.c:274-326).
LinesReach ==
    After("polygon") =>
        /\ {{Head(l), Last(l)} : l \in {out[i] : i \in DOMAIN out}}
           = {{job.p[1], job.p[2]}, {job.p[2], job.p[3]}, {job.p[1], job.p[3]}}
        /\ \A k \in DOMAIN out :
              LET l == out[k]
                  dx == Last(l)[1] - Head(l)[1]
                  dy == Last(l)[2] - Head(l)[2]
                  long == IF abs(dx) >= abs(dy) THEN abs(dx) ELSE abs(dy)
              IN /\ Len(l) = long + 1
                 /\ \A i \in 1..long, c \in 1..2 : l[i + 1][c] - l[i][c] \in -1..1
                 /\ \A i \in DOMAIN l :
                       2 * abs((l[i][1] - Head(l)[1]) * dy
                               - (l[i][2] - Head(l)[2]) * dx) <= long

\* The processor reads from the tables what was meant: flat segments, a TSS that
\* fits its segment unless the linker puts it across a multiple of 1 MB, every
\* vector's gate to its own stub, gates of interrupt requests that clear the
\* interrupt flag; the controllers, both initialised in an order they
\* understand, keep the masks they had (gdt.c:118, isrs.c:192-257, 372-403).
TablesAsMeant ==
    /\ After("gdt") =>
           /\ \A i \in 2..5 : LET s == Segment(out[i])
                              IN /\ s.base = 0 /\ s.limit = 1048575 /\ s.pages
                                 /\ s.present /\ s.dpl = IF i <= 3 THEN 0 ELSE 3
                                 /\ s.type = IF i \in {2, 4} THEN \h1a ELSE \h12
           /\ LET s == Segment(out[6])
              IN /\ s.base = job.tss /\ s.present /\ s.type = 9
                 /\ job.tss \div 1048576 = (job.tss + TssSize) \div 1048576
                    => s.limit >= TssSize - 1
    /\ After("idt") =>
           /\ \A n \in 0..47 :
                 LET g == Gate(out.gates[n])
                 IN /\ g.offset = Stub(n) /\ g.selector = 8 /\ g.present
                    /\ g.type = IF n < 32 THEN 15 ELSE 14
                    /\ g.dpl = IF n \in {3, 4, 5} THEN 3 ELSE 0
           /\ \A p \in {1, 2} :
                 out.pics[p] = [icw |-> 5, base |-> 32 + 8 * (p - 1), mode |-> 1,
                                cascade |-> IF p = 1 THEN 4 ELSE 2,
                                mask |-> job.masks[p]]
=============================================================================
