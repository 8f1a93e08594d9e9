-------------------------------- MODULE Heap --------------------------------
(***************************************************************************)
(* The kernel heap (mm.c): a pointer that only goes up, one mark per byte  *)
(* in blocks_used.  The marks are u32, but kmemset counts bytes: a block   *)
(* of n bytes at offset o gets n bytes of marks from byte 4 * o on.  The   *)
(* heap begins one byte behind sys_heap_bottom.  Nobody calls kfree_b.     *)
(***************************************************************************)
EXTENDS Integers

CONSTANT MAX_BLOCKS      \* 2048
ASSUME HeapAssumption == MAX_BLOCKS \in Nat \ {0}

VARIABLES free,          \* free_ptr - heap_ptr
          blocks_used,   \* the bytes of the marks
          allocated      \* history: the blocks handed out, [at, size]

heapvars == <<free, blocks_used, allocated>>
MarkBytes == 0..(4 * MAX_BLOCKS - 1)

\* init_mm clears MAX_BLOCKS bytes of the marks; .bss was all zero.
HeapInit == /\ free = 0 /\ allocated = {}
            /\ blocks_used = [b \in MarkBytes |-> 0]

kmemset(a, from, c, n) == [b \in DOMAIN a |-> IF b \in from..(from + n - 1)
                                              THEN c % 256 ELSE a[b]]

Fits(nblks) == free + nblks <= MAX_BLOCKS

\* mutant of kmalloc_b: marks counted in bytes
AllocateUnscaled(nblks) ==
    IF Fits(nblks)
    THEN /\ blocks_used' = kmemset(blocks_used, free, nblks, nblks)
         /\ free' = free + nblks
         /\ allocated' = allocated \cup {[at |-> free, size |-> nblks]}
    ELSE UNCHANGED heapvars
kmalloc_b(nblks) ==
    IF Fits(nblks)
    THEN /\ blocks_used' = kmemset(blocks_used, 4 * free, nblks, nblks)
         /\ free' = free + nblks
         /\ allocated' = allocated \cup {[at |-> free, size |-> nblks]}
    ELSE UNCHANGED heapvars

\* blocks_used[i], read as the u32 it is.
Mark(i) == blocks_used[4 * i] + 256 * blocks_used[4 * i + 1]
           + 65536 * blocks_used[4 * i + 2] + 16777216 * blocks_used[4 * i + 3]

\* What kmemset leaves in the i-th mark of a block of n bytes: n in each of the bytes
\* it reached.
Filled(n, i) ==
    LET bytes == IF n <= 4 * i THEN 0 ELSE IF n - 4 * i < 4 THEN n - 4 * i ELSE 4
    IN  (n % 256) * <<0, 1, 257, 65793, 16843009>>[bytes + 1]

\* The blocks do not overlap, lie between the heap's ends, and each of their marks
\* is what its own allocation left there: the bytes set for one block never reach
\* another's marks, though they are counted in bytes and the marks in words
\* (mm.c:142).  The first mark is not the size: of 5 bytes it is 84215045.
BlocksApart ==
    /\ \A p, q \in allocated : p # q => \/ p.at + p.size <= q.at
                                        \/ q.at + q.size <= p.at
    /\ \A p \in allocated : /\ p.at + p.size <= free /\ free <= MAX_BLOCKS
                            /\ \A i \in 0..(p.size - 1) :
                                  Mark(p.at + i) = Filled(p.size, i)
=============================================================================
