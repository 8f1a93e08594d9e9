--------------------------- MODULE RoutinesProofs ---------------------------
(***************************************************************************)
(* The routines, for every memory, number, format, mode and address.       *)
(***************************************************************************)
EXTENDS Routines, SequenceTheorems, WellFoundedInduction, TLAPS

-----------------------------------------------------------------------------
(* Loops *)

\* A set of numbers that is not empty has a least one.
LEMMA Smallest ==
    ASSUME NEW T, T \subseteq Nat, T # {}
    PROVE  \E x \in T : \A y \in T : x <= y
<1>. DEFINE R == {ss \in Nat \X Nat : ss[1] < ss[2]}
<1>1. IsWellFoundedOn(R, Nat)
  BY NatLessThanWellFounded DEF OpToRel
<1>2. PICK x \in T : \A y \in T : ~ (<<y, x>> \in R)
  <2>. HIDE DEF R
  <2>. QED BY <1>1, WFMin
<1>3. \A y \in T : <<y, x>> \in Nat \X Nat
  OBVIOUS
<1>4. \A y \in T : ~(<<y, x>>[1] < <<y, x>>[2])
  BY <1>2, <1>3
<1>5. \A y \in T : ~(y < x)
  BY <1>4
<1>. QED BY <1>5

\* Induction over a set, which the provers can instantiate.
LEMMA Induction ==
    ASSUME NEW T, 0 \in T, \A n \in Nat : n \in T => n + 1 \in T
    PROVE  Nat \subseteq T
<1>. DEFINE Out == Nat \ T
<1>1. SUFFICES ASSUME Out # {} PROVE FALSE
  OBVIOUS
<1>2. PICK x \in Out : \A y \in Out : x <= y
  <2>. HIDE DEF Out
  <2>1. Out \subseteq Nat
    BY DEF Out
  <2>. QED BY <1>1, <2>1, Smallest
<1>3. x # 0 /\ x - 1 \in Nat
  OBVIOUS
<1>4. x - 1 \in T
  BY <1>2, <1>3
<1>5. (x - 1) + 1 \in T
  BY <1>3, <1>4
<1>. QED BY <1>3, <1>5

\* f is x and what the first k rounds make of it.
Rounds(f, body, x, k) ==
    f = [i \in 0..k |-> IF i = 0 THEN x ELSE body[i][f[i - 1]]]

\* One more round can follow.
LEMMA Extended ==
    ASSUME NEW body, NEW x, NEW k \in Nat, NEW f, Rounds(f, body, x, k)
    PROVE  \E g : Rounds(g, body, x, k + 1)
<1>. DEFINE g == [i \in 0..(k + 1) |-> IF i = k + 1 THEN body[k + 1][f[k]] ELSE f[i]]
            h == [i \in 0..(k + 1) |-> IF i = 0 THEN x ELSE body[i][g[i - 1]]]
<1>1. \A i \in 0..(k + 1) : g[i] = h[i]
  <2>. SUFFICES ASSUME NEW i \in 0..(k + 1) PROVE g[i] = h[i]
    OBVIOUS
  <2>1. CASE i = k + 1
    <3>1. i # 0 /\ i - 1 \in 0..(k + 1) /\ i - 1 # k + 1 /\ i - 1 = k
      BY <2>1
    <3>2. g[i - 1] = f[k]
      BY <3>1
    <3>. QED BY <2>1, <3>1, <3>2
  <2>2. CASE i # k + 1 /\ i = 0
    BY <2>2 DEF Rounds
  <2>3. CASE i # k + 1 /\ i # 0
    <3>1. i \in 0..k /\ i - 1 \in 0..(k + 1) /\ i - 1 # k + 1
      BY <2>3
    <3>2. g[i - 1] = f[i - 1] /\ g[i] = f[i]
      BY <2>3, <3>1
    <3>3. f[i] = body[i][f[i - 1]]
      BY <2>3, <3>1 DEF Rounds
    <3>. QED BY <2>3, <3>1, <3>2, <3>3
  <2>. QED BY <2>1, <2>2, <2>3
<1>2. g = h
  BY <1>1
<1>. QED BY <1>2 DEF Rounds

\* There is a function of the states after any number of rounds.
LEMMA AfterExists ==
    ASSUME NEW body, NEW x, NEW k \in Nat
    PROVE  \E f : Rounds(f, body, x, k)
<1>. DEFINE T == {n \in Nat : \E f : Rounds(f, body, x, n)}
<1>1. 0 \in T
  <2>. DEFINE f == [i \in 0..0 |-> x]
  <2>1. f = [i \in 0..0 |-> IF i = 0 THEN x ELSE body[i][f[i - 1]]]
    OBVIOUS
  <2>. QED BY <2>1 DEF Rounds
<1>2. ASSUME NEW n \in Nat, n \in T PROVE n + 1 \in T
  BY <1>2, Extended
<1>. HIDE DEF T
<1>3. k \in T
  BY <1>1, <1>2, Induction
<1>. QED BY <1>3 DEF T

\* Two such functions agree where both are defined.
LEMMA AfterAgrees ==
    ASSUME NEW body, NEW x, NEW k \in Nat, NEW f, NEW g,
           Rounds(f, body, x, k), Rounds(g, body, x, k + 1)
    PROVE  f[k] = g[k]
<1>. DEFINE T == {n \in Nat : n \in 0..k => f[n] = g[n]}
<1>1. 0 \in T
  BY DEF Rounds
<1>2. ASSUME NEW n \in Nat, n \in T PROVE n + 1 \in T
  <2>. SUFFICES ASSUME n + 1 \in 0..k PROVE f[n + 1] = g[n + 1]
    OBVIOUS
  <2>1. n \in 0..k /\ f[n] = g[n]
    BY <1>2
  <2>2. n + 1 \in 0..(k + 1) /\ n + 1 # 0 /\ (n + 1) - 1 = n
    OBVIOUS
  <2>. QED BY <2>1, <2>2 DEF Rounds
<1>. HIDE DEF T
<1>3. k \in T
  BY <1>1, <1>2, Induction
<1>. QED BY <1>3 DEF T

\* What a loop is: nothing, or one round after the rounds before.
LEMMA LoopIs ==
    ASSUME NEW body, NEW x
    PROVE  /\ Loop(body, x, 0) = x
           /\ \A k \in Nat : Loop(body, x, k + 1) = body[k + 1][Loop(body, x, k)]
<1>1. ASSUME NEW k \in Nat
      PROVE  \E f : Rounds(f, body, x, k) /\ Loop(body, x, k) = f[k]
  <2>. DEFINE f == CHOOSE f : Rounds(f, body, x, k)
  <2>1. Rounds(f, body, x, k)
    BY AfterExists
  <2>2. Loop(body, x, k) = f[k]
    BY DEF Loop, Rounds
  <2>. QED BY <2>1, <2>2
<1>2. Loop(body, x, 0) = x
  <2>1. PICK f : Rounds(f, body, x, 0) /\ Loop(body, x, 0) = f[0]
    BY <1>1
  <2>. QED BY <2>1 DEF Rounds
<1>3. ASSUME NEW k \in Nat
      PROVE  Loop(body, x, k + 1) = body[k + 1][Loop(body, x, k)]
  <2>1. PICK f : Rounds(f, body, x, k) /\ Loop(body, x, k) = f[k]
    BY <1>1
  <2>2. PICK g : Rounds(g, body, x, k + 1) /\ Loop(body, x, k + 1) = g[k + 1]
    BY <1>1
  <2>3. f[k] = g[k]
    BY <2>1, <2>2, AfterAgrees
  <2>4. k + 1 \in 0..(k + 1) /\ k + 1 # 0 /\ (k + 1) - 1 = k
    OBVIOUS
  <2>5. g[k + 1] = body[k + 1][g[k]]
    BY <2>2, <2>4 DEF Rounds
  <2>. QED BY <2>1, <2>2, <2>3, <2>5
<1>. QED BY <1>2, <1>3

\* The second half of LoopIs, for one k.
LEMMA OneMore ==
    ASSUME NEW body, NEW x, NEW k \in Nat
    PROVE  Loop(body, x, k + 1) = body[k + 1][Loop(body, x, k)]
BY LoopIs

\* What every round keeps holds at the end: inv[i] is what holds after round i.
LEMMA LoopKeeps ==
    ASSUME NEW body, NEW n \in Nat, NEW inv, NEW x, x \in inv[0],
           \A i \in 1..n : \A y \in inv[i - 1] : body[i][y] \in inv[i]
    PROVE  Loop(body, x, n) \in inv[n]
<1>. DEFINE T == {k \in Nat : k <= n => Loop(body, x, k) \in inv[k]}
<1>1. 0 \in T
  BY LoopIs
<1>2. ASSUME NEW k \in Nat, k \in T PROVE k + 1 \in T
  <2>. SUFFICES ASSUME k + 1 <= n PROVE Loop(body, x, k + 1) \in inv[k + 1]
    OBVIOUS
  <2>1. Loop(body, x, k) \in inv[k] /\ k + 1 \in 1..n /\ (k + 1) - 1 = k
    BY <1>2
  <2>2. body[k + 1][Loop(body, x, k)] \in inv[k + 1]
    BY <2>1
  <2>. QED BY <2>2, LoopIs
<1>. HIDE DEF T
<1>3. n \in T
  BY <1>1, <1>2, Induction
<1>. QED BY <1>3 DEF T

\* A while loop is through when its bound v has come down to 0.
LEMMA LoopEnds ==
    ASSUME NEW body, NEW n \in Nat, NEW S, NEW v, \A y \in S : v[y] \in Nat,
           NEW x \in S, v[x] <= n,
           \A i \in 1..n : \A y \in S : /\ body[i][y] \in S
                                        /\ v[y] = 0 => v[body[i][y]] = 0
                                        /\ v[y] # 0 => v[body[i][y]] < v[y]
    PROVE  Loop(body, x, n) \in S /\ v[Loop(body, x, n)] = 0
<1>. DEFINE inv == [i \in 0..n |-> {y \in S : v[y] <= n - i}]
<1>1. x \in inv[0]
  OBVIOUS
<1>2. ASSUME NEW i \in 1..n, NEW y \in inv[i - 1] PROVE body[i][y] \in inv[i]
  <2>1. y \in S /\ v[y] <= n - (i - 1) /\ v[y] \in Nat
    <3>1. i - 1 \in 0..n
      OBVIOUS
    <3>. QED BY <3>1
  <2>2. body[i][y] \in S /\ v[body[i][y]] \in Nat
    BY <2>1
  <2>3. v[body[i][y]] <= n - i
    <3>1. CASE v[y] = 0
      BY <2>1, <2>2, <3>1
    <3>2. CASE v[y] # 0
      BY <2>1, <2>2, <3>2
    <3>. QED BY <3>1, <3>2
  <2>. QED BY <2>2, <2>3
<1>3. Loop(body, x, n) \in inv[n]
  <2>. HIDE DEF inv
  <2>. QED BY <1>1, <1>2, LoopKeeps
<1>4. Loop(body, x, n) \in S /\ v[Loop(body, x, n)] <= n - n
  BY <1>3
<1>. QED BY <1>4

-----------------------------------------------------------------------------
(* What was called for which argument, and that its answer is in out       *)

Answered ==
    /\ After("move") => out = kmemmove(Memory, job.d, job.s, job.n)
    /\ After("compare") => out = kmemcmp(Memory, job.d, job.s, job.n)
    /\ After("find") => out = <<kmemchr(Memory, job.s, job.c, job.n),
                                kmemrchr(Memory, job.s, job.c, job.n)>>
    /\ After("print") =>
           out = [u |-> directive("u", job.num), pos |-> directive("d", job.num),
                  neg |-> directive("d", -job.num), bin |-> directive("b", job.num),
                  hex |-> directive("x", job.num)]
    /\ After("print64") => out = <<directive("q", job.num), writeInt64(-job.num)>>
    /\ After("real") => out = directive("f", job.num)
    /\ After("mode") => out = init_graph_vga(job.w, job.h, job.chain4)
    /\ After("polygon") => out = polygon(job.p)
    /\ After("gdt") => out = gdt(job.tss)
    /\ After("idt") =>
           out = [gates |-> idt([n \in 0..47 |-> Stub(n)]),
                  pics |-> Controllers(job.masks, irq_remap(\h20, \h28, job.masks))]

IInv == Asked /\ Answered

\* A call is one the kernel can make, and what it has answered is what its routine
\* computes: every action is one call of one routine (Next).
LEMMA Inductive == Spec => []IInv
<1>1. Init => IInv
  BY DEF Init, IInv, Answered, After
<1>2. IInv /\ [Next]_vars => IInv'
  <2>. SUFFICES ASSUME IInv, [Next]_vars PROVE IInv'
    OBVIOUS
  <2>1. job' = job
    BY DEF Next, vars, Call, Move, Compare, Find, PrintInt, PrintLong, PrintReal,
           SetMode, Draw, InstallGdt, InstallIdt
  <2>2. Asked'
    BY <2>1 DEF IInv, Asked
  <2>3. CASE UNCHANGED vars
    BY <2>3 DEF vars, IInv, Answered, After, Asked
  <2>4. CASE Next
    <3>. USE <2>1, <2>2 DEF IInv, Answered, After, Call
    <3>1. CASE Move
      BY <3>1 DEF Move
    <3>2. CASE Compare
      BY <3>2 DEF Compare
    <3>3. CASE Find
      BY <3>3 DEF Find
    <3>4. CASE PrintInt
      BY <3>4 DEF PrintInt
    <3>5. CASE PrintLong
      BY <3>5 DEF PrintLong
    <3>6. CASE PrintReal
      BY <3>6 DEF PrintReal
    <3>8. CASE SetMode
      BY <3>8 DEF SetMode
    <3>9. CASE Draw
      BY <3>9 DEF Draw
    <3>10. CASE InstallGdt
      BY <3>10 DEF InstallGdt
    <3>11. CASE InstallIdt
      BY <3>11 DEF InstallIdt
    <3>. QED
      BY <2>4, <3>1, <3>2, <3>3, <3>4, <3>5, <3>6, <3>8, <3>9, <3>10, <3>11
      DEF Next
  <2>. QED BY <2>3, <2>4
<1>. QED BY <1>1, <1>2, PTL DEF Spec

-----------------------------------------------------------------------------
(* Memory *)

\* The sizes of a word and of size_t.
LEMMA WordIs == Word \in Nat \ {0} /\ SizeT \in Nat /\ SizeT > 255
BY MemoryOpsAssumption

\* A loop handles at least one byte and never more than are left.
LEMMA StrideIs ==
    ASSUME NEW edge \in Nat, NEW n \in Nat \ {0}
    PROVE  /\ Stride(edge, n) \in 1..n
           /\ Stride(edge, n) = 1 \/ Stride(edge, n) = Word
BY WordIs DEF Stride

Addresses(size) == 0..(size - 1)

\* Memory of size bytes, and two spans of n bytes in it.
Within(size, d, s, n) == /\ size \in Nat /\ d \in Nat /\ s \in Nat /\ n \in Nat
                         /\ d + n <= size /\ s + n <= size

\* What the n bytes at d are when those at s were copied to them.
Copied(m, r, size, d, s, n) ==
    /\ r \in [Addresses(size) -> Byte]
    /\ \A a \in Addresses(size) : r[a] = IF a \in Span(d, n) THEN m[a - d + s] ELSE m[a]

\* The unit of a copy is one byte or one word.
LEMMA UnitIs ==
    ASSUME NEW size, NEW m \in [Addresses(size) -> Byte], NEW d, NEW s, NEW k,
           Within(size, d, s, k)
    PROVE  Copied(m, Unit(m, d, s, k), size, d, s, k)
<1>1. DOMAIN m = Addresses(size)
  OBVIOUS
<1>2. \A a \in d..(d + k - 1) : a - d + s \in Addresses(size)
  BY DEF Within, Addresses
<1>3. Unit(m, d, s, k) = [i \in Addresses(size) |-> IF i \in d..(d + k - 1)
                                                   THEN m[i - d + s] ELSE m[i]]
  BY <1>1 DEF Unit
<1>4. \A a \in Addresses(size) : Unit(m, d, s, k)[a] \in Byte
  BY <1>2, <1>3
<1>. QED BY <1>3, <1>4 DEF Copied, Span

\* Upwards: the bytes before those still to be moved are moved, and those still to
\* be read are as they were, since they lie above.
Upwards(m, size, d, s, n, x) ==
    /\ x.n \in 0..n /\ x.d = d + n - x.n /\ x.s = s + n - x.n
    /\ Copied(m, x.m, size, d, s, n - x.n)

\* left of n bytes are still to be moved and k of them are now, from d < s up.
LEMMA Ahead ==
    ASSUME NEW size \in Nat, NEW d \in Nat, NEW s \in Nat, NEW n \in Nat, d < s,
           s + n <= size, NEW left \in 0..n, NEW k \in 1..left, NEW a \in Int
    PROVE  /\ a \in Span(d + n - left, k) => a - d + s \in Addresses(size)
           /\ a \in Span(d + n - left, k) => ~(a - d + s \in Span(d, n - left))
           /\ a \in Span(d, n - (left - k)) <=> \/ a \in Span(d + n - left, k)
                                                \/ a \in Span(d, n - left)
BY DEF Span, Addresses

\* One round of the copy upwards.
LEMMA UpStep ==
    ASSUME NEW size, NEW m \in [Addresses(size) -> Byte], NEW d, NEW s, NEW n,
           Within(size, d, s, n), d < s,
           NEW x, Upwards(m, size, d, s, n, x), NEW k \in 1..x.n, NEW y,
           y = Moving(Unit(x.m, x.d, x.s, k), x.d + k, x.s + k, x.n - k)
    PROVE  Upwards(m, size, d, s, n, y)
<1>1. /\ size \in Nat /\ d \in Nat /\ s \in Nat /\ n \in Nat
      /\ d + n <= size /\ s + n <= size
  BY DEF Within
<1>2. x.n \in 0..n /\ x.d = d + n - x.n /\ x.s = s + n - x.n
  BY DEF Upwards
<1>3. /\ y.n = x.n - k /\ y.d = x.d + k /\ y.s = x.s + k
      /\ y.m = Unit(x.m, x.d, x.s, k)
  BY DEF Moving
<1>4. y.n \in 0..n /\ y.d = d + n - y.n /\ y.s = s + n - y.n
  BY <1>1, <1>2, <1>3
<1>a. /\ Span(x.d, k) = Span(d + n - x.n, k)
      /\ Span(d, n - y.n) = Span(d, n - (x.n - k))
  BY <1>2, <1>3
<1>b. ASSUME NEW a \in Int
      PROVE  /\ a \in Span(x.d, k) => a - d + s \in Addresses(size)
             /\ a \in Span(x.d, k) => ~(a - d + s \in Span(d, n - x.n))
             /\ a \in Span(d, n - y.n) <=> a \in Span(x.d, k) \/ a \in Span(d, n - x.n)
  <2>. DEFINE left == x.n
  <2>1. left \in 0..n /\ k \in 1..left
    BY <1>2
  <2>. HIDE DEF left
  <2>2. /\ a \in Span(d + n - left, k) => a - d + s \in Addresses(size)
        /\ a \in Span(d + n - left, k) => ~(a - d + s \in Span(d, n - left))
        /\ a \in Span(d, n - (left - k)) <=> \/ a \in Span(d + n - left, k)
                                             \/ a \in Span(d, n - left)
    BY <1>1, <2>1, Ahead
  <2>. QED BY <1>a, <2>2 DEF left
<1>5. Within(size, x.d, x.s, k)
  BY <1>1, <1>2 DEF Within
<1>6. x.m \in [Addresses(size) -> Byte]
  BY DEF Upwards, Copied
<1>7. Copied(x.m, y.m, size, x.d, x.s, k)
  BY <1>3, <1>5, <1>6, UnitIs
<1>8. ASSUME NEW a \in Addresses(size)
      PROVE  y.m[a] = IF a \in Span(d, n - y.n) THEN m[a - d + s] ELSE m[a]
  <2>1. CASE a \in Span(x.d, k)
    <3>1. /\ a \in Int /\ a >= x.d /\ a < x.d + k /\ a < size
      BY <2>1, <1>1, <1>2, <1>5 DEF Span, Within
    <3>2. a - x.d + x.s = a - d + s
      BY <3>1, <1>1, <1>2
    <3>3. /\ a - d + s \in Addresses(size) /\ ~(a - d + s \in Span(d, n - x.n))
          /\ a \in Span(d, n - y.n)
      BY <2>1, <3>1, <1>b
    <3>4. x.m[a - d + s] = m[a - d + s]
      BY <3>3 DEF Upwards, Copied
    <3>5. y.m[a] = x.m[a - x.d + x.s]
      BY <2>1, <1>7 DEF Copied
    <3>. QED BY <3>2, <3>3, <3>4, <3>5
  <2>2. CASE a \notin Span(x.d, k)
    <3>1. a \in Span(d, n - y.n) <=> a \in Span(d, n - x.n)
      <4>1. a \in Int
        BY <1>1 DEF Addresses
      <4>. QED BY <2>2, <4>1, <1>b
    <3>2. y.m[a] = x.m[a]
      BY <2>2, <1>7 DEF Copied
    <3>3. x.m[a] = IF a \in Span(d, n - x.n) THEN m[a - d + s] ELSE m[a]
      BY DEF Upwards, Copied
    <3>. QED BY <3>1, <3>2, <3>3
  <2>. QED BY <2>1, <2>2
<1>9. y.m \in [Addresses(size) -> Byte]
  BY <1>7 DEF Copied
<1>. QED BY <1>4, <1>8, <1>9 DEF Upwards, Copied

\* Where nothing was moved yet.
LEMMA NothingCopied ==
    ASSUME NEW size, NEW m \in [Addresses(size) -> Byte], NEW d \in Nat, NEW s
    PROVE  Copied(m, m, size, d, s, 0)
BY DEF Copied, Span

\* The copy upwards, as soon as it reads nothing it has written.
LEMMA UpIs ==
    ASSUME NEW size, NEW m \in [Addresses(size) -> Byte], NEW d, NEW s, NEW n,
           Within(size, d, s, n), d < s
    PROVE  Copied(m, Up(m, d, s, n), size, d, s, n)
<1>. DEFINE once == [i \in 1..n |-> [x \in Moves(m) |->
                       LET k == IF Congruent(x.d, x.s) THEN Stride(x.d, x.n) ELSE 1
                       IN IF x.n = 0 THEN x
                          ELSE Moving(Unit(x.m, x.d, x.s, k), x.d + k, x.s + k, x.n - k)]]
            first == Moving(m, d, s, n)
            inv == [i \in 0..n |-> {x \in Moves(m) : Upwards(m, size, d, s, n, x)
                                                     /\ x.n <= n - i}]
<1>0. d \in Nat /\ s \in Nat /\ n \in Nat
  BY DEF Within
<1>m. Moves(m) = [m : [Addresses(size) -> Byte], d : Nat, s : Nat, n : Nat]
  BY DEF Moves
<1>1. first \in inv[0]
  <2>1. first \in Moves(m) /\ first.n = n /\ first.d = d /\ first.s = s /\ first.m = m
    BY <1>0, <1>m DEF Moving
  <2>. HIDE DEF first
  <2>2. Copied(m, first.m, size, d, s, n - first.n)
    BY <1>0, <2>1, NothingCopied
  <2>3. Upwards(m, size, d, s, n, first)
    BY <1>0, <2>1, <2>2 DEF Upwards
  <2>. QED BY <1>0, <2>1, <2>3
<1>2. ASSUME NEW i \in 1..n, NEW x \in inv[i - 1]
      PROVE  once[i][x] \in inv[i]
  <2>. DEFINE k == IF Congruent(x.d, x.s) THEN Stride(x.d, x.n) ELSE 1
              y == Moving(Unit(x.m, x.d, x.s, k), x.d + k, x.s + k, x.n - k)
  <2>1. x \in Moves(m) /\ Upwards(m, size, d, s, n, x) /\ x.n <= n - (i - 1)
    <3>1. i - 1 \in 0..n
      BY <1>0
    <3>. QED BY <3>1
  <2>. HIDE DEF inv
  <2>2. x.n \in Nat /\ x.d \in Nat /\ x.s \in Nat
    BY <2>1, <1>m
  <2>3. once[i][x] = IF x.n = 0 THEN x ELSE y
    BY <2>1
  <2>. HIDE DEF once
  <2>4. CASE x.n = 0
    BY <1>0, <2>1, <2>3, <2>4 DEF inv
  <2>5. CASE x.n # 0
    <3>1. k \in 1..x.n
      <4>1. x.n \in Nat \ {0} /\ 1 \in 1..x.n
        BY <2>2, <2>5
      <4>2. Stride(x.d, x.n) \in 1..x.n
        BY <2>2, <4>1, StrideIs
      <4>. QED BY <4>1, <4>2
    <3>. HIDE DEF k
    <3>2. Upwards(m, size, d, s, n, y)
      BY <2>1, <3>1, UpStep
    <3>3. /\ y.n = x.n - k /\ y.d = x.d + k /\ y.s = x.s + k
          /\ y = Moving(y.m, y.d, y.s, y.n)
      BY DEF Moving
    <3>. HIDE DEF y
    <3>4. y.n \in Nat /\ y.d \in Nat /\ y.s \in Nat /\ y.n <= n - i
      BY <1>0, <2>1, <2>2, <3>1, <3>3
    <3>5. y.m \in [Addresses(size) -> Byte]
      BY <3>2 DEF Upwards, Copied
    <3>6. y \in Moves(m)
      BY <1>m, <3>3, <3>4, <3>5 DEF Moving
    <3>7. y \in inv[i]
      BY <1>0, <3>2, <3>4, <3>6 DEF inv
    <3>. QED BY <2>3, <2>5, <3>7
  <2>. QED BY <2>4, <2>5
<1>3. Loop(once, first, n) \in inv[n]
  <2>. HIDE DEF once, first, inv
  <2>. QED BY <1>0, <1>1, <1>2, LoopKeeps
<1>. DEFINE last == Loop(once, first, n)
<1>4. Up(m, d, s, n) = last.m
  BY DEF Up
<1>. HIDE DEF once, first
<1>5. last \in Moves(m) /\ Upwards(m, size, d, s, n, last) /\ last.n <= n - n
  BY <1>0, <1>3
<1>. HIDE DEF last, inv
<1>6. last.n = 0 /\ n - last.n = n
  BY <1>0, <1>5 DEF Upwards
<1>7. Copied(m, last.m, size, d, s, n)
  BY <1>5, <1>6 DEF Upwards
<1>. QED BY <1>4, <1>7

\* Downwards: the bytes above those still to be moved are moved, and those still to
\* be read lie below.
Downwards(m, size, d, s, n, x) ==
    /\ x.n \in 0..n /\ x.d = d /\ x.s = s
    /\ Copied(m, x.m, size, d + x.n, s + x.n, n - x.n)

\* left of n bytes are still to be moved and k of them are now, from s < d up.
LEMMA Behind ==
    ASSUME NEW size \in Nat, NEW d \in Nat, NEW s \in Nat, NEW n \in Nat, s < d,
           d + n <= size, NEW left \in 0..n, NEW k \in 1..left, NEW a \in Int
    PROVE  /\ a \in Span(d + left - k, k) => a - d + s \in Addresses(size)
           /\ a \in Span(d + left - k, k) => ~(a - d + s \in Span(d + left, n - left))
           /\ a \in Span(d + (left - k), n - (left - k))
              <=> a \in Span(d + left - k, k) \/ a \in Span(d + left, n - left)
BY DEF Span, Addresses

\* One round of the copy downwards.
LEMMA DownStep ==
    ASSUME NEW size, NEW m \in [Addresses(size) -> Byte], NEW d, NEW s, NEW n,
           Within(size, d, s, n), s < d,
           NEW x, Downwards(m, size, d, s, n, x), NEW k \in 1..x.n, NEW y,
           y = Moving(Unit(x.m, x.d + x.n - k, x.s + x.n - k, k), x.d, x.s, x.n - k)
    PROVE  Downwards(m, size, d, s, n, y)
<1>. DEFINE left == x.n
<1>1. /\ size \in Nat /\ d \in Nat /\ s \in Nat /\ n \in Nat
      /\ d + n <= size /\ s + n <= size
  BY DEF Within
<1>2. left \in 0..n /\ x.d = d /\ x.s = s /\ k \in 1..left
  BY DEF Downwards
<1>3. /\ y.n = left - k /\ y.d = d /\ y.s = s
      /\ y.m = Unit(x.m, d + left - k, s + left - k, k)
  BY <1>2 DEF Moving
<1>4. Copied(m, x.m, size, d + left, s + left, n - left)
  BY DEF Downwards
<1>. HIDE DEF left
<1>5. Within(size, d + left - k, s + left - k, k)
  BY <1>1, <1>2 DEF Within
<1>6. Copied(x.m, y.m, size, d + left - k, s + left - k, k)
  BY <1>3, <1>4, <1>5, UnitIs DEF Copied
<1>7. ASSUME NEW a \in Addresses(size)
      PROVE  y.m[a] = IF a \in Span(d + (left - k), n - (left - k))
                      THEN m[a - (d + (left - k)) + (s + (left - k))] ELSE m[a]
  <2>1. a \in Int
    BY <1>1 DEF Addresses
  <2>2. /\ a \in Span(d + left - k, k) => a - d + s \in Addresses(size)
        /\ a \in Span(d + left - k, k) => ~(a - d + s \in Span(d + left, n - left))
        /\ a \in Span(d + (left - k), n - (left - k))
           <=> a \in Span(d + left - k, k) \/ a \in Span(d + left, n - left)
    BY <1>1, <1>2, <2>1, Behind
  <2>3. /\ a - (d + (left - k)) + (s + (left - k)) = a - d + s
        /\ a - (d + left - k) + (s + left - k) = a - d + s
        /\ a - (d + left) + (s + left) = a - d + s
    BY <1>1, <1>2, <2>1
  <2>4. CASE a \in Span(d + left - k, k)
    <3>1. x.m[a - d + s] = m[a - d + s]
      BY <2>2, <2>4, <1>4 DEF Copied
    <3>2. y.m[a] = x.m[a - d + s]
      BY <2>3, <2>4, <1>6 DEF Copied
    <3>. QED BY <2>2, <2>3, <2>4, <3>1, <3>2
  <2>5. CASE a \notin Span(d + left - k, k)
    <3>1. y.m[a] = x.m[a]
      BY <2>5, <1>6 DEF Copied
    <3>2. x.m[a] = IF a \in Span(d + left, n - left) THEN m[a - d + s] ELSE m[a]
      BY <2>3, <1>4 DEF Copied
    <3>. QED BY <2>2, <2>3, <2>5, <3>1, <3>2
  <2>. QED BY <2>4, <2>5
<1>8. y.m \in [Addresses(size) -> Byte]
  BY <1>6 DEF Copied
<1>9. y.n \in 0..n /\ y.d = d /\ y.s = s
  BY <1>1, <1>2, <1>3
<1>10. Copied(m, y.m, size, d + (left - k), s + (left - k), n - (left - k))
  BY <1>7, <1>8 DEF Copied
<1>11. Copied(m, y.m, size, d + y.n, s + y.n, n - y.n)
  BY <1>3, <1>10
<1>. QED BY <1>9, <1>11 DEF Downwards

\* The copy downwards.
LEMMA DownIs ==
    ASSUME NEW size, NEW m \in [Addresses(size) -> Byte], NEW d, NEW s, NEW n,
           Within(size, d, s, n), s < d
    PROVE  Copied(m, Down(m, d, s, n), size, d, s, n)
<1>. DEFINE once == [i \in 1..n |-> [x \in Moves(m) |->
                       LET k == IF Congruent(x.d, x.s) THEN Stride(x.d + x.n, x.n) ELSE 1
                       IN IF x.n = 0 THEN x
                          ELSE Moving(Unit(x.m, x.d + x.n - k, x.s + x.n - k, k),
                                      x.d, x.s, x.n - k)]]
            first == Moving(m, d, s, n)
            good == {x \in Moves(m) : Downwards(m, size, d, s, n, x)}
            left == [x \in good |-> x.n]
<1>0. d \in Nat /\ s \in Nat /\ n \in Nat
  BY DEF Within
<1>m. Moves(m) = [m : [Addresses(size) -> Byte], d : Nat, s : Nat, n : Nat]
  BY DEF Moves
<1>1. first \in good /\ first.n = n
  <2>1. first \in Moves(m) /\ first.n = n /\ first.d = d /\ first.s = s /\ first.m = m
    BY <1>0, <1>m DEF Moving
  <2>. HIDE DEF first
  <2>2. Copied(m, first.m, size, d + first.n, s + first.n, n - first.n)
    BY <1>0, <2>1, NothingCopied
  <2>3. Downwards(m, size, d, s, n, first)
    BY <1>0, <2>1, <2>2 DEF Downwards
  <2>. QED BY <2>1, <2>3
<1>2. \A x \in good : left[x] = x.n /\ left[x] \in Nat
  BY <1>m
<1>3. ASSUME NEW i \in 1..n, NEW x \in good
      PROVE  /\ once[i][x] \in good
             /\ left[x] = 0 => left[once[i][x]] = 0
             /\ left[x] # 0 => left[once[i][x]] < left[x]
  <2>. DEFINE k == IF Congruent(x.d, x.s) THEN Stride(x.d + x.n, x.n) ELSE 1
              y == Moving(Unit(x.m, x.d + x.n - k, x.s + x.n - k, k), x.d, x.s, x.n - k)
  <2>1. x \in Moves(m) /\ Downwards(m, size, d, s, n, x)
    OBVIOUS
  <2>2. x.n \in Nat /\ x.d \in Nat /\ x.s \in Nat
    BY <2>1, <1>m
  <2>3. once[i][x] = IF x.n = 0 THEN x ELSE y
    BY <2>1
  <2>. HIDE DEF once
  <2>4. CASE x.n = 0
    BY <2>3, <2>4, <1>2
  <2>5. CASE x.n # 0
    <3>1. k \in 1..x.n
      <4>1. x.n \in Nat \ {0} /\ 1 \in 1..x.n /\ x.d + x.n \in Nat
        BY <2>2, <2>5
      <4>2. Stride(x.d + x.n, x.n) \in 1..x.n
        BY <4>1, StrideIs
      <4>. QED BY <4>1, <4>2
    <3>. HIDE DEF k
    <3>2. Downwards(m, size, d, s, n, y)
      BY <2>1, <3>1, DownStep
    <3>3. y.n = x.n - k /\ y.d = x.d /\ y.s = x.s /\ y = Moving(y.m, y.d, y.s, y.n)
      BY DEF Moving
    <3>. HIDE DEF y
    <3>4. y.n \in Nat /\ y.d \in Nat /\ y.s \in Nat /\ y.n < x.n
      BY <2>2, <3>1, <3>3
    <3>5. y.m \in [Addresses(size) -> Byte]
      BY <3>2 DEF Downwards, Copied
    <3>6. y \in good
      BY <1>m, <3>2, <3>3, <3>4, <3>5 DEF Moving
    <3>. HIDE DEF left, good
    <3>. QED BY <1>2, <2>3, <2>5, <3>4, <3>6
  <2>. QED BY <2>4, <2>5
<1>. DEFINE last == Loop(once, first, n)
<1>4. Down(m, d, s, n) = last.m
  BY DEF Down
<1>5. last \in good /\ last.n = 0
  <2>. HIDE DEF once, first, good, left
  <2>1. left[first] <= n
    BY <1>0, <1>1, <1>2
  <2>2. \A y \in good : left[y] \in Nat
    BY <1>2
  <2>3. \A i \in 1..n : \A y \in good : /\ once[i][y] \in good
                                        /\ left[y] = 0 => left[once[i][y]] = 0
                                        /\ left[y] # 0 => left[once[i][y]] < left[y]
    BY <1>3
  <2>4. n \in Nat /\ first \in good
    BY <1>0, <1>1
  <2>5. Loop(once, first, n) \in good /\ left[Loop(once, first, n)] = 0
    BY <2>1, <2>2, <2>3, <2>4, LoopEnds
  <2>. QED BY <1>2, <2>5
<1>. HIDE DEF once, first, last
<1>6. Copied(m, last.m, size, d + 0, s + 0, n - 0)
  BY <1>5 DEF Downwards
<1>. QED BY <1>0, <1>4, <1>6

\* kmemmove takes the direction in which it reads nothing it has written.
LEMMA MoveIs ==
    ASSUME NEW size, NEW m \in [Addresses(size) -> Byte], NEW d, NEW s, NEW n,
           Within(size, d, s, n)
    PROVE  Copied(m, kmemmove(m, d, s, n), size, d, s, n)
<1>0. d \in Nat /\ s \in Nat /\ n \in Nat
  BY DEF Within
<1>1. CASE d = s
  <2>1. \A a \in Addresses(size) : a - d + s = a
    BY <1>0, <1>1 DEF Addresses, Within
  <2>2. kmemmove(m, d, s, n) = m
    BY <1>1 DEF kmemmove
  <2>. QED BY <2>1, <2>2 DEF Copied
<1>2. CASE d # s /\ (s + n <= d \/ d + n <= s)
  BY <1>2, UnitIs DEF kmemmove, kmemcpy
<1>3. CASE ~(s + n <= d \/ d + n <= s) /\ d < s
  BY <1>0, <1>3, UpIs DEF kmemmove
<1>4. CASE ~(s + n <= d \/ d + n <= s) /\ s < d
  BY <1>0, <1>4, DownIs DEF kmemmove
<1>. QED BY <1>0, <1>1, <1>2, <1>3, <1>4

\* The first byte c of n at s.
FirstAt(m, s, c, n, r) == /\ r \in Span(s, n) /\ m[r] = c
                          /\ \A a \in s..(r - 1) : m[a] # c
LastAt(m, s, c, n, r) == /\ r \in Span(s, n) /\ m[r] = c
                         /\ \A a \in (r + 1)..(s + n - 1) : m[a] # c
Absent(m, s, c, n) == \A a \in Span(s, n) : m[a] # c

\* kmemchr finds the first one.
LEMMA ChrIs ==
    ASSUME NEW m, NEW s \in Nat, NEW c, NEW n \in Nat
    PROVE  \/ kmemchr(m, s, c, n) = NULL /\ Absent(m, s, c, n)
           \/ FirstAt(m, s, c, n, kmemchr(m, s, c, n))
<1>. DEFINE once == [i \in 1..n |-> [x \in [s : Nat, n : Nat] |->
                       LET k == IF Stride(x.s, x.n) = Word /\ ~HasByte(m, x.s, c)
                                THEN Word ELSE 1
                       IN IF x.n = 0 \/ m[x.s] = c THEN x
                          ELSE [s |-> x.s + k, n |-> x.n - k]]]
            first == [s |-> s, n |-> n]
            good == {x \in [s : Nat, n : Nat] : /\ x.n <= n /\ x.s = s + n - x.n
                                                /\ \A a \in s..(x.s - 1) : m[a] # c}
            left == [x \in good |-> IF m[x.s] = c THEN 0 ELSE x.n]
            end == Loop(once, first, n)
<1>1. first \in good
  OBVIOUS
<1>2. \A x \in good : /\ left[x] \in Nat /\ left[x] <= n /\ x.s \in Nat /\ x.n \in 0..n
                      /\ left[x] = IF m[x.s] = c THEN 0 ELSE x.n
  OBVIOUS
<1>3. ASSUME NEW i \in 1..n, NEW x \in good
      PROVE  /\ once[i][x] \in good
             /\ left[x] = 0 => left[once[i][x]] = 0
             /\ left[x] # 0 => left[once[i][x]] < left[x]
  <2>. DEFINE k == IF Stride(x.s, x.n) = Word /\ ~HasByte(m, x.s, c) THEN Word ELSE 1
              y == [s |-> x.s + k, n |-> x.n - k]
  <2>1. /\ x \in [s : Nat, n : Nat] /\ x.n \in Nat /\ x.s \in Nat /\ x.n <= n
        /\ x.s = s + n - x.n /\ \A a \in s..(x.s - 1) : m[a] # c
    OBVIOUS
  <2>2. once[i][x] = IF x.n = 0 \/ m[x.s] = c THEN x ELSE y
    BY <2>1
  <2>. HIDE DEF once
  <2>3. CASE x.n = 0 \/ m[x.s] = c
    BY <1>2, <2>2, <2>3
  <2>4. CASE ~(x.n = 0 \/ m[x.s] = c)
    <3>1. k \in 1..x.n
      BY <2>1, <2>4, StrideIs, WordIs
    <3>2. \A a \in x.s..(x.s + k - 1) : m[a] # c
      <4>1. CASE k = 1
        BY <2>1, <2>4, <4>1
      <4>2. CASE k # 1
        BY <2>1, <4>2 DEF HasByte
      <4>. QED BY <4>1, <4>2
    <3>. HIDE DEF k
    <3>3. y.n = x.n - k /\ y.s = x.s + k /\ y \in [s : Nat, n : Nat]
      BY <2>1, <3>1
    <3>. HIDE DEF y
    <3>4. y.n <= n /\ y.s = s + n - y.n /\ y.n < x.n
      BY <2>1, <3>1, <3>3
    <3>5. \A a \in s..(y.s - 1) : m[a] # c
      <4>1. \A a \in s..(y.s - 1) : a \in s..(x.s - 1) \/ a \in x.s..(x.s + k - 1)
        BY <2>1, <3>1, <3>3
      <4>. QED BY <2>1, <3>2, <4>1
    <3>6. y \in good
      BY <3>3, <3>4, <3>5
    <3>7. left[x] = x.n
      BY <1>2, <2>4
    <3>8. left[y] < x.n
      <4>. HIDE DEF left, good
      <4>1. left[y] = 0 \/ left[y] = y.n
        BY <1>2, <3>6
      <4>. QED BY <4>1, <2>1, <2>4, <3>1, <3>4
    <3>. HIDE DEF left, good
    <3>. QED BY <2>1, <2>2, <2>4, <3>6, <3>7, <3>8
  <2>. QED BY <2>3, <2>4
<1>4. kmemchr(m, s, c, n) = IF end.n = 0 THEN NULL ELSE end.s
  BY DEF kmemchr
<1>5. end \in good /\ left[end] = 0
  <2>. HIDE DEF once, first, good, left
  <2>1. \A y \in good : left[y] \in Nat
    BY <1>2
  <2>2. left[first] <= n
    BY <1>1, <1>2
  <2>3. \A i \in 1..n : \A y \in good : /\ once[i][y] \in good
                                        /\ left[y] = 0 => left[once[i][y]] = 0
                                        /\ left[y] # 0 => left[once[i][y]] < left[y]
    BY <1>3
  <2>4. Loop(once, first, n) \in good /\ left[Loop(once, first, n)] = 0
    BY ZenonT(30), <1>1, <2>1, <2>2, <2>3, LoopEnds
  <2>. QED BY <2>4
<1>. HIDE DEF end
<1>6. /\ end.n \in Nat /\ end.n <= n /\ end.s = s + n - end.n
      /\ \A a \in s..(end.s - 1) : m[a] # c
      /\ m[end.s] = c \/ end.n = 0
  BY <1>2, <1>5
<1>7. CASE end.n = 0
  <2>1. end.s - 1 = s + n - 1
    BY <1>6, <1>7
  <2>. QED BY <1>4, <1>6, <1>7, <2>1 DEF Absent, Span
<1>8. CASE end.n # 0
  <2>1. end.s \in Span(s, n)
    BY <1>6, <1>8 DEF Span
  <2>. QED BY <1>4, <1>6, <1>8, <2>1 DEF FirstAt
<1>. QED BY <1>7, <1>8

\* kmemrchr finds the last one.
LEMMA RChrIs ==
    ASSUME NEW m, NEW s \in Nat, NEW c, NEW n \in Nat
    PROVE  \/ kmemrchr(m, s, c, n) = NULL /\ Absent(m, s, c, n)
           \/ LastAt(m, s, c, n, kmemrchr(m, s, c, n))
<1>. DEFINE once == [i \in 1..n |-> [k \in 0..n |->
                       IF k = 0 \/ m[s + k - 1] = c THEN k ELSE k - 1]]
            good == {k \in 0..n : \A a \in (s + k)..(s + n - 1) : m[a] # c}
            left == [k \in good |-> IF m[s + k - 1] = c THEN 0 ELSE k]
            end == Loop(once, n, n)
<1>1. n \in good
  OBVIOUS
<1>2. \A k \in good : /\ left[k] \in Nat /\ left[k] <= n /\ k \in 0..n
                      /\ left[k] = IF m[s + k - 1] = c THEN 0 ELSE k
  OBVIOUS
<1>3. ASSUME NEW i \in 1..n, NEW k \in good
      PROVE  /\ once[i][k] \in good
             /\ left[k] = 0 => left[once[i][k]] = 0
             /\ left[k] # 0 => left[once[i][k]] < left[k]
  <2>1. k \in 0..n /\ \A a \in (s + k)..(s + n - 1) : m[a] # c
    OBVIOUS
  <2>2. once[i][k] = IF k = 0 \/ m[s + k - 1] = c THEN k ELSE k - 1
    BY <2>1
  <2>. HIDE DEF once
  <2>3. CASE k = 0 \/ m[s + k - 1] = c
    BY <1>2, <2>2, <2>3
  <2>4. CASE ~(k = 0 \/ m[s + k - 1] = c)
    <3>1. \A a \in (s + (k - 1))..(s + n - 1) : m[a] # c
      <4>1. \A a \in (s + (k - 1))..(s + n - 1) :
               a = s + k - 1 \/ a \in (s + k)..(s + n - 1)
        BY <2>1
      <4>. QED BY <2>1, <2>4, <4>1
    <3>2. k - 1 \in good
      BY <2>1, <2>4, <3>1
    <3>. HIDE DEF left, good
    <3>3. left[k] = k /\ (left[k - 1] = 0 \/ left[k - 1] = k - 1)
      BY <1>2, <2>4, <3>2
    <3>. QED BY <2>1, <2>2, <2>4, <3>2, <3>3
  <2>. QED BY <2>3, <2>4
<1>4. kmemrchr(m, s, c, n) = IF end = 0 THEN NULL ELSE s + end - 1
  BY DEF kmemrchr
<1>5. end \in good /\ left[end] = 0
  <2>. HIDE DEF once, good, left
  <2>1. \A k \in good : left[k] \in Nat
    BY <1>2
  <2>2. left[n] <= n
    BY <1>1, <1>2
  <2>3. \A i \in 1..n : \A k \in good : /\ once[i][k] \in good
                                        /\ left[k] = 0 => left[once[i][k]] = 0
                                        /\ left[k] # 0 => left[once[i][k]] < left[k]
    BY <1>3
  <2>4. Loop(once, n, n) \in good /\ left[Loop(once, n, n)] = 0
    BY ZenonT(30), <1>1, <2>1, <2>2, <2>3, LoopEnds
  <2>. QED BY <2>4
<1>. HIDE DEF end
<1>6. /\ end \in 0..n /\ \A a \in (s + end)..(s + n - 1) : m[a] # c
      /\ m[s + end - 1] = c \/ end = 0
  BY <1>2, <1>5
<1>7. CASE end = 0
  BY <1>4, <1>6, <1>7 DEF Absent, Span
<1>8. CASE end # 0
  <2>1. s + end - 1 \in Span(s, n) /\ (s + end - 1) + 1 = s + end
    BY <1>6, <1>8 DEF Span
  <2>. QED BY <1>4, <1>6, <1>8, <2>1 DEF LastAt
<1>. QED BY <1>7, <1>8

\* A number is its quotient and its remainder.
LEMMA Division ==
    ASSUME NEW x \in Int, NEW y \in Nat, y > 0
    PROVE  /\ x % y \in 0..(y - 1) /\ x \div y \in Int
           /\ x = y * (x \div y) + (x % y)
OBVIOUS

\* A multiple of y other than 0 is at least as far from 0 as y.
LEMMA AtLeast ==
    ASSUME NEW q \in Int, NEW y \in Nat, q # 0
    PROVE  y * q >= y \/ y * q <= -y
<1>1. CASE q >= 1
  BY <1>1
<1>2. CASE q <= -1
  BY <1>2
<1>. QED BY <1>1, <1>2

\* The difference of two bytes is not lost in a size_t.
LEMMA Different ==
    ASSUME NEW a \in Byte, NEW b \in Byte, a # b
    PROVE  (a - b) % SizeT # 0
<1>. DEFINE q == (a - b) \div SizeT
<1>1. /\ SizeT \in Nat /\ SizeT > 0 /\ a - b \in Int /\ a - b # 0
      /\ a - b < SizeT /\ a - b > -SizeT
  BY WordIs DEF Byte
<1>. SUFFICES ASSUME (a - b) % SizeT = 0 PROVE FALSE
  OBVIOUS
<1>2. q \in Int /\ a - b = SizeT * q
  BY <1>1, Division
<1>. HIDE DEF q
<1>3. q # 0
  BY <1>1, <1>2
<1>4. SizeT * q >= SizeT \/ SizeT * q <= -SizeT
  BY <1>1, <1>2, <1>3, AtLeast
<1>. QED BY <1>1, <1>2, <1>4

\* kmemcmp is 0 for equal regions only.
LEMMA CmpIs ==
    ASSUME NEW size, NEW m \in [Addresses(size) -> Byte], NEW d, NEW s, NEW n,
           Within(size, d, s, n)
    PROVE  kmemcmp(m, d, s, n) = 0 <=> \A k \in 0..(n - 1) : m[d + k] = m[s + k]
<1>. DEFINE once == [i \in 1..n |-> [k \in 0..n |->
                       IF k = n \/ m[d + k] # m[s + k] THEN k ELSE k + 1]]
            good == {k \in 0..n : \A j \in 0..(k - 1) : m[d + j] = m[s + j]}
            left == [k \in good |-> IF m[d + k] # m[s + k] THEN 0 ELSE n - k]
            first == 0
            end == Loop(once, first, n)
<1>0. d \in Nat /\ s \in Nat /\ n \in Nat /\ size \in Nat /\ d + n <= size /\ s + n <= size
  BY DEF Within
<1>1. first \in good
  BY <1>0
<1>2. \A k \in good : /\ left[k] \in Nat /\ left[k] <= n /\ k \in 0..n
                      /\ left[k] = IF m[d + k] # m[s + k] THEN 0 ELSE n - k
  BY <1>0
<1>3. ASSUME NEW i \in 1..n, NEW k \in good
      PROVE  /\ once[i][k] \in good
             /\ left[k] = 0 => left[once[i][k]] = 0
             /\ left[k] # 0 => left[once[i][k]] < left[k]
  <2>1. k \in 0..n /\ \A j \in 0..(k - 1) : m[d + j] = m[s + j]
    OBVIOUS
  <2>2. once[i][k] = IF k = n \/ m[d + k] # m[s + k] THEN k ELSE k + 1
    BY <2>1
  <2>. HIDE DEF once
  <2>3. CASE k = n \/ m[d + k] # m[s + k]
    <3>1. left[k] = 0
      BY <1>0, <1>2, <2>3
    <3>. HIDE DEF left, good
    <3>. QED BY <2>2, <2>3, <3>1
  <2>4. CASE ~(k = n \/ m[d + k] # m[s + k])
    <3>1. \A j \in 0..((k + 1) - 1) : m[d + j] = m[s + j]
      <4>1. \A j \in 0..((k + 1) - 1) : j = k \/ j \in 0..(k - 1)
        BY <2>1
      <4>. QED BY <2>1, <2>4, <4>1
    <3>2. k + 1 \in good
      BY <1>0, <2>1, <2>4, <3>1
    <3>. HIDE DEF left, good
    <3>3. left[k] = n - k /\ (left[k + 1] = 0 \/ left[k + 1] = n - (k + 1))
      BY <1>2, <2>4, <3>2
    <3>. QED BY <1>0, <2>1, <2>2, <2>4, <3>2, <3>3
  <2>. QED BY <2>3, <2>4
<1>4. kmemcmp(m, d, s, n) = IF end = n THEN 0 ELSE (m[d + end] - m[s + end]) % SizeT
  BY DEF kmemcmp
<1>5. end \in good /\ left[end] = 0
  <2>. HIDE DEF once, first, good, left
  <2>1. \A k \in good : left[k] \in Nat
    BY <1>2
  <2>2. left[first] <= n
    BY <1>1, <1>2
  <2>3. \A i \in 1..n : \A k \in good : /\ once[i][k] \in good
                                        /\ left[k] = 0 => left[once[i][k]] = 0
                                        /\ left[k] # 0 => left[once[i][k]] < left[k]
    BY <1>3
  <2>4. Loop(once, first, n) \in good /\ left[Loop(once, first, n)] = 0
    BY <1>0, <1>1, <2>1, <2>2, <2>3, LoopEnds
  <2>. QED BY <2>4
<1>. HIDE DEF end
<1>6. /\ end \in 0..n /\ \A j \in 0..(end - 1) : m[d + j] = m[s + j]
      /\ m[d + end] # m[s + end] \/ end = n
  BY <1>0, <1>2, <1>5
<1>7. CASE end = n
  BY <1>4, <1>6, <1>7
<1>8. CASE end # n
  <2>1. end \in 0..(n - 1) /\ d + end \in Addresses(size) /\ s + end \in Addresses(size)
    BY <1>0, <1>6, <1>8 DEF Addresses
  <2>2. (m[d + end] - m[s + end]) % SizeT # 0
    BY <1>6, <1>8, <2>1, Different
  <2>. QED BY <1>4, <1>6, <1>8, <2>1, <2>2
<1>. QED BY <1>7, <1>8

\* The memory routines do what they promise, for memory of every size, words of
\* every width, and spans that overlap in any way (main.c:148-232).
THEOREM MemoryKeepsItsPromise == Spec => []MemoryAsPromised
<1>1. IInv => MemoryAsPromised
  <2>. SUFFICES ASSUME IInv PROVE MemoryAsPromised
    OBVIOUS
  <2>1. /\ MemorySize \in Nat /\ Memory \in [Addresses(MemorySize) -> Byte]
        /\ DOMAIN Memory = Addresses(MemorySize)
    BY RoutinesAssumption DEF Addresses
  <2>2. (After("move") \/ After("compare")) =>
            /\ Within(MemorySize, job.d, job.s, job.n)
            /\ After("move") => out = kmemmove(Memory, job.d, job.s, job.n)
            /\ After("compare") => out = kmemcmp(Memory, job.d, job.s, job.n)
    <3>. SUFFICES ASSUME job.op \in {"move", "compare"}
                  PROVE  Within(MemorySize, job.d, job.s, job.n)
      BY DEF IInv, Answered, After
    <3>1. /\ job.d \in Addresses(MemorySize) /\ job.s \in Addresses(MemorySize)
          /\ job.n \in 0..MemorySize
          /\ job.d + job.n \in 0..MemorySize /\ job.s + job.n \in 0..MemorySize
      BY <2>1 DEF IInv, Asked
    <3>. QED BY <2>1, <3>1 DEF Within, Addresses
  <2>3. After("move") => \A i \in DOMAIN Memory :
           out[i] = IF i \in Span(job.d, job.n) THEN Memory[i - job.d + job.s]
                    ELSE Memory[i]
    BY <2>1, <2>2, MoveIs DEF Copied
  <2>4. After("compare") => (out = 0 <=> \A k \in 0..(job.n - 1) :
                                Memory[job.d + k] = Memory[job.s + k])
    BY <2>1, <2>2, CmpIs
  <2>5. ASSUME After("find")
        PROVE  LET at == {i \in Span(job.s, job.n) : Memory[i] = job.c}
               IN IF at = {} THEN out = <<NULL, NULL>>
                  ELSE /\ {out[1], out[2]} \subseteq at
                       /\ \A i \in at : out[1] <= i /\ i <= out[2]
    <3>. DEFINE places == {i \in Span(job.s, job.n) : Memory[i] = job.c}
                c == job.c
                s == job.s
                n == job.n
    <3>. SUFFICES IF places = {} THEN out = <<NULL, NULL>>
                  ELSE /\ {out[1], out[2]} \subseteq places
                       /\ \A i \in places : out[1] <= i /\ i <= out[2]
      OBVIOUS
    <3>1. /\ out = <<kmemchr(Memory, s, c, n), kmemrchr(Memory, s, c, n)>>
          /\ s \in Nat /\ n \in Nat
      <4>1. s \in Addresses(MemorySize) /\ n \in Addresses(MemorySize)
        BY <2>1, <2>5 DEF IInv, Asked, After
      <4>2. s \in Nat /\ n \in Nat
        BY <2>1, <4>1 DEF Addresses
      <4>. QED BY <2>5, <4>2 DEF IInv, Answered
    <3>2. out[1] = kmemchr(Memory, s, c, n) /\ out[2] = kmemrchr(Memory, s, c, n)
      BY <3>1
    <3>. HIDE DEF s, n, c
    <3>3. \/ out[1] = NULL /\ Absent(Memory, s, c, n)
          \/ FirstAt(Memory, s, c, n, out[1])
      BY <3>1, <3>2, ChrIs
    <3>4. \/ out[2] = NULL /\ Absent(Memory, s, c, n)
          \/ LastAt(Memory, s, c, n, out[2])
      BY <3>1, <3>2, RChrIs
    <3>5. places = {i \in Span(s, n) : Memory[i] = c}
      BY DEF s, n, c
    <3>. HIDE DEF places
    <3>6. CASE places = {}
      BY <3>1, <3>2, <3>3, <3>4, <3>5, <3>6 DEF FirstAt, LastAt
    <3>7. CASE places # {}
      <4>1. FirstAt(Memory, s, c, n, out[1]) /\ LastAt(Memory, s, c, n, out[2])
        BY <3>3, <3>4, <3>5, <3>7 DEF Absent
      <4>2. out[1] \in places /\ out[2] \in places
        BY <3>5, <4>1 DEF FirstAt, LastAt
      <4>3. ASSUME NEW i \in places PROVE out[1] <= i /\ i <= out[2]
        <5>1. /\ i \in Int /\ i >= s /\ i <= s + n - 1 /\ Memory[i] = c
              /\ out[1] \in Int /\ out[2] \in Int
          BY <3>1, <3>5, <4>1 DEF Span, FirstAt, LastAt
        <5>2. ~(i \in s..(out[1] - 1))
          BY <4>1, <5>1 DEF FirstAt
        <5>3. ~(i \in (out[2] + 1)..(s + n - 1))
          BY <4>1, <5>1 DEF LastAt
        <5>. QED BY <3>1, <5>1, <5>2, <5>3
      <4>. QED BY <3>7, <4>2, <4>3
    <3>. QED BY <3>6, <3>7
  <2>. QED BY <2>3, <2>4, <2>5 DEF MemoryAsPromised
<1>. QED BY Inductive, <1>1, PTL

-----------------------------------------------------------------------------
(* The descriptor tables and the interrupt controllers *)

\* A number of four bytes.
InU32(n) == n \div 16777216 < 256

\* The four bytes of a 32-bit number, and the number from them.
LEMMA BytesAre ==
    ASSUME NEW n \in Nat
    PROVE  /\ Bytes(n)[1] \in Byte /\ Bytes(n)[2] \in Byte
           /\ Bytes(n)[3] \in Byte /\ Bytes(n)[4] \in Byte
           /\ InU32(n) =>
                  n = Bytes(n)[1] + 256 * Bytes(n)[2] + 65536 * Bytes(n)[3]
                      + 16777216 * Bytes(n)[4]
           /\ n % 1048576 = Bytes(n)[1] + 256 * Bytes(n)[2]
                            + 65536 * (Bytes(n)[3] % 16)
<1>. DEFINE w == n \div 256
            h == n \div 65536
            t == n \div 16777216
<1>1. w \in Nat /\ h \in Nat /\ t \in Nat
  BY SMT
<1>2. /\ n = 256 * w + (n % 256) /\ n % 256 \in Byte
      /\ w = 256 * h + (w % 256) /\ w % 256 \in Byte
      /\ h = 256 * t + (h % 256) /\ h % 256 \in Byte /\ t % 256 \in Byte
  BY SMT DEF Byte
<1>3. /\ Bytes(n)[1] = n % 256 /\ Bytes(n)[2] = w % 256
      /\ Bytes(n)[3] = h % 256 /\ Bytes(n)[4] = t % 256
  BY SMT DEF Bytes
<1>4. t < 256 => t % 256 = t
  BY SMT, <1>1
<1>5. n % 1048576 = (n % 256) + 256 * (w % 256) + 65536 * (h % 16)
  <2>1. n = 65536 * h + 256 * (w % 256) + (n % 256)
    BY SMT, <1>1, <1>2 DEF Byte
  <2>2. h = 16 * (h \div 16) + (h % 16) /\ h \div 16 \in Int /\ h % 16 \in 0..15
    BY SMT, <1>1
  <2>3. 1048576 * (h \div 16) = 65536 * (16 * (h \div 16))
    BY SMT, <2>2
  <2>. HIDE DEF w, h
  <2>. QED BY SMT, <1>1, <1>2, <2>1, <2>2, <2>3 DEF Byte
<1>6. (h % 256) % 16 = h % 16
  BY SMT, <1>1
<1>. HIDE DEF w, h, t
<1>7. t < 256 => n = (n % 256) + 256 * (w % 256) + 65536 * (h % 256) + 16777216 * (t % 256)
  BY SMT, <1>1, <1>2, <1>4 DEF Byte
<1>. QED BY SMT, <1>2, <1>3, <1>5, <1>6, <1>7 DEF t, InU32

\* A segment that begins at 0 and spans everything (gdt.c:104).
LEMMA FlatIs ==
    ASSUME NEW access \in Byte
    PROVE  LET s == Segment(gdt_set_gate(Bytes(0), AllOnes, access, \hcf))
           IN /\ s.base = 0 /\ s.limit = 1048575 /\ s.pages
              /\ (s.present <=> access >= 128) /\ s.dpl = (access \div 32) % 4
              /\ s.type = access % 32
<1>. DEFINE e == gdt_set_gate(Bytes(0), AllOnes, access, \hcf)
<1>1. e = <<255, 255, 0, 0, 0, access, 207, 0>>
  BY SMT DEF gdt_set_gate, Bytes, AllOnes
<1>. HIDE DEF e
<1>2. SegmentBase(e) = 0 /\ SegmentLimit(e) = 1048575
  BY SMT, <1>1 DEF SegmentBase, SegmentLimit, Word16
<1>3. /\ Segment(e).base = SegmentBase(e) /\ Segment(e).limit = SegmentLimit(e)
      /\ Segment(e).pages = (207 >= 128) /\ Segment(e).present = (access >= 128)
      /\ Segment(e).dpl = (access \div 32) % 4 /\ Segment(e).type = access % 32
  BY SMT, <1>1 DEF Segment
<1>4. Segment(e).pages /\ (Segment(e).present <=> access >= 128)
  <2>1. 207 >= 128
    BY SMT
  <2>. QED BY Zenon, <1>3, <2>1
<1>. QED BY SMT, <1>2, <1>3, <1>4 DEF e

\* The segment of the task state.
LEMMA TssIs ==
    ASSUME NEW tss \in Nat, InU32(tss)
    PROVE  LET s == Segment(gdt_set_gate(Bytes(tss), Bytes(tss + TssSize), \he9, 0))
           IN /\ s.base = tss /\ s.present /\ s.type = 9
              /\ tss \div 1048576 = (tss + TssSize) \div 1048576
                    => s.limit >= TssSize - 1
<1>. DEFINE b == Bytes(tss)
            l == Bytes(tss + TssSize)
            e == gdt_set_gate(b, l, \he9, 0)
<1>1. TssSize \in Nat /\ tss + TssSize \in Nat
  BY SMT, DescriptorsAssumption
<1>2. /\ e[1] = l[1] /\ e[2] = l[2] /\ e[3] = b[1] /\ e[4] = b[2] /\ e[5] = b[3]
      /\ e[6] = 233 /\ e[7] = l[3] % 16 /\ e[8] = b[4]
  <2>1. l[3] \in Byte
    BY SMT, <1>1, BytesAre
  <2>. HIDE DEF b, l
  <2>2. ((0 \div 16) * 16) + (l[3] % 16) = l[3] % 16
    BY SMT, <2>1 DEF Byte
  <2>. QED BY SMT, <2>2 DEF gdt_set_gate
<1>3. tss = b[1] + 256 * b[2] + 65536 * b[3] + 16777216 * b[4]
  BY SMT, BytesAre
<1>4. (tss + TssSize) % 1048576 = l[1] + 256 * l[2] + 65536 * (l[3] % 16)
  BY SMT, <1>1, BytesAre
<1>5. b[1] \in Byte /\ b[2] \in Byte /\ b[3] \in Byte /\ b[4] \in Byte
      /\ l[1] \in Byte /\ l[2] \in Byte /\ l[3] \in Byte
  BY SMT, <1>1, BytesAre
<1>. HIDE DEF b, l, e
<1>6. SegmentBase(e) = tss
  BY SMT, <1>2, <1>3, <1>5 DEF SegmentBase, Word16, Byte
<1>7. SegmentLimit(e) = (tss + TssSize) % 1048576
  <2>1. (l[3] % 16) % 16 = l[3] % 16
    BY SMT, <1>5 DEF Byte
  <2>. QED BY SMT, <1>2, <1>4, <1>5, <2>1 DEF SegmentLimit, Word16, Byte
<1>8. tss \div 1048576 = (tss + TssSize) \div 1048576
      => (tss + TssSize) % 1048576 >= TssSize - 1
  BY SMT, <1>1
<1>9. e[6] % 32 = 9 /\ e[6] >= 128
  BY SMT, <1>2
<1>10. /\ Segment(e).base = SegmentBase(e) /\ Segment(e).limit = SegmentLimit(e)
       /\ Segment(e).type = e[6] % 32
  BY SMT DEF Segment
<1>11. Segment(e).present
  <2>1. Segment(e).present = (e[6] >= 128)
    BY SMT DEF Segment
  <2>. QED BY Zenon, <1>9, <2>1
<1>12. /\ Segment(e).base = tss /\ Segment(e).present /\ Segment(e).type = 9
       /\ tss \div 1048576 = (tss + TssSize) \div 1048576
              => Segment(e).limit >= TssSize - 1
  BY SMT, <1>6, <1>7, <1>8, <1>9, <1>10, <1>11
<1>. QED BY SMT, <1>12 DEF e, b, l

\* A gate.
LEMMA GateIs ==
    ASSUME NEW base \in Nat, InU32(base), NEW flags \in Byte
    PROVE  LET g == Gate(idt_set_gate(Bytes(base), 8, flags))
           IN /\ g.offset = base /\ g.selector = 8 /\ (g.present <=> flags >= 128)
              /\ g.type = flags % 32 /\ g.dpl = (flags \div 32) % 4
<1>. DEFINE b == Bytes(base)
            e == idt_set_gate(b, 8, flags)
<1>1. /\ e[1] = b[1] /\ e[2] = b[2] /\ e[3] = 8 /\ e[4] = 0 /\ e[6] = flags
      /\ e[7] = b[3] /\ e[8] = b[4]
  <2>. HIDE DEF b
  <2>. QED BY SMT DEF idt_set_gate
<1>2. /\ base = b[1] + 256 * b[2] + 65536 * b[3] + 16777216 * b[4]
      /\ b[1] \in Byte /\ b[2] \in Byte /\ b[3] \in Byte /\ b[4] \in Byte
  BY SMT, BytesAre
<1>. HIDE DEF b, e
<1>3. Word16(e[1], e[2]) + 65536 * Word16(e[7], e[8]) = base /\ Word16(e[3], e[4]) = 8
  <2>1. \A x, y \in Nat : 65536 * (x + 256 * y) = 65536 * x + 16777216 * y
    BY SMT
  <2>2. b[1] \in Nat /\ b[2] \in Nat /\ b[3] \in Nat /\ b[4] \in Nat
    BY SMTT(30), <1>2 DEF Byte
  <2>3. Word16(e[1], e[2]) = b[1] + 256 * b[2] /\ Word16(e[7], e[8]) = b[3] + 256 * b[4]
        /\ Word16(e[3], e[4]) = 8
    BY SMT, <1>1 DEF Word16
  <2>. QED BY SMT, <1>2, <2>1, <2>2, <2>3
<1>4. /\ Gate(e).offset = base /\ Gate(e).selector = 8
      /\ Gate(e).present = (flags >= 128)
      /\ Gate(e).type = flags % 32 /\ Gate(e).dpl = (flags \div 32) % 4
  BY SMT, <1>1, <1>3 DEF Gate
<1>5. Gate(e).present <=> flags >= 128
  BY Zenon, <1>4
<1>. QED BY SMT, <1>4, <1>5 DEF e, b

\* A controller in its state, and the two of them.
At(icw, base, cascade, mode, mask) ==
    [icw |-> icw, base |-> base, cascade |-> cascade, mode |-> mode, mask |-> mask]
Both(a, b) == [pic \in {1, 2} |-> IF pic = 1 THEN a ELSE b]

\* What a write does to a controller, by what it waits for.
LEMMA CommandIs ==
    ASSUME NEW icw, NEW base, NEW cascade, NEW mode, NEW mask, NEW pic, NEW v
    PROVE  Take(At(icw, base, cascade, mode, mask), Command(pic, v))
           = At(2, base, cascade, mode, 0)
<1>1. ASSUME NEW p
      PROVE  Take(p, Command(pic, v)) = At(2, p.base, p.cascade, p.mode, 0)
  BY DEF Take, At, Command
<1>. QED BY <1>1 DEF At

\* A write to a data port outside of an initialisation is the mask.
LEMMA DataIs ==
    ASSUME NEW p, NEW pic, NEW v
    PROVE  Take(p, Data(pic, v)) =
           At(IF p.icw < 5 THEN p.icw + 1 ELSE 5, IF p.icw = 2 THEN v ELSE p.base,
              IF p.icw = 3 THEN v ELSE p.cascade, IF p.icw = 4 THEN v ELSE p.mode,
              IF p.icw = 5 THEN v ELSE p.mask)
<1>1. ~Data(pic, v).cmd /\ Data(pic, v).val = v
  BY DEF Data
<1>. QED BY <1>1 DEF Take, At

\* The second word of an initialisation is the base.
LEMMA Icw2Is ==
    ASSUME NEW base, NEW cascade, NEW mode, NEW mask, NEW pic, NEW v
    PROVE  Take(At(2, base, cascade, mode, mask), Data(pic, v)) = At(3, v, cascade, mode, mask)
BY DataIs DEF At

\* The third one is the cascade.
LEMMA Icw3Is ==
    ASSUME NEW base, NEW cascade, NEW mode, NEW mask, NEW pic, NEW v
    PROVE  Take(At(3, base, cascade, mode, mask), Data(pic, v)) = At(4, base, v, mode, mask)
BY DataIs DEF At

\* The fourth one is the mode.
LEMMA Icw4Is ==
    ASSUME NEW base, NEW cascade, NEW mode, NEW mask, NEW pic, NEW v
    PROVE  Take(At(4, base, cascade, mode, mask), Data(pic, v)) = At(5, base, cascade, v, mask)
BY DataIs DEF At

\* The write after the fourth one is the mask again.
LEMMA MaskIs ==
    ASSUME NEW base, NEW cascade, NEW mode, NEW mask, NEW pic, NEW v
    PROVE  Take(At(5, base, cascade, mode, mask), Data(pic, v)) = At(5, base, cascade, mode, v)
BY DataIs DEF At

\* At describes a controller.
LEMMA AtIs ==
    ASSUME NEW icw \in Nat, NEW base \in Nat, NEW cascade \in Nat, NEW mode \in Nat,
           NEW mask \in Nat
    PROVE  At(icw, base, cascade, mode, mask) \in Controller
BY DEF At, Controller

\* The writes of irq_remap come in pairs, one for each controller.
Once(writes) == [i \in 1..Len(writes) |-> [s \in [{1, 2} -> Controller] |->
                    [s EXCEPT ![writes[i].pic] = Take(@, writes[i])]]]

\* Two writes in a row, one for each controller, reach one each.
LEMMA WriteIs ==
    ASSUME NEW writes, Len(writes) \in Nat, NEW start, NEW k \in Nat,
           NEW i, NEW j, i = k + 1, j = k + 2, j <= Len(writes),
           NEW a \in Controller, NEW b \in Controller,
           Loop(Once(writes), start, k) = Both(a, b),
           writes[i].pic = 1, writes[j].pic = 2, Take(a, writes[i]) \in Controller
    PROVE  Loop(Once(writes), start, j) = Both(Take(a, writes[i]), Take(b, writes[j]))
<1>. DEFINE v == writes[i]
            w == writes[j]
<1>1. \A h \in 1..Len(writes) : \A s \in [{1, 2} -> Controller] :
         Once(writes)[h][s] = [s EXCEPT ![writes[h].pic] = Take(s[writes[h].pic], writes[h])]
  BY DEF Once
<1>2. /\ Both(a, b) \in [{1, 2} -> Controller]
      /\ Both(Take(a, v), b) \in [{1, 2} -> Controller]
  BY DEF Both
<1>3. ASSUME NEW x, NEW y, NEW z
      PROVE  /\ Both(x, y)[1] = x /\ Both(x, y)[2] = y
             /\ [Both(x, y) EXCEPT ![1] = z] = Both(z, y)
             /\ [Both(x, y) EXCEPT ![2] = z] = Both(x, z)
  <2>1. Both(x, y)[1] = x /\ Both(x, y)[2] = y
    BY DEF Both
  <2>2. [Both(x, y) EXCEPT ![1] = z] = Both(z, y)
    BY DEF Both
  <2>3. \A pic \in {1, 2} : pic = 1 <=> pic # 2
    OBVIOUS
  <2>4. [Both(x, y) EXCEPT ![2] = z] = Both(x, z)
    BY <2>3 DEF Both
  <2>. QED BY <2>1, <2>2, <2>4
<1>4. k + 1 \in 1..Len(writes) /\ k + 2 \in 1..Len(writes) /\ k + 1 \in Nat
      /\ (k + 1) + 1 = k + 2
  OBVIOUS
<1>5. Loop(Once(writes), start, k + 1) = Both(Take(a, v), b)
  <2>1. Loop(Once(writes), start, k + 1)
        = Once(writes)[k + 1][Loop(Once(writes), start, k)]
    BY ZenonT(30), LoopIs
  <2>. QED BY <1>1, <1>2, <1>3, <1>4, <2>1
<1>6. Loop(Once(writes), start, k + 2)
      = Once(writes)[k + 2][Loop(Once(writes), start, k + 1)]
  <2>1. Loop(Once(writes), start, (k + 1) + 1)
        = Once(writes)[(k + 1) + 1][Loop(Once(writes), start, k + 1)]
    BY <1>4, OneMore
  <2>. QED BY <1>4, <2>1
<1>. QED BY <1>1, <1>2, <1>3, <1>4, <1>5, <1>6

\* What the twelve writes of irq_remap leave in the controllers.
LEMMA WrittenTo ==
    ASSUME NEW masks, masks[1] \in Nat, masks[2] \in Nat
    PROVE  Controllers(masks, irq_remap(\h20, \h28, masks)) =
           Both(At(5, 32, 4, 1, masks[1]), At(5, 40, 2, 1, masks[2]))
<1>. DEFINE writes == irq_remap(\h20, \h28, masks)
            start == [pic \in {1, 2} |-> PowerOn(masks[pic])]
            m1 == masks[1]
            m2 == masks[2]
<1>1. Len(writes) = 12
  BY DEF irq_remap
<1>2. /\ writes[1] = Command(1, 17) /\ writes[2] = Command(2, 17)
      /\ writes[3] = Data(1, 32) /\ writes[4] = Data(2, 40)
      /\ writes[5] = Data(1, 4) /\ writes[6] = Data(2, 2)
      /\ writes[7] = Data(1, 1) /\ writes[8] = Data(2, 1)
      /\ writes[9] = Data(1, 32) /\ writes[10] = Data(2, 32)
      /\ writes[11] = Data(1, m1) /\ writes[12] = Data(2, m2)
  BY DEF irq_remap
<1>3. \A v : /\ Command(1, v).pic = 1 /\ Command(2, v).pic = 2
             /\ Data(1, v).pic = 1 /\ Data(2, v).pic = 2
  BY DEF Command, Data
<1>4. m1 \in Nat /\ m2 \in Nat
  OBVIOUS
<1>5. start = Both(At(5, 0, 0, 0, m1), At(5, 0, 0, 0, m2))
  BY DEF PowerOn, Both, At
<1>6. Controllers(masks, writes) = Loop(Once(writes), start, 12)
  BY <1>1 DEF Controllers, Once
<1>. HIDE DEF writes, start, m1, m2
<1>7. Loop(Once(writes), start, 0) = start
  BY LoopIs
<1>8. Loop(Once(writes), start, 2) = Both(At(2, 0, 0, 0, 0), At(2, 0, 0, 0, 0))
  <2>. DEFINE a == At(5, 0, 0, 0, m1)
              b == At(5, 0, 0, 0, m2)
  <2>1. a \in Controller /\ b \in Controller /\ At(2, 0, 0, 0, 0) \in Controller
    BY <1>4, AtIs
  <2>2. Take(a, writes[1]) = At(2, 0, 0, 0, 0) /\ Take(b, writes[2]) = At(2, 0, 0, 0, 0)
    BY <1>2, CommandIs
  <2>3. writes[1].pic = 1 /\ writes[2].pic = 2
    BY <1>2, <1>3
  <2>4. Loop(Once(writes), start, 0) = Both(a, b)
    BY <1>5, <1>7
  <2>. HIDE DEF a, b
  <2>5. Loop(Once(writes), start, 2) = Both(Take(a, writes[1]), Take(b, writes[2]))
    <3>1. 0 \in Nat /\ 1 = 0 + 1 /\ 2 = 0 + 2 /\ 2 <= Len(writes) /\ Len(writes) \in Nat
      BY <1>1
    <3>2. Take(a, writes[1]) \in Controller
      BY <2>1, <2>2
    <3>. QED BY <2>1, <2>3, <2>4, <3>1, <3>2, WriteIs
  <2>. QED BY <2>2, <2>5
<1>9. Loop(Once(writes), start, 4) = Both(At(3, 32, 0, 0, 0), At(3, 40, 0, 0, 0))
  <2>. DEFINE a == At(2, 0, 0, 0, 0)
              b == At(2, 0, 0, 0, 0)
  <2>1. a \in Controller /\ b \in Controller /\ At(3, 32, 0, 0, 0) \in Controller
    BY <1>4, AtIs
  <2>2. Take(a, writes[3]) = At(3, 32, 0, 0, 0) /\ Take(b, writes[4]) = At(3, 40, 0, 0, 0)
    BY <1>2, Icw2Is
  <2>3. writes[3].pic = 1 /\ writes[4].pic = 2
    BY <1>2, <1>3
  <2>4. Loop(Once(writes), start, 2) = Both(a, b)
    BY <1>8
  <2>. HIDE DEF a, b
  <2>5. Loop(Once(writes), start, 4) = Both(Take(a, writes[3]), Take(b, writes[4]))
    <3>1. 2 \in Nat /\ 3 = 2 + 1 /\ 4 = 2 + 2 /\ 4 <= Len(writes) /\ Len(writes) \in Nat
      BY <1>1
    <3>2. Take(a, writes[3]) \in Controller
      BY <2>1, <2>2
    <3>. QED BY <2>1, <2>3, <2>4, <3>1, <3>2, WriteIs
  <2>. QED BY <2>2, <2>5
<1>10. Loop(Once(writes), start, 6) = Both(At(4, 32, 4, 0, 0), At(4, 40, 2, 0, 0))
  <2>. DEFINE a == At(3, 32, 0, 0, 0)
              b == At(3, 40, 0, 0, 0)
  <2>1. a \in Controller /\ b \in Controller /\ At(4, 32, 4, 0, 0) \in Controller
    BY <1>4, AtIs
  <2>2. Take(a, writes[5]) = At(4, 32, 4, 0, 0) /\ Take(b, writes[6]) = At(4, 40, 2, 0, 0)
    BY <1>2, Icw3Is
  <2>3. writes[5].pic = 1 /\ writes[6].pic = 2
    BY <1>2, <1>3
  <2>4. Loop(Once(writes), start, 4) = Both(a, b)
    BY <1>9
  <2>. HIDE DEF a, b
  <2>5. Loop(Once(writes), start, 6) = Both(Take(a, writes[5]), Take(b, writes[6]))
    <3>1. 4 \in Nat /\ 5 = 4 + 1 /\ 6 = 4 + 2 /\ 6 <= Len(writes) /\ Len(writes) \in Nat
      BY <1>1
    <3>2. Take(a, writes[5]) \in Controller
      BY <2>1, <2>2
    <3>. QED BY <2>1, <2>3, <2>4, <3>1, <3>2, WriteIs
  <2>. QED BY <2>2, <2>5
<1>11. Loop(Once(writes), start, 8) = Both(At(5, 32, 4, 1, 0), At(5, 40, 2, 1, 0))
  <2>. DEFINE a == At(4, 32, 4, 0, 0)
              b == At(4, 40, 2, 0, 0)
  <2>1. a \in Controller /\ b \in Controller /\ At(5, 32, 4, 1, 0) \in Controller
    BY <1>4, AtIs
  <2>2. Take(a, writes[7]) = At(5, 32, 4, 1, 0) /\ Take(b, writes[8]) = At(5, 40, 2, 1, 0)
    BY <1>2, Icw4Is
  <2>3. writes[7].pic = 1 /\ writes[8].pic = 2
    BY <1>2, <1>3
  <2>4. Loop(Once(writes), start, 6) = Both(a, b)
    BY <1>10
  <2>. HIDE DEF a, b
  <2>5. Loop(Once(writes), start, 8) = Both(Take(a, writes[7]), Take(b, writes[8]))
    <3>1. 6 \in Nat /\ 7 = 6 + 1 /\ 8 = 6 + 2 /\ 8 <= Len(writes) /\ Len(writes) \in Nat
      BY <1>1
    <3>2. Take(a, writes[7]) \in Controller
      BY <2>1, <2>2
    <3>. QED BY <2>1, <2>3, <2>4, <3>1, <3>2, WriteIs
  <2>. QED BY <2>2, <2>5
<1>12. Loop(Once(writes), start, 10) = Both(At(5, 32, 4, 1, 32), At(5, 40, 2, 1, 32))
  <2>. DEFINE a == At(5, 32, 4, 1, 0)
              b == At(5, 40, 2, 1, 0)
  <2>1. a \in Controller /\ b \in Controller /\ At(5, 32, 4, 1, 32) \in Controller
    BY <1>4, AtIs
  <2>2. Take(a, writes[9]) = At(5, 32, 4, 1, 32) /\ Take(b, writes[10]) = At(5, 40, 2, 1, 32)
    BY <1>2, MaskIs
  <2>3. writes[9].pic = 1 /\ writes[10].pic = 2
    BY <1>2, <1>3
  <2>4. Loop(Once(writes), start, 8) = Both(a, b)
    BY <1>11
  <2>. HIDE DEF a, b
  <2>5. Loop(Once(writes), start, 10) = Both(Take(a, writes[9]), Take(b, writes[10]))
    <3>1. 8 \in Nat /\ 9 = 8 + 1 /\ 10 = 8 + 2 /\ 10 <= Len(writes) /\ Len(writes) \in Nat
      BY <1>1
    <3>2. Take(a, writes[9]) \in Controller
      BY <2>1, <2>2
    <3>. QED BY <2>1, <2>3, <2>4, <3>1, <3>2, WriteIs
  <2>. QED BY <2>2, <2>5
<1>13. Loop(Once(writes), start, 12) = Both(At(5, 32, 4, 1, m1), At(5, 40, 2, 1, m2))
  <2>. DEFINE a == At(5, 32, 4, 1, 32)
              b == At(5, 40, 2, 1, 32)
  <2>1. a \in Controller /\ b \in Controller /\ At(5, 32, 4, 1, m1) \in Controller
    BY <1>4, AtIs
  <2>2. Take(a, writes[11]) = At(5, 32, 4, 1, m1) /\ Take(b, writes[12]) = At(5, 40, 2, 1, m2)
    BY <1>2, MaskIs
  <2>3. writes[11].pic = 1 /\ writes[12].pic = 2
    BY <1>2, <1>3
  <2>4. Loop(Once(writes), start, 10) = Both(a, b)
    BY <1>12
  <2>. HIDE DEF a, b
  <2>5. Loop(Once(writes), start, 12) = Both(Take(a, writes[11]), Take(b, writes[12]))
    <3>1. 10 \in Nat /\ 11 = 10 + 1 /\ 12 = 10 + 2 /\ 12 <= Len(writes) /\ Len(writes) \in Nat
      BY <1>1
    <3>2. Take(a, writes[11]) \in Controller
      BY <2>1, <2>2
    <3>. QED BY <2>1, <2>3, <2>4, <3>1, <3>2, WriteIs
  <2>. QED BY <2>2, <2>5
<1>. QED BY <1>6, <1>13 DEF writes, m1, m2

\* What the processor reads from the tables is what was meant, for a TSS at any
\* address and any masks (gdt.c:118, isrs.c:192-257, 372-403).
THEOREM TablesRead == Spec => []TablesAsMeant
<1>1. ASSUME IInv, After("gdt")
      PROVE  /\ \A i \in 2..5 : LET s == Segment(out[i])
                                IN /\ s.base = 0 /\ s.limit = 1048575 /\ s.pages
                                   /\ s.present /\ s.dpl = IF i <= 3 THEN 0 ELSE 3
                                   /\ s.type = IF i \in {2, 4} THEN \h1a ELSE \h12
             /\ LET s == Segment(out[6])
                IN /\ s.base = job.tss /\ s.present /\ s.type = 9
                   /\ job.tss \div 1048576 = (job.tss + TssSize) \div 1048576
                      => s.limit >= TssSize - 1
  <2>1. out = gdt(job.tss)
    BY SMT, <1>1 DEF IInv, Answered
  <2>2. job.tss \in Nat /\ InU32(job.tss)
    <3>1. job.tss \in TssAddresses
      BY SMT, <1>1 DEF IInv, Asked, After
    <3>2. \A t \in TssAddresses : t \in Nat /\ InU32(t)
      BY SMT, RoutinesAssumption DEF InU32
    <3>. QED BY Zenon, <3>1, <3>2
  <2>3. /\ out[2] = gdt_set_gate(Bytes(0), AllOnes, \h9a, \hcf)
        /\ out[3] = gdt_set_gate(Bytes(0), AllOnes, \h92, \hcf)
        /\ out[4] = gdt_set_gate(Bytes(0), AllOnes, \hfa, \hcf)
        /\ out[5] = gdt_set_gate(Bytes(0), AllOnes, \hf2, \hcf)
        /\ out[6] = gdt_set_gate(Bytes(job.tss), Bytes(job.tss + TssSize), \he9, 0)
    BY SMT, <2>1 DEF gdt
  <2>4. ASSUME NEW i \in 2..5
        PROVE  LET s == Segment(out[i])
               IN /\ s.base = 0 /\ s.limit = 1048575 /\ s.pages
                  /\ s.present /\ s.dpl = IF i <= 3 THEN 0 ELSE 3
                  /\ s.type = IF i \in {2, 4} THEN \h1a ELSE \h12
    <3>. DEFINE access == IF i = 2 THEN \h9a ELSE IF i = 3 THEN \h92
                          ELSE IF i = 4 THEN \hfa ELSE \hf2
    <3>1. /\ access \in Byte /\ access >= 128
          /\ (access \div 32) % 4 = IF i <= 3 THEN 0 ELSE 3
          /\ access % 32 = IF i \in {2, 4} THEN \h1a ELSE \h12
      BY SMT DEF Byte
    <3>2. out[i] = gdt_set_gate(Bytes(0), AllOnes, access, \hcf)
      BY SMT, <2>3
    <3>. HIDE DEF access
    <3>. QED BY SMT, <3>1, <3>2, FlatIs
  <2>. QED BY SMT, <2>2, <2>3, <2>4, TssIs
<1>2. ASSUME IInv, After("idt")
      PROVE  /\ \A n \in 0..47 :
                   LET g == Gate(out.gates[n])
                   IN /\ g.offset = Stub(n) /\ g.selector = 8 /\ g.present
                      /\ g.type = IF n < 32 THEN 15 ELSE 14
                      /\ g.dpl = IF n \in {3, 4, 5} THEN 3 ELSE 0
             /\ \A p \in {1, 2} :
                   out.pics[p] = [icw |-> 5, base |-> 32 + 8 * (p - 1), mode |-> 1,
                                  cascade |-> IF p = 1 THEN 4 ELSE 2,
                                  mask |-> job.masks[p]]
  <2>1. /\ out.gates = idt([n \in 0..47 |-> Stub(n)])
        /\ out.pics = Controllers(job.masks, irq_remap(\h20, \h28, job.masks))
    BY SMT, <1>2 DEF IInv, Answered
  <2>2. job.masks[1] \in Nat /\ job.masks[2] \in Nat
    <3>1. job.masks \in Masks \X Masks
      BY SMT, <1>2 DEF IInv, Asked, After
    <3>2. \A m \in Masks : m \in Nat
      BY SMT, RoutinesAssumption
    <3>3. \A m \in Masks \X Masks : m[1] \in Masks /\ m[2] \in Masks
      BY SMT
    <3>. QED BY Zenon, <3>1, <3>2, <3>3
  <2>3. ASSUME NEW n \in 0..47
        PROVE  LET g == Gate(out.gates[n])
               IN /\ g.offset = Stub(n) /\ g.selector = 8 /\ g.present
                  /\ g.type = IF n < 32 THEN 15 ELSE 14
                  /\ g.dpl = IF n \in {3, 4, 5} THEN 3 ELSE 0
    <3>. DEFINE flags == IF n \in {3, 4, 5} THEN \hef ELSE IF n < 32 THEN \h8f ELSE \h8e
    <3>1. out.gates[n] = idt_set_gate(Bytes(Stub(n)), 8, flags)
      BY SMT, <2>1 DEF idt
    <3>2. Stub(n) \in Nat /\ InU32(Stub(n))
      BY SMT DEF Stub, InU32
    <3>3. /\ flags \in Byte /\ flags >= 128 /\ flags % 32 = IF n < 32 THEN 15 ELSE 14
          /\ (flags \div 32) % 4 = IF n \in {3, 4, 5} THEN 3 ELSE 0
      BY SMT DEF Byte
    <3>. HIDE DEF flags
    <3>. QED BY SMT, <3>1, <3>2, <3>3, GateIs
  <2>4. out.pics = Both(At(5, 32, 4, 1, job.masks[1]), At(5, 40, 2, 1, job.masks[2]))
    BY SMT, <2>1, <2>2, WrittenTo
  <2>5. \A p \in {1, 2} :
           out.pics[p] = [icw |-> 5, base |-> 32 + 8 * (p - 1), mode |-> 1,
                          cascade |-> IF p = 1 THEN 4 ELSE 2, mask |-> job.masks[p]]
    BY SMT, <2>4 DEF Both, At
  <2>. QED BY ZenonT(30), <2>3, <2>5
<1>3. IInv => TablesAsMeant
  BY SMTT(60), <1>1, <1>2 DEF TablesAsMeant
<1>. QED BY Inductive, <1>3, PTL

-----------------------------------------------------------------------------
(* Lines *)

\* n steps in the direction s.
Steps(n, s) == IF s = 0 THEN 0 ELSE IF s > 0 THEN n ELSE 0 - n
\* The pixel after k steps along the long coordinate and c along the short one.
Pixel(start, far, near, k, c) ==
    <<start[1] + Steps(k, far[1]) + Steps(c, near[1]),
      start[2] + Steps(k, far[2]) + Steps(c, near[2])>>
Points == Int \X Int
\* One coordinate is the long one, the other the short one.
Directions(far, near) ==
    /\ far \in (-1..1) \X (-1..1) /\ near \in (-1..1) \X (-1..1)
    /\ (far[2] = 0 /\ near[1] = 0) \/ (far[1] = 0 /\ near[2] = 0)

\* The picture after i rounds: what is in e is the error made so far, and no pixel
\* is further from the ideal line than half a step.
Walked(long, short, start, far, near, i) ==
    {x \in [e : Nat, pixels : Seq(Points)] :
        /\ Len(x.pixels) = i + 1 /\ x.pixels[1] = start
        /\ long > 0 => x.e < long
        /\ \E c \in Nat : /\ c * long + x.e = (long \div 2) + i * short
                          /\ x.pixels[i + 1] = Pixel(start, far, near, i, c)
        /\ \A k \in 0..i : \E c \in Nat :
              /\ 2 * abs(k * short - c * long) <= long
              /\ x.pixels[k + 1] = Pixel(start, far, near, k, c)
        /\ \A k \in 1..i : \A j \in 1..2 : x.pixels[k + 1][j] - x.pixels[k][j] \in -1..1}

\* One more step.
LEMMA StepsIs ==
    ASSUME NEW n \in Nat, NEW s \in -1..1
    PROVE  Steps(n, s) \in Int /\ Steps(n + 1, s) = Steps(n, s) + s /\ Steps(0, s) = 0
<1>1. CASE s = -1
  BY <1>1 DEF Steps
<1>2. CASE s = 0
  BY <1>2 DEF Steps
<1>3. CASE s = 1
  BY <1>3 DEF Steps
<1>. QED BY <1>1, <1>2, <1>3

\* A pixel has integer coordinates.
LEMMA PixelIs ==
    ASSUME NEW start \in Points, NEW far, NEW near, Directions(far, near),
           NEW k \in Nat, NEW c \in Nat
    PROVE  Pixel(start, far, near, k, c) \in Points
<1>1. /\ far[1] \in -1..1 /\ far[2] \in -1..1 /\ near[1] \in -1..1 /\ near[2] \in -1..1
      /\ start[1] \in Int /\ start[2] \in Int
  BY DEF Directions, Points
<1>2. \A s \in -1..1 : Steps(k, s) \in Int /\ Steps(c, s) \in Int
  BY StepsIs
<1>. QED BY <1>1, <1>2 DEF Pixel, Points

\* The next pixel is one step along the long coordinate, or also one along the other.
LEMMA NextPixelIs ==
    ASSUME NEW start \in Points, NEW far, NEW near, Directions(far, near),
           NEW k \in Nat, NEW j, j = k + 1, NEW c \in Nat, NEW d, NEW s \in 0..1, d = c + s,
           NEW a \in 1..2
    PROVE  Pixel(start, far, near, j, d)[a]
           = Pixel(start, far, near, k, c)[a] + far[a] + IF s = 1 THEN near[a] ELSE 0
<1>1. far[a] \in -1..1 /\ near[a] \in -1..1 /\ start[a] \in Int
  BY DEF Directions, Points
<1>2. /\ Steps(k, far[a]) \in Int /\ Steps(j, far[a]) = Steps(k, far[a]) + far[a]
      /\ Steps(c, near[a]) \in Int /\ Steps(c + 1, near[a]) = Steps(c, near[a]) + near[a]
  BY <1>1, StepsIs
<1>3. /\ Pixel(start, far, near, k, c)[a] = start[a] + Steps(k, far[a]) + Steps(c, near[a])
      /\ Pixel(start, far, near, j, d)[a] = start[a] + Steps(j, far[a]) + Steps(d, near[a])
  BY DEF Pixel
<1>4. CASE s = 0
  <2>1. d = c
    BY <1>4
  <2>. QED BY <1>1, <1>2, <1>3, <1>4, <2>1
<1>5. CASE s = 1
  <2>1. d = c + 1
    BY <1>5
  <2>. QED BY <1>1, <1>2, <1>3, <1>5, <2>1
<1>. QED BY <1>4, <1>5

\* No step leads away from the start.
LEMMA FirstPixelIs ==
    ASSUME NEW start \in Points, NEW far, NEW near, Directions(far, near)
    PROVE  Pixel(start, far, near, 0, 0) = start
<1>1. /\ far[1] \in -1..1 /\ far[2] \in -1..1 /\ near[1] \in -1..1 /\ near[2] \in -1..1
      /\ start[1] \in Int /\ start[2] \in Int /\ start = <<start[1], start[2]>>
  BY DEF Directions, Points
<1>2. \A s \in -1..1 : Steps(0, s) = 0
  BY StepsIs
<1>. QED BY <1>1, <1>2 DEF Pixel

\* The error stays within half a step of the long coordinate.
LEMMA ErrorIs ==
    ASSUME NEW long \in Nat \ {0}, NEW short \in 0..long, NEW k \in Nat, NEW c \in Nat,
           NEW e \in 0..(long - 1), c * long + e = (long \div 2) + k * short
    PROVE  2 * abs(k * short - c * long) <= long
<1>. DEFINE a == k * short
            b == c * long
            h == long \div 2
<1>1. a \in Int /\ b \in Int /\ h \in Int /\ 2 * h <= long /\ 2 * h >= long - 1
  OBVIOUS
<1>2. b + e = h + a
  OBVIOUS
<1>. HIDE DEF a, b, h
<1>3. 2 * abs(a - b) <= long
  BY <1>1, <1>2 DEF abs
<1>. QED BY <1>3 DEF a, b

\* One round makes one more pixel.
Round(x, i, long, short, far, near) ==
    LET c == Carry(x.e + short, long)
        at == x.pixels[i]
        Along(k) == at[k] + far[k] + IF c.over THEN near[k] ELSE 0
    IN [e |-> c.e, pixels |-> Append(x.pixels, <<Along(1), Along(2)>>)]

\* A round keeps what Walked says.
LEMMA RoundIs ==
    ASSUME NEW long \in Nat \ {0}, NEW short \in 0..long, NEW start \in Points,
           NEW far, NEW near, Directions(far, near), NEW i \in 1..long,
           NEW x \in Walked(long, short, start, far, near, i - 1)
    PROVE  Round(x, i, long, short, far, near) \in Walked(long, short, start, far, near, i)
<1>. DEFINE y == Round(x, i, long, short, far, near)
            over == x.e + short >= long
            P(k, c) == Pixel(start, far, near, k, c)
<1>1. /\ x.e \in Nat /\ x.e < long /\ x.pixels \in Seq(Points) /\ Len(x.pixels) = i
      /\ x.pixels[1] = start
      /\ \A k \in 0..(i - 1) : \E c \in Nat :
            /\ 2 * abs(k * short - c * long) <= long
            /\ x.pixels[k + 1] = P(k, c)
      /\ \A k \in 1..(i - 1) : \A j \in 1..2 : x.pixels[k + 1][j] - x.pixels[k][j] \in -1..1
  BY DEF Walked
<1>2. PICK c \in Nat : /\ c * long + x.e = (long \div 2) + (i - 1) * short
                       /\ x.pixels[i] = P(i - 1, c)
  <2>. DEFINE h == i - 1
  <2>1. h + 1 = i /\ x \in Walked(long, short, start, far, near, h)
    OBVIOUS
  <2>. HIDE DEF h, P
  <2>2. \E c \in Nat : /\ c * long + x.e = (long \div 2) + h * short
                       /\ x.pixels[h + 1] = Pixel(start, far, near, h, c)
    BY Zenon, <2>1 DEF Walked
  <2>3. \E c \in Nat : /\ c * long + x.e = (long \div 2) + h * short
                       /\ x.pixels[i] = P(h, c)
    BY Zenon, <2>1, <2>2 DEF P
  <2>. QED BY Zenon, <2>3 DEF h
<1>. DEFINE d == IF over THEN c + 1 ELSE c
            e == IF over THEN x.e + short - long ELSE x.e + short
<1>3. d \in Nat /\ e \in 0..(long - 1)
  BY <1>1
<1>4. d * long + e = (long \div 2) + i * short
  <2>. DEFINE a == (i - 1) * short
              b == c * long
              h == long \div 2
              dl == d * long
              is == i * short
  <2>1. b + x.e = h + a /\ a \in Int /\ b \in Int /\ h \in Int /\ is = a + short
    <3>1. (i - 1) * short + short = i * short
      OBVIOUS
    <3>. QED BY <1>2, <3>1
  <2>2. dl = IF over THEN b + long ELSE b
    <3>1. (c + 1) * long = c * long + long
      OBVIOUS
    <3>. QED BY <3>1
  <2>3. e = IF over THEN x.e + short - long ELSE x.e + short
    OBVIOUS
  <2>4. x.e \in Int /\ long \in Int /\ short \in Int
    BY <1>1
  <2>5. CASE over
    <3>1. dl = b + long /\ e = x.e + short - long
      BY <2>2, <2>3, <2>5
    <3>. HIDE DEF a, b, h, dl, is, e, over
    <3>2. dl + e = h + is
      BY <2>1, <2>4, <3>1
    <3>. QED BY <3>2 DEF h, dl, is, e
  <2>6. CASE ~over
    <3>1. dl = b /\ e = x.e + short
      BY <2>2, <2>3, <2>6
    <3>. HIDE DEF a, b, h, dl, is, e, over
    <3>2. dl + e = h + is
      BY <2>1, <2>4, <3>1
    <3>. QED BY <3>2 DEF h, dl, is, e
  <2>. QED BY <2>5, <2>6
<1>5. /\ far[1] \in -1..1 /\ far[2] \in -1..1 /\ near[1] \in -1..1 /\ near[2] \in -1..1
      /\ (far[2] = 0 /\ near[1] = 0) \/ (far[1] = 0 /\ near[2] = 0)
  BY DEF Directions
<1>6. /\ P(i - 1, c) \in Points
      /\ \A a \in 1..2 : P(i, d)[a] = P(i - 1, c)[a] + far[a] + IF over THEN near[a] ELSE 0
  <2>. DEFINE h == i - 1
              s == IF over THEN 1 ELSE 0
  <2>1. h \in Nat /\ i = h + 1 /\ d = c + s /\ s \in 0..1
    OBVIOUS
  <2>2. s = 1 <=> over
    OBVIOUS
  <2>. HIDE DEF over, h, d, s
  <2>3. P(h, c) \in Points
    BY <2>1, PixelIs
  <2>4. ASSUME NEW a \in 1..2
        PROVE  P(i, d)[a] = P(h, c)[a] + far[a] + IF s = 1 THEN near[a] ELSE 0
    BY Z3, <2>1, NextPixelIs
  <2>. HIDE DEF P
  <2>. QED BY <2>2, <2>3, <2>4 DEF h
<1>7. P(i, d) \in Points
  <2>. HIDE DEF d
  <2>. QED BY <1>3, PixelIs
<1>8. y = [e |-> e, pixels |-> Append(x.pixels, P(i, d))]
  <2>1. y.e = e
    BY <1>1 DEF Round, Carry
  <2>2. y.pixels = Append(x.pixels, P(i, d))
    <3>1. x.pixels[i] = P(i - 1, c) /\ P(i, d) = <<P(i, d)[1], P(i, d)[2]>>
      BY <1>2, <1>7 DEF Points
    <3>2. Carry(x.e + short, long).over = over
      BY DEF Carry
    <3>. HIDE DEF P, d, over
    <3>3. \A a \in 1..2 : x.pixels[i][a] + far[a]
                          + (IF Carry(x.e + short, long).over THEN near[a] ELSE 0) = P(i, d)[a]
      BY <1>6, <3>1, <3>2
    <3>. QED BY <3>1, <3>3 DEF Round
  <2>. QED BY <2>1, <2>2 DEF Round
<1>9. /\ y.e = e /\ y.pixels = Append(x.pixels, P(i, d)) /\ y.pixels \in Seq(Points)
      /\ Len(y.pixels) = i + 1 /\ y.pixels[i + 1] = P(i, d)
      /\ \A k \in 1..i : y.pixels[k] = x.pixels[k]
  <2>. HIDE DEF P, d, e, y
  <2>. QED BY <1>1, <1>7, <1>8
<1>10. 2 * abs(i * short - d * long) <= long
  <2>1. i \in Nat
    OBVIOUS
  <2>. HIDE DEF d, e
  <2>. QED BY <1>3, <1>4, <2>1, ErrorIs
<1>. HIDE DEF y, e, d, P
<1>11. y \in [e : Nat, pixels : Seq(Points)]
  BY <1>3, <1>8, <1>9
<1>12. y.pixels[1] = start /\ y.e < long
  BY <1>1, <1>3, <1>9
<1>13. ASSUME NEW k \in 0..i
       PROVE  \E n \in Nat : /\ 2 * abs(k * short - n * long) <= long
                             /\ y.pixels[k + 1] = P(k, n)
  <2>1. CASE k = i
    BY <1>3, <1>9, <1>10, <2>1
  <2>2. CASE k # i
    <3>1. k \in 0..(i - 1) /\ k + 1 \in 1..i
      BY <2>2
    <3>. QED BY <1>1, <1>9, <3>1
  <2>. QED BY <2>1, <2>2
<1>14. ASSUME NEW k \in 1..i, NEW j \in 1..2
       PROVE  y.pixels[k + 1][j] - y.pixels[k][j] \in -1..1
  <2>1. CASE k = i
    <3>1. y.pixels[k] = P(i - 1, c)
      BY <1>2, <1>9, <2>1
    <3>2. P(i - 1, c)[j] \in Int
      BY <1>6 DEF Points
    <3>. DEFINE n == IF over THEN near[j] ELSE 0
                u == P(i - 1, c)[j]
                v == P(i, d)[j]
    <3>3. v = u + far[j] + n
      BY <1>6
    <3>4. n \in Int /\ far[j] \in Int /\ far[j] + n \in -1..1
      <4>. HIDE DEF over
      <4>. QED BY <1>5
    <3>5. y.pixels[k + 1][j] = v /\ y.pixels[k][j] = u
      BY <1>9, <2>1, <3>1
    <3>. HIDE DEF n, u, v
    <3>. QED BY <3>2, <3>3, <3>4, <3>5 DEF u
  <2>2. CASE k # i
    <3>1. k \in 1..(i - 1) /\ k + 1 \in 1..i
      BY <2>2
    <3>. QED BY <1>1, <1>9, <3>1
  <2>. QED BY <2>1, <2>2
<1>15. \E n \in Nat : /\ n * long + y.e = (long \div 2) + i * short
                      /\ y.pixels[i + 1] = P(i, n)
  BY <1>3, <1>4, <1>9
<1>16. y \in Walked(long, short, start, far, near, i)
  BY <1>9, <1>11, <1>12, <1>13, <1>14, <1>15 DEF Walked, P
<1>. QED BY <1>16 DEF y

\* The whole line: it ends short steps aside, whatever was left in e.
Reached(l, long, short, start, far, near) ==
    /\ l \in Seq(Points) /\ Len(l) = long + 1 /\ l[1] = start
    /\ l[long + 1] = Pixel(start, far, near, long, short)
    /\ \A k \in 0..long : \E c \in Nat :
          /\ 2 * abs(k * short - c * long) <= long
          /\ l[k + 1] = Pixel(start, far, near, k, c)
    /\ \A k \in 1..long : \A j \in 1..2 : l[k + 1][j] - l[k][j] \in -1..1

\* So the walk reaches its end.
LEMMA WalkIs ==
    ASSUME NEW long \in Nat, NEW short \in 0..long, NEW start \in Points,
           NEW far, NEW near, Directions(far, near)
    PROVE  Reached(Walk(long, short, start, far, near), long, short, start, far, near)
<1>. DEFINE once == [i \in 1..long |-> [x \in [e : Nat, pixels : Seq(Int \X Int)] |->
                       Round(x, i, long, short, far, near)]]
            first == [e |-> long \div 2, pixels |-> <<start>>]
            inv == [i \in 0..long |-> Walked(long, short, start, far, near, i)]
            end == Loop(once, first, long)
<1>1. Walk(long, short, start, far, near) = end.pixels
  BY DEF Walk, Round
<1>2. first \in inv[0]
  <2>1. first \in Walked(long, short, start, far, near, 0)
    <3>1. /\ first \in [e : Nat, pixels : Seq(Points)] /\ Len(first.pixels) = 1
          /\ first.pixels[1] = start /\ first.e = long \div 2 /\ (long > 0 => first.e < long)
      OBVIOUS
    <3>2. /\ 0 * long + (long \div 2) = (long \div 2) + 0 * short
          /\ 2 * abs(0 * short - 0 * long) <= long
      BY DEF abs
    <3>3. Pixel(start, far, near, 0, 0) = start
      BY FirstPixelIs
    <3>4. \A k \in 0..0 : k = 0
      OBVIOUS
    <3>. HIDE DEF first
    <3>9. first.pixels[0 + 1] = start
      BY <3>1
    <3>5. ASSUME NEW k \in 0..0
          PROVE  \E c \in Nat : /\ 2 * abs(k * short - c * long) <= long
                                /\ first.pixels[k + 1] = Pixel(start, far, near, k, c)
      <4>. WITNESS 0 \in Nat
      <4>1. k = 0
        OBVIOUS
      <4>. QED BY <3>2, <3>3, <3>9, <4>1
    <3>6. \E c \in Nat : /\ c * long + first.e = (long \div 2) + 0 * short
                         /\ first.pixels[0 + 1] = Pixel(start, far, near, 0, c)
      <4>. WITNESS 0 \in Nat
      <4>1. 0 * long + first.e = (long \div 2) + 0 * short
        BY <3>1, <3>2
      <4>. QED BY <3>3, <3>9, <4>1
    <3>7. Len(first.pixels) = 0 + 1
      BY <3>1
    <3>8. \A k \in 1..0 : FALSE
      OBVIOUS
    <3>. QED BY <3>1, <3>5, <3>6, <3>7, <3>8 DEF Walked
  <2>. QED BY <2>1
<1>3. ASSUME NEW i \in 1..long, NEW x \in inv[i - 1] PROVE once[i][x] \in inv[i]
  <2>1. i - 1 \in 0..long /\ i \in 0..long /\ long \in Nat \ {0}
    OBVIOUS
  <2>2. x \in Walked(long, short, start, far, near, i - 1)
    BY <2>1
  <2>3. x \in [e : Nat, pixels : Seq(Int \X Int)]
    BY <2>2 DEF Walked, Points
  <2>4. once[i][x] = Round(x, i, long, short, far, near)
    BY <2>3
  <2>5. Round(x, i, long, short, far, near) \in Walked(long, short, start, far, near, i)
    BY <2>1, <2>2, RoundIs
  <2>. QED BY <2>1, <2>4, <2>5
<1>4. end \in Walked(long, short, start, far, near, long)
  <2>1. end \in inv[long]
    <3>. HIDE DEF once, first, inv
    <3>. QED BY <1>2, <1>3, LoopKeeps
  <2>. HIDE DEF end
  <2>. QED BY <2>1
<1>. HIDE DEF end
<1>5. PICK c \in Nat : /\ c * long + end.e = (long \div 2) + long * short
                       /\ end.pixels[long + 1] = Pixel(start, far, near, long, c)
  BY <1>4 DEF Walked
<1>6. end.pixels[long + 1] = Pixel(start, far, near, long, short)
  <2>1. CASE long = 0
    <3>1. end.pixels[long + 1] = Pixel(start, far, near, 0, 0)
      <4>1. end.pixels[1] = start
        BY <1>4 DEF Walked
      <4>. QED BY <2>1, <4>1, FirstPixelIs
    <3>. QED BY <2>1, <3>1
  <2>2. CASE long > 0
    <3>1. end.e \in 0..(long - 1)
      BY <1>4, <2>2 DEF Walked
    <3>. DEFINE q == c - short
    <3>2. long * q = (long \div 2) - end.e
      <4>1. long * q = c * long - long * short
        OBVIOUS
      <4>. DEFINE a == c * long
                  b == long * short
                  h == long \div 2
      <4>2. a \in Int /\ b \in Int /\ h \in Int /\ a + end.e = h + b
        BY <1>5
      <4>. HIDE DEF a, b, h
      <4>3. a - b = h - end.e
        BY <3>1, <4>2
      <4>. QED BY <4>1, <4>3 DEF a, b, h
    <3>3. long \div 2 < long /\ long \div 2 \in Nat
      BY <2>2
    <3>4. q \in Int /\ long * q < long /\ long * q > -long
      <4>1. q \in Int
        OBVIOUS
      <4>. HIDE DEF q
      <4>. QED BY <3>1, <3>2, <3>3, <4>1
    <3>5. q = 0
      <4>. HIDE DEF q
      <4>. QED BY <3>4, AtLeast
    <3>6. c = short
      BY <3>5
    <3>. QED BY <1>5, <3>6
  <2>. QED BY <2>1, <2>2
<1>. QED BY <1>1, <1>4, <1>6 DEF Walked, Reached

\* m steps towards u and n towards v are as far from the line through <<u, v>> as
\* the same numbers of steps in the first octant at most.
LEMMA CrossIs ==
    ASSUME NEW u \in Int, NEW v \in Int, NEW m \in Nat, NEW n \in Nat
    PROVE  abs(Steps(m, sgn(u)) * v - Steps(n, sgn(v)) * u) <= abs(m * abs(v) - n * abs(u))
<1>. DEFINE a == m * v
            b == n * u
<1>1. a \in Int /\ b \in Int
  OBVIOUS
<1>2. /\ (0 - m) * v = 0 - a /\ (0 - n) * u = 0 - b /\ m * (-v) = 0 - a /\ n * (-u) = 0 - b
      /\ (m * v = a) /\ (n * u = b) /\ 0 * v = 0 /\ 0 * u = 0
  OBVIOUS
<1>3. abs(u) = (IF u < 0 THEN -u ELSE u) /\ abs(v) = IF v < 0 THEN -v ELSE v
  BY DEF abs
<1>4. /\ Steps(m, sgn(u)) = IF u < 0 THEN 0 - m ELSE IF u > 0 THEN m ELSE 0
      /\ Steps(n, sgn(v)) = IF v < 0 THEN 0 - n ELSE IF v > 0 THEN n ELSE 0
  BY DEF Steps, sgn
<1>5. m * abs(v) = IF v < 0 THEN 0 - a ELSE a
  BY <1>2, <1>3
<1>6. n * abs(u) = IF u < 0 THEN 0 - b ELSE b
  BY <1>2, <1>3
<1>7. Steps(m, sgn(u)) * v = IF u < 0 THEN 0 - a ELSE IF u > 0 THEN a ELSE 0
  BY <1>2, <1>4
<1>8. Steps(n, sgn(v)) * u = IF v < 0 THEN 0 - b ELSE IF v > 0 THEN b ELSE 0
  BY <1>2, <1>4
<1>9. (u = 0 => b = 0) /\ (v = 0 => a = 0)
  BY <1>2
<1>. DEFINE mv == m * abs(v)
            nu == n * abs(u)
            sv == Steps(m, sgn(u)) * v
            su == Steps(n, sgn(v)) * u
<1>10. /\ mv = IF v < 0 THEN 0 - a ELSE a
       /\ nu = IF u < 0 THEN 0 - b ELSE b
       /\ sv = IF u < 0 THEN 0 - a ELSE IF u > 0 THEN a ELSE 0
       /\ su = IF v < 0 THEN 0 - b ELSE IF v > 0 THEN b ELSE 0
  BY <1>5, <1>6, <1>7, <1>8
<1>. HIDE DEF a, b, mv, nu, sv, su
<1>11. abs(sv - su) <= abs(mv - nu)
  BY <1>1, <1>9, <1>10 DEF abs
<1>. QED BY <1>11 DEF mv, nu, sv, su

\* The distance in the direction of the difference is the difference.
LEMMA WayIs ==
    ASSUME NEW u \in Int
    PROVE  /\ abs(u) \in Nat /\ sgn(u) \in -1..1 /\ Steps(abs(u), sgn(u)) = u
           /\ \A n \in Nat : Steps(n, 0) = 0
BY DEF abs, sgn, Steps

\* What the property says of a line from p to q.
Longer(p, q) == LET dx == q[1] - p[1]
                    dy == q[2] - p[2]
                IN IF abs(dx) >= abs(dy) THEN abs(dx) ELSE abs(dy)
Straight(l, p, q) ==
    /\ l \in Seq(Points) /\ Longer(p, q) \in Nat
    /\ Len(l) = Longer(p, q) + 1 /\ l[1] = p /\ l[Longer(p, q) + 1] = q
    /\ \A i \in 1..Longer(p, q) : \A c \in 1..2 : l[i + 1][c] - l[i][c] \in -1..1
    /\ \A i \in 1..(Longer(p, q) + 1) :
          2 * abs((l[i][1] - p[1]) * (q[2] - p[2]) - (l[i][2] - p[2]) * (q[1] - p[1]))
          <= Longer(p, q)

\* Where the error is small, so is the distance from the line.
Follows(l, p, q, n, s, far, near) ==
    \A k, c \in Nat :
       /\ l[k + 1] = Pixel(p, far, near, k, c)
       /\ 2 * abs(k * s - c * n) <= n
       => 2 * abs((l[k + 1][1] - p[1]) * (q[2] - p[2])
                  - (l[k + 1][2] - p[2]) * (q[1] - p[1])) <= n

\* What holds of each of its pixels holds of the line.
LEMMA StraightIs ==
    ASSUME NEW p \in Points, NEW q \in Points, NEW n \in Nat, n = Longer(p, q),
           NEW s, NEW far, NEW near, NEW l, Reached(l, n, s, p, far, near),
           Pixel(p, far, near, n, s) = q, Follows(l, p, q, n, s, far, near)
    PROVE  Straight(l, p, q)
<1>1. ASSUME NEW i \in 1..(n + 1)
      PROVE  2 * abs((l[i][1] - p[1]) * (q[2] - p[2]) - (l[i][2] - p[2]) * (q[1] - p[1])) <= n
  <2>. DEFINE k == i - 1
  <2>1. k \in Nat /\ k \in 0..n /\ k + 1 = i
    OBVIOUS
  <2>. HIDE DEF k
  <2>2. PICK c \in Nat : 2 * abs(k * s - c * n) <= n /\ l[k + 1] = Pixel(p, far, near, k, c)
    BY <2>1 DEF Reached
  <2>3. 2 * abs((l[k + 1][1] - p[1]) * (q[2] - p[2])
                - (l[k + 1][2] - p[2]) * (q[1] - p[1])) <= n
    BY Zenon, <2>1, <2>2 DEF Follows
  <2>. QED BY <2>1, <2>3
<1>2. /\ l \in Seq(Points) /\ Len(l) = n + 1 /\ l[1] = p /\ l[n + 1] = q
      /\ \A i \in 1..n : \A c \in 1..2 : l[i + 1][c] - l[i][c] \in -1..1
  BY DEF Reached
<1>. QED BY Zenon, <1>1, <1>2 DEF Straight

\* line_fast draws a straight line from p to q.
LEMMA LineIs ==
    ASSUME NEW p \in Points, NEW q \in Points
    PROVE  Straight(line_fast(p, q), p, q)
<1>. DEFINE dx == q[1] - p[1]
            dy == q[2] - p[2]
            hor == <<sgn(dx), 0>>
            ver == <<0, sgn(dy)>>
            l == line_fast(p, q)
            n == Longer(p, q)
<1>1. /\ p[1] \in Int /\ p[2] \in Int /\ q[1] \in Int /\ q[2] \in Int
      /\ p = <<p[1], p[2]>> /\ q = <<q[1], q[2]>>
  BY DEF Points
<1>2. dx \in Int /\ dy \in Int /\ p[1] + dx = q[1] /\ p[2] + dy = q[2]
  BY <1>1
<1>3. /\ abs(dx) \in Nat /\ abs(dy) \in Nat /\ sgn(dx) \in -1..1 /\ sgn(dy) \in -1..1
      /\ Steps(abs(dx), sgn(dx)) = dx /\ Steps(abs(dy), sgn(dy)) = dy
      /\ \A m \in Nat : Steps(m, 0) = 0
  BY <1>2, WayIs
<1>4. Directions(hor, ver) /\ Directions(ver, hor)
  BY <1>3 DEF Directions
<1>5. CASE abs(dx) >= abs(dy)
  <2>1. n = abs(dx) /\ l = Walk(abs(dx), abs(dy), p, hor, ver)
    BY <1>5 DEF Longer, line_fast
  <2>2. Reached(l, n, abs(dy), p, hor, ver)
    <3>1. abs(dy) \in 0..abs(dx)
      BY <1>3, <1>5
    <3>. HIDE DEF dx, dy, hor, ver, l, n
    <3>. QED BY <1>3, <1>4, <2>1, <3>1, WalkIs
  <2>3. Pixel(p, hor, ver, n, abs(dy)) = q
    BY <1>1, <1>2, <1>3, <2>1 DEF Pixel
  <2>4. ASSUME NEW k \in Nat, NEW c \in Nat, l[k + 1] = Pixel(p, hor, ver, k, c),
               2 * abs(k * abs(dy) - c * n) <= n
        PROVE  2 * abs((l[k + 1][1] - p[1]) * dy - (l[k + 1][2] - p[2]) * dx) <= n
    <3>1. /\ Steps(k, sgn(dx)) \in Int /\ Steps(c, sgn(dy)) \in Int
      BY <1>3, StepsIs
    <3>2. /\ l[k + 1][1] = p[1] + Steps(k, sgn(dx)) + 0
          /\ l[k + 1][2] = p[2] + 0 + Steps(c, sgn(dy))
      BY <1>3, <2>4 DEF Pixel
    <3>3. l[k + 1][1] - p[1] = Steps(k, sgn(dx)) /\ l[k + 1][2] - p[2] = Steps(c, sgn(dy))
      BY <1>1, <3>1, <3>2
    <3>. HIDE DEF dx, dy
    <3>4. abs(Steps(k, sgn(dx)) * dy - Steps(c, sgn(dy)) * dx)
          <= abs(k * abs(dy) - c * abs(dx))
      BY <1>2, CrossIs
    <3>. DEFINE x == Steps(k, sgn(dx)) * dy - Steps(c, sgn(dy)) * dx
                y == k * abs(dy) - c * abs(dx)
    <3>5. x \in Int /\ y \in Int /\ n \in Int
      BY <1>2, <1>3, <2>1, <3>1
    <3>6. abs(x) <= abs(y) /\ 2 * abs(y) <= n
      BY <2>1, <2>4, <3>4
    <3>. HIDE DEF x, y, n, l
    <3>7. 2 * abs(x) <= n
      BY <3>5, <3>6 DEF abs
    <3>. QED BY <3>3, <3>7 DEF x
  <2>5. abs(dy) \in Nat /\ n \in Nat
    BY <1>3, <2>1
  <2>. DEFINE s == abs(dy)
  <2>6. Follows(l, p, q, n, s, hor, ver)
    <3>. HIDE DEF hor, ver, l, n
    <3>. QED BY Zenon, <2>4 DEF s, Follows
  <2>7. Reached(l, n, s, p, hor, ver) /\ Pixel(p, hor, ver, n, s) = q /\ n = Longer(p, q)
    BY <2>2, <2>3
  <2>. HIDE DEF hor, ver, l, n, s
  <2>8. Straight(l, p, q)
    BY Zenon, <2>5, <2>6, <2>7, StraightIs
  <2>. QED BY <2>8 DEF l
<1>6. CASE ~(abs(dx) >= abs(dy))
  <2>1. n = abs(dy) /\ l = Walk(abs(dy), abs(dx), p, ver, hor)
    BY <1>6 DEF Longer, line_fast
  <2>2. Reached(l, n, abs(dx), p, ver, hor)
    <3>1. abs(dx) \in 0..abs(dy)
      BY <1>3, <1>6
    <3>. HIDE DEF dx, dy, hor, ver, l, n
    <3>. QED BY <1>3, <1>4, <2>1, <3>1, WalkIs
  <2>3. Pixel(p, ver, hor, n, abs(dx)) = q
    BY <1>1, <1>2, <1>3, <2>1 DEF Pixel
  <2>4. ASSUME NEW k \in Nat, NEW c \in Nat, l[k + 1] = Pixel(p, ver, hor, k, c),
               2 * abs(k * abs(dx) - c * n) <= n
        PROVE  2 * abs((l[k + 1][1] - p[1]) * dy - (l[k + 1][2] - p[2]) * dx) <= n
    <3>1. /\ Steps(c, sgn(dx)) \in Int /\ Steps(k, sgn(dy)) \in Int
      BY <1>3, StepsIs
    <3>2. /\ l[k + 1][1] = p[1] + 0 + Steps(c, sgn(dx))
          /\ l[k + 1][2] = p[2] + Steps(k, sgn(dy)) + 0
      BY <1>3, <2>4 DEF Pixel
    <3>3. l[k + 1][1] - p[1] = Steps(c, sgn(dx)) /\ l[k + 1][2] - p[2] = Steps(k, sgn(dy))
      BY <1>1, <3>1, <3>2
    <3>. HIDE DEF dx, dy
    <3>4. abs(Steps(c, sgn(dx)) * dy - Steps(k, sgn(dy)) * dx)
          <= abs(c * abs(dy) - k * abs(dx))
      BY <1>2, CrossIs
    <3>. DEFINE x == Steps(c, sgn(dx)) * dy - Steps(k, sgn(dy)) * dx
                y == c * abs(dy) - k * abs(dx)
                z == k * abs(dx) - c * n
    <3>5. x \in Int /\ y \in Int /\ n \in Int
      BY <1>2, <1>3, <2>1, <3>1
    <3>8. z \in Int /\ y = -z
      BY <1>3, <2>1
    <3>6. abs(x) <= abs(y) /\ 2 * abs(z) <= n
      BY <2>1, <2>4, <3>4
    <3>. HIDE DEF x, y, z, n, l
    <3>7. 2 * abs(x) <= n
      BY <3>5, <3>6, <3>8 DEF abs
    <3>. QED BY <3>3, <3>7 DEF x
  <2>5. abs(dx) \in Nat /\ n \in Nat
    BY <1>3, <2>1
  <2>. DEFINE s == abs(dx)
  <2>6. Follows(l, p, q, n, s, ver, hor)
    <3>. HIDE DEF hor, ver, l, n
    <3>. QED BY Zenon, <2>4 DEF s, Follows
  <2>7. Reached(l, n, s, p, ver, hor) /\ Pixel(p, ver, hor, n, s) = q /\ n = Longer(p, q)
    BY <2>2, <2>3
  <2>. HIDE DEF hor, ver, l, n, s
  <2>8. Straight(l, p, q)
    BY Zenon, <2>5, <2>6, <2>7, StraightIs
  <2>. QED BY <2>8 DEF l
<1>. QED BY <1>5, <1>6

\* The property of one line, as LinesReach has it.
Drawn(l) ==
    LET dx == Last(l)[1] - Head(l)[1]
        dy == Last(l)[2] - Head(l)[2]
        long == IF abs(dx) >= abs(dy) THEN abs(dx) ELSE abs(dy)
    IN /\ Len(l) = long + 1
       /\ \A i \in 1..long, c \in 1..2 : l[i + 1][c] - l[i][c] \in -1..1
       /\ \A i \in DOMAIN l :
             2 * abs((l[i][1] - Head(l)[1]) * dy
                     - (l[i][2] - Head(l)[2]) * dx) <= long

\* In the words of LinesReach.
LEMMA DrawnIs ==
    ASSUME NEW p \in Points, NEW q \in Points, NEW l, l = line_fast(p, q)
    PROVE  Head(l) = p /\ Last(l) = q /\ Drawn(l)
<1>1. Straight(l, p, q)
  BY LineIs
<1>. DEFINE n == Longer(p, q)
<1>2. /\ l \in Seq(Points) /\ n \in Nat /\ Len(l) = n + 1 /\ l[1] = p /\ l[n + 1] = q
      /\ \A i \in 1..n : \A c \in 1..2 : l[i + 1][c] - l[i][c] \in -1..1
      /\ \A i \in 1..(n + 1) :
            2 * abs((l[i][1] - p[1]) * (q[2] - p[2]) - (l[i][2] - p[2]) * (q[1] - p[1])) <= n
  BY Zenon, <1>1 DEF Straight
<1>3. n = IF abs(q[1] - p[1]) >= abs(q[2] - p[2]) THEN abs(q[1] - p[1])
          ELSE abs(q[2] - p[2])
  BY DEF Longer
<1>. HIDE DEF n
<1>4. Last(l) = q /\ Head(l) = p /\ DOMAIN l = 1..(n + 1)
  <2>1. l # <<>>
    BY <1>2
  <2>2. Head(l) = l[1]
    BY <1>2, <2>1
  <2>3. Last(l) = l[Len(l)]
    BY DEF Last
  <2>. QED BY <1>2, <2>2, <2>3
<1>5. Drawn(l)
  BY Zenon, <1>2, <1>3, <1>4 DEF Drawn
<1>. QED BY <1>4, <1>5

\* The lines of a triangle, one after the other.
LEMMA ThreeIs ==
    ASSUME NEW a, NEW b, NEW c
    PROVE  <<a, b>> \o <<c>> = <<a, b, c>>
<1>. DEFINE S == {a, b, c}
            s == <<a, b>>
            t == <<c>>
            u == <<a, b, c>>
<1>1. s \in Seq(S) /\ t \in Seq(S) /\ u \in Seq(S) /\ Len(s) = 2 /\ Len(t) = 1 /\ Len(u) = 3
  OBVIOUS
<1>2. s[1] = a /\ s[2] = b /\ t[1] = c /\ u[1] = a /\ u[2] = b /\ u[3] = c
  OBVIOUS
<1>. HIDE DEF S, s, t, u
<1>3. /\ s \o t \in Seq(S) /\ Len(s \o t) = 3
      /\ \A i \in 1..3 : (s \o t)[i] = IF i <= 2 THEN s[i] ELSE t[i - 2]
  <2>1. /\ s \o t \in Seq(S) /\ Len(s \o t) = Len(s) + Len(t)
        /\ \A i \in 1..(Len(s) + Len(t)) :
              (s \o t)[i] = IF i <= Len(s) THEN s[i] ELSE t[i - Len(s)]
    BY Zenon, <1>1, ConcatProperties
  <2>2. Len(s) + Len(t) = 3
    BY <1>1
  <2>. QED BY Zenon, <1>1, <2>1, <2>2
<1>4. \A i \in 1..3 : (s \o t)[i] = u[i]
  BY <1>2, <1>3
<1>5. s \o t = u
  BY <1>1, <1>3, <1>4, SeqEqual
<1>. QED BY <1>5 DEF s, t, u

\* A line begins and ends at its points, makes one pixel per step of the longer
\* distance, neighbours all of them, and none is further from the ideal line than
\* half a pixel; a polygon's lines close: LinesReach (vga.c:274-326).
THEOREM LinesAreStraight == Spec => []LinesReach
<1>1. IInv => LinesReach
  <2>. SUFFICES ASSUME IInv, After("polygon") PROVE LinesReach
    BY DEF LinesReach
  <2>1. out = polygon(job.p) /\ job.p \in [1..3 -> Grid \X Grid]
    BY DEF IInv, Answered, Asked, After
  <2>. DEFINE v == job.p
              l1 == line_fast(v[1], v[2])
              l2 == line_fast(v[2], v[3])
              l3 == line_fast(v[1], v[3])
  <2>2. Len(v) = 3 /\ v[1] \in Points /\ v[2] \in Points /\ v[3] \in Points
    <3>1. Grid \subseteq Int
      BY SMT, RoutinesAssumption
    <3>2. v \in [1..3 -> Grid \X Grid]
      BY <2>1
    <3>. HIDE DEF v
    <3>3. \A i \in 1..3 : v[i] \in Grid \X Grid
      BY <3>2
    <3>4. \A x \in Grid \X Grid : x \in Points
      BY <3>1 DEF Points
    <3>5. v \in [1..3 -> Points] /\ 1 \in 1..3 /\ 2 \in 1..3 /\ 3 \in 1..3
      BY <3>2, <3>3, <3>4
    <3>6. v = <<v[1], v[2], v[3]>>
      <4>1. v = [i \in 1..3 |-> v[i]]
        BY <3>5
      <4>. QED BY <4>1
    <3>7. Len(v) = 3
      BY <3>6
    <3>8. v[1] \in Points /\ v[2] \in Points /\ v[3] \in Points
      BY <3>5
    <3>. QED BY <3>7, <3>8
  <2>3. out = <<l1, l2, l3>>
    <3>. DEFINE two == [i \in 1..(Len(v) - 1) |-> line_fast(v[i], v[i + 1])]
                one == <<line_fast(v[1], v[Len(v)])>>
    <3>1. out = two \o one
      BY <2>1 DEF polygon
    <3>2. two = <<l1, l2>> /\ one = <<l3>>
      <4>. HIDE DEF v
      <4>1. two = [i \in 1..2 |-> line_fast(v[i], v[i + 1])]
        BY <2>2
      <4>2. \A i \in 1..2 : i = 1 \/ i = 2
        OBVIOUS
      <4>3. two[1] = l1 /\ two[2] = l2
        BY <4>1
      <4>4. two = <<two[1], two[2]>>
        <5>. HIDE DEF two, l1, l2
        <5>1. two = [i \in 1..2 |-> two[i]]
          BY <4>1
        <5>. QED BY <5>1
      <4>. QED BY <2>2, <4>3, <4>4
    <3>. HIDE DEF two, one, l1, l2, l3
    <3>3. <<l1, l2>> \o <<l3>> = <<l1, l2, l3>>
      BY ThreeIs
    <3>. QED BY <3>1, <3>2, <3>3
  <2>4. /\ Head(l1) = v[1] /\ Last(l1) = v[2] /\ Drawn(l1)
        /\ Head(l2) = v[2] /\ Last(l2) = v[3] /\ Drawn(l2)
        /\ Head(l3) = v[1] /\ Last(l3) = v[3] /\ Drawn(l3)
    BY <2>2, DrawnIs
  <2>. HIDE DEF l1, l2, l3
  <2>5. DOMAIN out = 1..3 /\ out[1] = l1 /\ out[2] = l2 /\ out[3] = l3
    BY <2>3
  <2>6. \A k \in DOMAIN out : Drawn(out[k])
    <3>1. \A k \in 1..3 : k = 1 \/ k = 2 \/ k = 3
      OBVIOUS
    <3>. QED BY Zenon, <2>4, <2>5, <3>1
  <2>7. {{Head(l), Last(l)} : l \in {out[i] : i \in DOMAIN out}}
        = {{v[1], v[2]}, {v[2], v[3]}, {v[1], v[3]}}
    <3>1. {out[i] : i \in DOMAIN out} = {l1, l2, l3}
      <4>1. 1..3 = {1, 2, 3}
        OBVIOUS
      <4>. QED BY <2>5, <4>1
    <3>2. {{Head(l), Last(l)} : l \in {l1, l2, l3}}
          = {{Head(l1), Last(l1)}, {Head(l2), Last(l2)}, {Head(l3), Last(l3)}}
      OBVIOUS
    <3>. QED BY <2>4, <3>1, <3>2
  <2>. QED BY Zenon, <2>6, <2>7 DEF LinesReach, Drawn
<1>. QED BY Inductive, <1>1, PTL

-----------------------------------------------------------------------------
(* Numbers *)

\* What a loop does is what its body does in the rounds it has.
LEMMA SameLoop ==
    ASSUME NEW n \in Nat, NEW f, NEW g, \A i \in 1..n : f[i] = g[i], NEW x
    PROVE  Loop(f, x, n) = Loop(g, x, n)
<1>. DEFINE T == {k \in Nat : k <= n => Loop(f, x, k) = Loop(g, x, k)}
<1>1. 0 \in T
  BY LoopIs
<1>2. ASSUME NEW k \in Nat, k \in T PROVE k + 1 \in T
  <2>. SUFFICES ASSUME k + 1 <= n PROVE Loop(f, x, k + 1) = Loop(g, x, k + 1)
    OBVIOUS
  <2>1. Loop(f, x, k) = Loop(g, x, k) /\ f[k + 1] = g[k + 1]
    BY <1>2
  <2>2. Loop(f, x, k + 1) = f[k + 1][Loop(f, x, k)]
    BY OneMore
  <2>3. Loop(g, x, k + 1) = g[k + 1][Loop(g, x, k)]
    BY OneMore
  <2>. QED BY Zenon, <2>1, <2>2, <2>3
<1>. HIDE DEF T
<1>3. n \in T
  BY <1>1, <1>2, Induction
<1>. QED BY <1>3 DEF T

\* Powers are what they mean.
LEMMA PowerIs ==
    ASSUME NEW b \in Nat \ {0}
    PROVE  /\ Power(b, 0) = 1
           /\ \A n \in Nat : /\ Power(b, n) \in Nat \ {0}
                             /\ Power(b, n + 1) = b * Power(b, n)
<1>. DEFINE once(n) == [i \in 1..n |-> [x \in Nat |-> b * x]]
<1>1. \A n : Power(b, n) = Loop(once(n), 1, n)
  BY DEF Power
<1>2. \A n, k \in Nat : k <= n => Loop(once(n), 1, k) = Power(b, k)
  <2>. SUFFICES ASSUME NEW n \in Nat, NEW k \in Nat, k <= n
                PROVE  Loop(once(n), 1, k) = Power(b, k)
    OBVIOUS
  <2>. DEFINE f == once(n)
              g == once(k)
  <2>1. \A i \in 1..k : f[i] = g[i]
    OBVIOUS
  <2>. HIDE DEF f, g
  <2>2. Loop(f, 1, k) = Loop(g, 1, k)
    BY <2>1, SameLoop
  <2>. QED BY <1>1, <2>2 DEF f, g
<1>3. Power(b, 0) = 1
  BY ZenonT(60), <1>1, LoopIs
<1>4. ASSUME NEW n \in Nat, Power(b, n) \in Nat
      PROVE  Power(b, n + 1) = b * Power(b, n)
  <2>. DEFINE m == n + 1
              f == once(m)
  <2>1. Loop(f, 1, n) = Power(b, n)
    <3>. HIDE DEF once
    <3>. QED BY <1>2
  <2>2. f[n + 1] = [x \in Nat |-> b * x]
    OBVIOUS
  <2>. HIDE DEF f
  <2>3. Loop(f, 1, n + 1) = f[n + 1][Power(b, n)]
    BY <2>1, OneMore
  <2>4. Power(b, m) = Loop(f, 1, m)
    BY <1>1 DEF f
  <2>. QED BY <1>4, <2>2, <2>3, <2>4
<1>. DEFINE T == {n \in Nat : Power(b, n) \in Nat \ {0}}
<1>5. 0 \in T
  BY <1>3
<1>6. ASSUME NEW n \in Nat, n \in T PROVE n + 1 \in T
  <2>1. Power(b, n) \in Nat \ {0}
    BY <1>6
  <2>2. Power(b, n + 1) = b * Power(b, n)
    BY <1>4, <2>1
  <2>. DEFINE p == Power(b, n)
  <2>. HIDE DEF p
  <2>3. \A z \in Nat \ {0} : b * z \in Nat \ {0}
    OBVIOUS
  <2>. QED BY <2>1, <2>2, <2>3
<1>7. Nat \subseteq T
  <2>. HIDE DEF T
  <2>. QED BY <1>5, <1>6, Induction
<1>. QED BY <1>3, <1>4, <1>7

\* The powers of the radices, with the literals in place.
LEMMA Power2Is ==
    /\ Power(2, 0) = 1
    /\ \A n \in Nat : Power(2, n) \in Nat \ {0} /\ Power(2, n + 1) = 2 * Power(2, n)
<1>1. 2 \in Nat \ {0}
  OBVIOUS
<1>. QED BY Zenon, <1>1, PowerIs

\* The same for 10.
LEMMA Power10Is ==
    /\ Power(10, 0) = 1
    /\ \A n \in Nat : Power(10, n) \in Nat \ {0} /\ Power(10, n + 1) = 10 * Power(10, n)
<1>1. 10 \in Nat \ {0}
  OBVIOUS
<1>. QED BY Zenon, <1>1, PowerIs

\* The same for 16.
LEMMA Power16Is ==
    /\ Power(16, 0) = 1
    /\ \A n \in Nat : Power(16, n) \in Nat \ {0} /\ Power(16, n + 1) = 16 * Power(16, n)
<1>1. 16 \in Nat \ {0}
  OBVIOUS
<1>. QED BY Zenon, <1>1, PowerIs

\* The sizes of a u32.
LEMMA WidthIs == Bits \in Nat /\ Bits > 0 /\ U32 = Power(2, Bits) /\ U32 \in Nat \ {0}
<1>1. Bits \in Nat /\ Bits > 0 /\ U32 = Power(2, Bits)
  BY Zenon, FormatAssumption
<1>. QED BY <1>1, Power2Is

\* The digits are all different.
Chars == {Digit(d) : d \in 0..15}
Weight(c) == CHOOSE d \in 0..15 : Digit(d) = c

\* No character stands for two digits.
LEMMA DigitsDiffer ==
    ASSUME NEW d \in 0..15, NEW e \in 0..15, Digit(d) = Digit(e)
    PROVE  d = e
BY DEF Digit, digits

\* A digit has its weight, is a character, and is not the sign.
LEMMA WeightIs ==
    ASSUME NEW d \in 0..15
    PROVE  Weight(Digit(d)) = d /\ Digit(d) \in Chars /\ Digit(d) \in Char /\ Digit(d) # "-"
<1>1. Weight(Digit(d)) \in 0..15 /\ Digit(Weight(Digit(d))) = Digit(d)
  BY DEF Weight
<1>2. Digit(d) \in Char /\ Digit(d) # "-"
  <2>1. \A i \in 1..16 : digits[i] # "-"
    BY DEF digits
  <2>2. d + 1 \in 1..16
    OBVIOUS
  <2>. QED BY <2>1, <2>2, FormatAssumption DEF Digit
<1>. QED BY <1>1, <1>2, DigitsDiffer DEF Chars

\* The value of the first k digits of a text.
Reading(text, radix) == [i \in 1..Len(text) |-> [v \in Nat |-> v * radix + Weight(text[i])]]
Value(text, radix, k) == Loop(Reading(text, radix), 0, k)

\* ValueOf reads all the characters.
LEMMA ValueOfIs ==
    ASSUME NEW text, NEW r
    PROVE  ValueOf(text, r) = Value(text, r, Len(text))
BY DEF ValueOf, Value, Reading, Weight

\* Digit by digit.
LEMMA ValueIs ==
    ASSUME NEW r \in Nat \ {0}, NEW text, Len(text) \in Nat,
           \A i \in 1..Len(text) : text[i] \in Chars
    PROVE  /\ Value(text, r, 0) = 0
           /\ \A k \in 0..Len(text) : Value(text, r, k) \in Nat
           /\ \A k \in 0..(Len(text) - 1) :
                 Value(text, r, k + 1) = Value(text, r, k) * r + Weight(text[k + 1])
<1>1. Value(text, r, 0) = 0
  BY LoopIs DEF Value
<1>2. ASSUME NEW k \in 0..(Len(text) - 1), Value(text, r, k) \in Nat
      PROVE  /\ Value(text, r, k + 1) = Value(text, r, k) * r + Weight(text[k + 1])
             /\ Value(text, r, k + 1) \in Nat
  <2>1. Value(text, r, k + 1) = Reading(text, r)[k + 1][Value(text, r, k)]
    BY OneMore DEF Value
  <2>2. k + 1 \in 1..Len(text)
    OBVIOUS
  <2>3. Reading(text, r)[k + 1][Value(text, r, k)]
        = Value(text, r, k) * r + Weight(text[k + 1])
    BY <1>2, <2>2 DEF Reading
  <2>4. Weight(text[k + 1]) \in Nat
    <3>1. PICK d \in 0..15 : text[k + 1] = Digit(d)
      BY <2>2 DEF Chars
    <3>. QED BY SMTT(30), <3>1, WeightIs
  <2>. DEFINE v == Value(text, r, k)
              w == Weight(text[k + 1])
  <2>5. v \in Nat /\ w \in Nat
    BY <1>2, <2>4
  <2>. HIDE DEF v, w
  <2>6. v * r + w \in Nat
    BY <2>5
  <2>. QED BY <2>1, <2>3, <2>6 DEF v, w
<1>. DEFINE T == {k \in Nat : k <= Len(text) => Value(text, r, k) \in Nat}
<1>3. Nat \subseteq T
  <2>1. 0 \in T
    BY <1>1
  <2>2. ASSUME NEW k \in Nat, k \in T PROVE k + 1 \in T
    BY <1>2, <2>2
  <2>. HIDE DEF T
  <2>. QED BY <2>1, <2>2, Induction
<1>4. \A k \in 0..Len(text) : Value(text, r, k) \in Nat
  BY <1>3
<1>5. \A k \in 0..(Len(text) - 1) :
         Value(text, r, k + 1) = Value(text, r, k) * r + Weight(text[k + 1])
  BY <1>2, <1>4
<1>. QED BY <1>1, <1>4, <1>5

\* What a text of digits reads as is a number; nothing reads as 0.
LEMMA NumeralIs ==
    ASSUME NEW r \in Nat \ {0}, NEW text \in Seq(Chars)
    PROVE  ValueOf(text, r) \in Nat /\ ValueOf(<<>>, r) = 0
<1>1. /\ Len(text) \in Nat /\ Len(text) \in 0..Len(text)
      /\ \A k \in 1..Len(text) : text[k] \in Chars
  OBVIOUS
<1>2. Value(text, r, Len(text)) \in Nat
  BY Zenon, <1>1, ValueIs
<1>3. Len(<<>>) = 0
  OBVIOUS
<1>4. Value(<<>>, r, Len(<<>>)) = 0
  BY <1>3, LoopIs DEF Value
<1>. QED BY <1>2, <1>4, ValueOfIs

\* A digit in front is worth its power.
LEMMA FrontIs ==
    ASSUME NEW r \in Nat \ {0}, NEW d \in 0..15, NEW rest \in Seq(Chars)
    PROVE  LET text == <<Digit(d)>> \o rest
           IN /\ text \in Seq(Chars) /\ Len(text) = Len(rest) + 1 /\ text[1] = Digit(d)
              /\ ValueOf(text, r) = d * Power(r, Len(rest)) + ValueOf(rest, r)
<1>. DEFINE text == <<Digit(d)>> \o rest
            one == <<Digit(d)>>
<1>1. /\ text \in Seq(Chars) /\ Len(text) = Len(rest) + 1 /\ text[1] = Digit(d)
      /\ \A i \in 1..Len(rest) : text[i + 1] = rest[i]
  <2>1. one \in Seq(Chars) /\ Len(one) = 1 /\ one[1] = Digit(d)
    BY WeightIs
  <2>. HIDE DEF one
  <2>2. /\ one \o rest \in Seq(Chars) /\ Len(one \o rest) = Len(one) + Len(rest)
        /\ \A i \in 1..(Len(one) + Len(rest)) :
              (one \o rest)[i] = IF i <= Len(one) THEN one[i] ELSE rest[i - Len(one)]
    BY <2>1, ConcatProperties
  <2>3. text = one \o rest
    BY DEF one
  <2>. HIDE DEF text
  <2>4. Len(rest) \in Nat
    OBVIOUS
  <2>5. /\ 1 \in 1..(1 + Len(rest))
        /\ \A i \in 1..Len(rest) : i + 1 \in 1..(1 + Len(rest)) /\ ~(i + 1 <= 1) /\ (i + 1) - 1 = i
    BY <2>4
  <2>. QED BY <2>1, <2>2, <2>3, <2>4, <2>5
<1>. HIDE DEF text
<1>2. /\ Len(text) \in Nat /\ \A i \in 1..Len(text) : text[i] \in Chars
      /\ Len(rest) \in Nat /\ \A i \in 1..Len(rest) : rest[i] \in Chars
  BY <1>1
<1>7. /\ Value(text, r, 0) = 0
      /\ \A k \in 0..Len(text) : Value(text, r, k) \in Nat
      /\ \A k \in 0..(Len(text) - 1) :
            Value(text, r, k + 1) = Value(text, r, k) * r + Weight(text[k + 1])
  BY Zenon, <1>2, ValueIs
<1>8. /\ Value(rest, r, 0) = 0
      /\ \A k \in 0..Len(rest) : Value(rest, r, k) \in Nat
      /\ \A k \in 0..(Len(rest) - 1) :
            Value(rest, r, k + 1) = Value(rest, r, k) * r + Weight(rest[k + 1])
  BY Zenon, <1>2, ValueIs
<1>. DEFINE T == {k \in Nat : k <= Len(rest) =>
                     Value(text, r, k + 1) = d * Power(r, k) + Value(rest, r, k)}
<1>3. 0 \in T
  <2>1. Value(text, r, 0 + 1) = Value(text, r, 0) * r + Weight(text[0 + 1])
    <3>1. 0 \in 0..(Len(text) - 1)
      BY <1>1, <1>2
    <3>. QED BY <1>7, <3>1
  <2>2. Value(text, r, 0) = 0 /\ Value(rest, r, 0) = 0 /\ Power(r, 0) = 1
        /\ Weight(text[0 + 1]) = d
    <3>1. Weight(text[0 + 1]) = d
      BY SMTT(30), <1>1, WeightIs
    <3>2. Power(r, 0) = 1
      BY PowerIs
    <3>. QED BY <1>7, <1>8, <3>1, <3>2
  <2>3. 0 * r = 0 /\ d * 1 = d
    OBVIOUS
  <2>. QED BY <2>1, <2>2, <2>3
<1>4. ASSUME NEW k \in Nat, k \in T PROVE k + 1 \in T
  <2>. SUFFICES ASSUME k + 1 <= Len(rest)
                PROVE  Value(text, r, (k + 1) + 1)
                       = d * Power(r, k + 1) + Value(rest, r, k + 1)
    OBVIOUS
  <2>. DEFINE p == Power(r, k)
              v == Value(rest, r, k)
              w == Weight(rest[k + 1])
              j == k + 1
  <2>1. Value(text, r, j) = d * p + v
    BY <1>4
  <2>2. j \in 0..(Len(text) - 1) /\ k \in 0..(Len(rest) - 1) /\ j \in 1..Len(rest)
    BY <1>1, <1>2
  <2>3. /\ Value(text, r, j + 1) = Value(text, r, j) * r + Weight(text[j + 1])
        /\ Value(rest, r, k + 1) = v * r + w /\ v \in Nat
    BY <1>7, <1>8, <2>2
  <2>4. Weight(text[j + 1]) = w
    BY <1>1, <2>2
  <2>5. p \in Nat /\ Power(r, k + 1) = r * p
    BY PowerIs
  <2>6. w \in Nat
    <3>1. PICK e \in 0..15 : rest[k + 1] = Digit(e)
      BY <1>2, <2>2 DEF Chars
    <3>. QED BY SMTT(30), <3>1, WeightIs
  <2>. HIDE DEF p, v, w
  <2>7. (d * p + v) * r + w = d * (r * p) + (v * r + w)
    BY <2>3, <2>5, <2>6
  <2>. QED BY <2>1, <2>3, <2>4, <2>5, <2>7
<1>5. Len(rest) \in T
  <2>. HIDE DEF T
  <2>. QED BY <1>2, <1>3, <1>4, Induction
<1>6. Value(text, r, Len(text)) = d * Power(r, Len(rest)) + Value(rest, r, Len(rest))
  BY <1>1, <1>5
<1>. QED BY <1>1, <1>6, ValueOfIs DEF text

\* Decimal digits: those made so far and the number still to be printed are worth
\* the number, which is used up after as many rounds as it has bits.
Decimal(num, i) ==
    {x \in [num : Nat, buf : Seq(Chars)] :
        /\ x.num * Power(10, Len(x.buf)) + ValueOf(x.buf, 10) = num
        /\ x.num < Power(2, Bits - i)
        /\ x.num = 0 => x.buf # <<>> /\ x.buf[1] # "0"}

\* Digits are text.
LEMMA CharsIn == Seq(Chars) \subseteq Text
<1>1. Chars \subseteq Char
  BY WeightIs DEF Chars
<1>. QED BY <1>1, SeqMonotonic DEF Text

\* One more digit.
LEMMA DigitStep ==
    ASSUME NEW num \in Nat, NEW j \in Nat, NEW i, j = i - 1, i \in 1..Bits,
           NEW x \in Decimal(num, j),
           NEW y, y = IF x.num = 0 THEN x
                      ELSE [num |-> x.num \div 10, buf |-> <<Digit(x.num % 10)>> \o x.buf]
    PROVE  y \in Decimal(num, i)
<1>1. /\ x.num \in Nat /\ x.buf \in Seq(Chars)
      /\ x.num * Power(10, Len(x.buf)) + ValueOf(x.buf, 10) = num
      /\ x.num < Power(2, Bits - j)
      /\ x.num = 0 => x.buf # <<>> /\ x.buf[1] # "0"
  BY DEF Decimal
<1>. DEFINE b == Bits - i
            n == x.num
<1>2. b \in Nat /\ Bits - j = b + 1
  BY WidthIs
<1>3. Power(2, b) \in Nat \ {0} /\ Power(2, b + 1) = 2 * Power(2, b)
  <2>. HIDE DEF b
  <2>. QED BY <1>2, Power2Is
<1>4. CASE n = 0
  <2>1. y = x /\ n < Power(2, b)
    BY <1>3, <1>4
  <2>. QED BY <1>1, <1>4, <2>1 DEF Decimal
<1>5. CASE n # 0
  <2>. DEFINE q == n \div 10
              e == n % 10
              text == <<Digit(e)>> \o x.buf
              p == Power(10, Len(x.buf))
              v == ValueOf(x.buf, 10)
  <2>1. q \in Nat /\ e \in 0..15 /\ n = 10 * q + e /\ (q = 0 => e # 0)
    <3>1. n \in Nat
      BY <1>1
    <3>. HIDE DEF n
    <3>. QED BY <1>5, <3>1
  <2>2. y = [num |-> q, buf |-> text]
    BY <1>5
  <2>. HIDE DEF q, e, n
  <2>3. /\ text \in Seq(Chars) /\ Len(text) = Len(x.buf) + 1 /\ text[1] = Digit(e)
        /\ ValueOf(text, 10) = e * p + v
    <3>1. 10 \in Nat \ {0}
      OBVIOUS
    <3>2. /\ <<Digit(e)>> \o x.buf \in Seq(Chars)
          /\ Len(<<Digit(e)>> \o x.buf) = Len(x.buf) + 1
          /\ (<<Digit(e)>> \o x.buf)[1] = Digit(e)
          /\ ValueOf(<<Digit(e)>> \o x.buf, 10)
             = e * Power(10, Len(x.buf)) + ValueOf(x.buf, 10)
      BY Zenon, <1>1, <2>1, <3>1, FrontIs
    <3>. QED BY Zenon, <3>2
  <2>4. p \in Nat /\ Power(10, Len(text)) = 10 * p
    <3>1. Len(x.buf) \in Nat
      BY <1>1
    <3>. QED BY <2>3, <3>1, Power10Is
  <2>5. v \in Nat
    <3>1. 10 \in Nat \ {0}
      OBVIOUS
    <3>. QED BY Zenon, <1>1, <3>1, NumeralIs
  <2>6. n * p + v = num
    BY <1>1 DEF n
  <2>. HIDE DEF text, p, v
  <2>7. q * (10 * p) + (e * p + v) = num
    BY <2>1, <2>4, <2>5, <2>6
  <2>8. q < Power(2, b)
    <3>1. n < 2 * Power(2, b)
      BY <1>1, <1>2, <1>3 DEF n
    <3>. QED BY <1>3, <2>1, <3>1
  <2>9. q = 0 => text # <<>> /\ text[1] # "0"
    <3>1. Digit(0) = "0"
      BY DEF Digit, digits
    <3>2. e # 0 => Digit(e) # "0"
      <4>1. 0 \in 0..15
        OBVIOUS
      <4>. QED BY Zenon, <2>1, <3>1, <4>1, DigitsDiffer
    <3>. QED BY <1>1, <2>1, <2>3, <3>2
  <2>. DEFINE z == [num |-> q, buf |-> text]
  <2>10. z \in [num : Nat, buf : Seq(Chars)] /\ z.num = q /\ z.buf = text
    BY <2>1, <2>3
  <2>. HIDE DEF z
  <2>11. z.num * Power(10, Len(z.buf)) + ValueOf(z.buf, 10) = num
    BY <2>3, <2>4, <2>7, <2>10
  <2>12. z \in Decimal(num, i)
    BY <2>8, <2>9, <2>10, <2>11 DEF Decimal
  <2>. QED BY <2>2, <2>12 DEF z
<1>. QED BY <1>4, <1>5

\* writeUInt prints what reads back, without leading zeros.
LEMMA UIntIs ==
    ASSUME NEW num \in 0..(U32 - 1)
    PROVE  LET text == writeUInt(num)
           IN /\ text \in Seq(Chars) /\ text # <<>> /\ ValueOf(text, 10) = num
              /\ Len(text) > 1 => text[1] # "0"
<1>0. Bits \in Nat /\ U32 = Power(2, Bits) /\ U32 \in Nat
  BY WidthIs
<1>1. CASE num = 0
  <2>. DEFINE rest == <<>>
  <2>. DEFINE d == 0
  <2>1. Digit(d) = "0" /\ writeUInt(num) = <<Digit(d)>>
    BY <1>1 DEF Digit, digits, writeUInt
  <2>2. rest \in Seq(Chars) /\ Len(rest) = 0
    OBVIOUS
  <2>12. <<Digit(d)>> \o rest = <<Digit(d)>>
    BY WeightIs
  <2>3. 10 \in Nat \ {0} /\ d \in 0..15 /\ \A z \in Nat : d * z = 0
    OBVIOUS
  <2>4. ValueOf(rest, 10) = 0
    BY Zenon, <2>2, <2>3, NumeralIs
  <2>. HIDE DEF rest, d
  <2>5. /\ <<Digit(d)>> \o rest \in Seq(Chars) /\ Len(<<Digit(d)>> \o rest) = Len(rest) + 1
        /\ ValueOf(<<Digit(d)>> \o rest, 10) = d * Power(10, Len(rest)) + ValueOf(rest, 10)
    <3>1. 10 \in Nat \ {0} 
      BY <2>3
    <3>2. d \in 0..15
      BY <2>3
    <3>3. rest \in Seq(Chars)
      BY <2>2
    <3>. QED BY Zenon, <3>1, <3>2, <3>3, FrontIs
  <2>6. Power(10, Len(rest)) = 1
    BY <2>2, Power10Is
  <2>. DEFINE text == <<Digit(d)>>
  <2>7. text \in Seq(Chars) /\ Len(text) = 1
    BY <2>2, <2>5, <2>12
  <2>8. ValueOf(text, 10) = 0
    BY <2>2, <2>12, <2>3, <2>4, <2>5, <2>6
  <2>9. text # <<>>
    BY <2>7
  <2>. HIDE DEF text
  <2>10. writeUInt(num) = text
    BY <2>1 DEF text
  <2>11. ~(Len(text) > 1)
    BY <2>7
  <2>. QED BY Zenon, <1>1, <2>7, <2>8, <2>9, <2>10, <2>11
<1>2. CASE num # 0
  <2>. DEFINE once == [i \in 1..Bits |-> [x \in Unread |->
                         IF x.num = 0 THEN x
                         ELSE [num |-> x.num \div 10, buf |-> <<Digit(x.num % 10)>> \o x.buf]]]
              first == [num |-> num, buf |-> <<>>]
              inv == [i \in 0..Bits |-> Decimal(num, i)]
              end == Loop(once, first, Bits)
  <2>1. writeUInt(num) = end.buf
    BY <1>2 DEF writeUInt, Digits
  <2>2. first \in inv[0]
    <3>1. first \in [num : Nat, buf : Seq(Chars)] /\ first.num = num /\ first.buf = <<>>
      BY <1>0
    <3>2. ValueOf(<<>>, 10) = 0 /\ Power(10, Len(<<>>)) = 1
      <4>1. 10 \in Nat \ {0} /\ <<>> \in Seq(Chars) /\ Len(<<>>) = 0
        OBVIOUS
      <4>2. ValueOf(<<>>, 10) = 0
        BY Zenon, <4>1, NumeralIs
      <4>. QED BY <4>1, <4>2, Power10Is
    <3>3. Bits - 0 = Bits /\ num * 1 + 0 = num
      BY <1>0
    <3>4. first \in Decimal(num, 0)
      BY <1>0, <1>2, <3>1, <3>2, <3>3 DEF Decimal
    <3>. HIDE DEF first
    <3>. QED BY <1>0, <3>4
  <2>3. ASSUME NEW i \in 1..Bits, NEW x \in inv[i - 1] PROVE once[i][x] \in inv[i]
    <3>. DEFINE j == i - 1
                y == IF x.num = 0 THEN x
                     ELSE [num |-> x.num \div 10, buf |-> <<Digit(x.num % 10)>> \o x.buf]
    <3>1. j \in Nat /\ j \in 0..Bits /\ i \in 0..Bits /\ num \in Nat
      BY <1>0
    <3>2. x \in Decimal(num, j)
      BY <3>1
    <3>3. x \in Unread
      BY <3>2, CharsIn DEF Decimal, Unread
    <3>4. once[i][x] = y
      BY <3>3
    <3>5. j = i - 1
      OBVIOUS
    <3>. HIDE DEF j, y
    <3>6. y \in Decimal(num, i)
      BY <3>1, <3>2, <3>5, DigitStep DEF y
    <3>. QED BY <3>1, <3>4, <3>6
  <2>4. end \in Decimal(num, Bits)
    <3>1. end \in inv[Bits]
      <4>. HIDE DEF once, first, inv
      <4>. QED BY <1>0, <2>2, <2>3, LoopKeeps
    <3>. HIDE DEF end
    <3>. QED BY <1>0, <3>1
  <2>. HIDE DEF end
  <2>5. Power(2, Bits - Bits) = 1
    BY <1>0, Power2Is
  <2>6. end.num = 0 /\ end.buf \in Seq(Chars)
    BY <2>4, <2>5 DEF Decimal
  <2>7. /\ end.buf # <<>> /\ end.buf[1] # "0"
        /\ 0 * Power(10, Len(end.buf)) + ValueOf(end.buf, 10) = num
    BY <2>4, <2>6 DEF Decimal
  <2>8. 0 * Power(10, Len(end.buf)) = 0 /\ ValueOf(end.buf, 10) \in Nat
    <3>1. Len(end.buf) \in Nat /\ 10 \in Nat \ {0}
      BY <2>6
    <3>2. Power(10, Len(end.buf)) \in Nat
      BY <3>1, Power10Is
    <3>3. ValueOf(end.buf, 10) \in Nat
      BY Zenon, <2>6, <3>1, NumeralIs
    <3>. QED BY <3>2, <3>3
  <2>. QED BY <2>1, <2>6, <2>7, <2>8
<1>. QED BY <1>1, <1>2

\* Quotient and remainder, and that there are no others.
LEMMA DivIs ==
    ASSUME NEW n \in Nat, NEW p \in Nat \ {0}
    PROVE  n \div p \in Nat /\ n % p \in 0..(p - 1) /\ n = p * (n \div p) + (n % p)
OBVIOUS

\* No other pair is.
LEMMA DivOnly ==
    ASSUME NEW n \in Nat, NEW p \in Nat \ {0}, NEW q \in Nat, NEW e \in 0..(p - 1),
           n = p * q + e
    PROVE  n \div p = q
<1>. DEFINE a == n \div p
            f == n % p
            z == a - q
<1>1. a \in Nat /\ f \in 0..(p - 1) /\ n = p * a + f
  BY DivIs
<1>. HIDE DEF a, f
<1>2. p * z = p * a - p * q /\ z \in Int
  BY <1>1
<1>. DEFINE pz == p * z
            pa == p * a
            pq == p * q
<1>3. pa \in Int /\ pq \in Int /\ pz = pa - pq /\ n = pa + f /\ n = pq + e
  BY <1>1, <1>2
<1>. HIDE DEF pz, pa, pq
<1>4. pz < p /\ pz > -p
  BY <1>1, <1>3
<1>5. z = 0
  <2>. HIDE DEF z
  <2>. QED BY <1>2, <1>4, AtLeast DEF pz
<1>. QED BY <1>1, <1>5 DEF a

\* Dividing twice is dividing by the product.
LEMMA DivDiv ==
    ASSUME NEW n \in Nat, NEW p \in Nat \ {0}, NEW r \in Nat \ {0}, NEW m, m = r * p
    PROVE  n \div m = (n \div p) \div r
<1>. DEFINE a == n \div p
            b == n % p
            c == a \div r
            d == a % r
            e == p * d + b
<1>1. a \in Nat /\ b \in 0..(p - 1) /\ n = p * a + b
  BY DivIs
<1>. HIDE DEF a, b
<1>2. c \in Nat /\ d \in 0..(r - 1) /\ a = r * c + d
  BY <1>1, DivIs
<1>. HIDE DEF c, d
<1>3. m \in Nat \ {0}
  OBVIOUS
<1>4. n = m * c + e
  BY <1>1, <1>2
<1>5. e \in 0..(m - 1)
  <2>. DEFINE s == r - 1 - d
  <2>1. s \in Nat /\ m = p * d + p * s + p
    BY <1>2
  <2>. HIDE DEF s
  <2>2. p * d \in Nat /\ p * s \in Nat
    BY <1>2, <2>1
  <2>. QED BY <1>1, <2>1, <2>2
<1>. HIDE DEF e
<1>6. n \div m = c
  BY <1>2, <1>3, <1>4, <1>5, DivOnly
<1>. QED BY <1>6 DEF a, c

\* As many digits as the radix needs, whatever is in them, read back.
Fixed(num, r, n) == [i \in 1..n |-> Digit((num \div Power(r, n - i)) % r)]

\* Its digits are those of the number.
LEMMA FixedIs ==
    ASSUME NEW r \in 1..16, NEW n \in Nat, NEW num \in Nat, num < Power(r, n)
    PROVE  LET text == Fixed(num, r, n)
           IN text \in Seq(Chars) /\ Len(text) = n /\ ValueOf(text, r) = num
<1>. DEFINE text == Fixed(num, r, n)
<1>0. r \in Nat \ {0}
  OBVIOUS
<1>1. \A k \in Nat : Power(r, k) \in Nat \ {0} /\ Power(r, k + 1) = r * Power(r, k)
  BY Zenon, <1>0, PowerIs
<1>2. \A i \in 1..n : /\ text[i] = Digit((num \div Power(r, n - i)) % r)
                      /\ (num \div Power(r, n - i)) % r \in 0..15
                      /\ text[i] \in Chars
  <2>. TAKE i \in 1..n
  <2>. DEFINE k == n - i
              a == num \div Power(r, k)
  <2>1. Power(r, k) \in Nat \ {0}
    BY <1>1
  <2>2. text[i] = Digit(a % r)
    BY DEF Fixed
  <2>3. a \in Nat
    <3>. HIDE DEF k
    <3>. QED BY <2>1, DivIs
  <2>4. a % r \in 0..15
    <3>. HIDE DEF a
    <3>. QED BY <2>3
  <2>5. text[i] \in Chars
    <3>. HIDE DEF a, text
    <3>. QED BY <2>2, <2>4, WeightIs
  <2>. QED BY <2>2, <2>4, <2>5
<1>3. text \in Seq(Chars) /\ Len(text) = n
  <2>1. text \in [1..n -> Chars]
    <3>1. text = [i \in 1..n |-> text[i]]
      BY DEF Fixed
    <3>. HIDE DEF text
    <3>. QED BY <1>2, <3>1
  <2>. HIDE DEF text
  <2>. QED BY <2>1, SeqDef
<1>. HIDE DEF text
<1>4. /\ Value(text, r, 0) = 0
      /\ \A k \in 0..(n - 1) : Value(text, r, k + 1) = Value(text, r, k) * r + Weight(text[k + 1])
  <2>1. Len(text) \in Nat /\ \A i \in 1..Len(text) : text[i] \in Chars
    BY <1>3
  <2>2. /\ Value(text, r, 0) = 0
        /\ \A k \in 0..(Len(text) - 1) :
              Value(text, r, k + 1) = Value(text, r, k) * r + Weight(text[k + 1])
    BY Zenon, <1>0, <2>1, ValueIs
  <2>. QED BY Zenon, <1>3, <2>2
<1>. DEFINE T == {k \in Nat : k <= n => Value(text, r, k) = num \div Power(r, n - k)}
<1>5. 0 \in T
  <2>. DEFINE p == Power(r, n)
  <2>1. p \in Nat \ {0} /\ num < p
    BY <1>1
  <2>. HIDE DEF p
  <2>2. num \div p = 0
    BY <2>1
  <2>3. n - 0 = n
    OBVIOUS
  <2>. QED BY <1>4, <2>2, <2>3 DEF p
<1>6. ASSUME NEW k \in Nat, k \in T PROVE k + 1 \in T
  <2>. SUFFICES ASSUME k + 1 <= n
                PROVE  Value(text, r, k + 1) = num \div Power(r, n - (k + 1))
    OBVIOUS
  <2>. DEFINE m == n - (k + 1)
              p == Power(r, m)
              a == num \div p
  <2>1. m \in Nat /\ n - k = m + 1 /\ k + 1 \in 1..n /\ k \in 0..(n - 1)
    OBVIOUS
  <2>. HIDE DEF m
  <2>2. p \in Nat \ {0} /\ Power(r, n - k) = r * p
    BY <1>1, <2>1
  <2>3. Value(text, r, k) = num \div (r * p)
    BY <1>6, <2>1, <2>2
  <2>. HIDE DEF p
  <2>4. a \in Nat /\ num \div (r * p) = a \div r
    <3>1. num \div p \in Nat
      BY <2>2, DivIs
    <3>. DEFINE rp == r * p
    <3>3. rp = r * p
      OBVIOUS
    <3>. HIDE DEF rp
    <3>2. num \div rp = (num \div p) \div r
      BY <1>0, <2>2, <3>3, DivDiv
    <3>. QED BY <3>1, <3>2, <3>3
  <2>5. Weight(text[k + 1]) = a % r
    BY <1>2, <2>1, WeightIs DEF m, p
  <2>6. Value(text, r, k + 1) = (a \div r) * r + (a % r)
    BY <1>4, <2>1, <2>3, <2>4, <2>5
  <2>. HIDE DEF a
  <2>7. r * (a \div r) + (a % r) = a /\ r * (a \div r) = (a \div r) * r
    BY <1>0, <2>4, DivIs
  <2>. QED BY <2>6, <2>7 DEF a, m, p
<1>7. n \in T
  <2>. HIDE DEF T
  <2>. QED BY <1>5, <1>6, Induction
<1>8. Value(text, r, n) = num
  <2>1. n - n = 0 /\ Power(r, 0) = 1 /\ num \div 1 = num
    BY <1>0, PowerIs
  <2>. QED BY <1>7, <2>1
<1>. QED BY <1>3, <1>8, ValueOfIs DEF text

\* Thirty-two bits are eight hexadecimal digits.
LEMMA NibblesAre == Bits \div 4 \in Nat /\ Power(16, Bits \div 4) = U32
<1>. DEFINE T == {m \in Nat : Power(16, m) = Power(2, 4 * m)}
<1>1. 0 \in T
  <2>1. 4 * 0 = 0
    OBVIOUS
  <2>. QED BY <2>1, Power2Is, Power16Is
<1>2. ASSUME NEW m \in Nat, m \in T PROVE m + 1 \in T
  <2>. DEFINE k == 4 * m
              a == k + 1
              b == a + 1
              c == b + 1
              p == Power(2, k)
  <2>1. k \in Nat /\ 4 * (m + 1) = c + 1
    OBVIOUS
  <2>. HIDE DEF k
  <2>2. p \in Nat /\ Power(2, a) = 2 * p
    BY <2>1, Power2Is
  <2>3. Power(2, b) = 2 * Power(2, a)
    BY <2>1, Power2Is
  <2>4. Power(2, c) = 2 * Power(2, b)
    BY <2>1, Power2Is
  <2>5. Power(2, c + 1) = 2 * Power(2, c)
    BY <2>1, Power2Is
  <2>6. Power(16, m) = p /\ Power(16, m + 1) = 16 * Power(16, m)
    BY <1>2, Power16Is DEF k
  <2>. HIDE DEF p, a, b, c
  <2>7. Power(16, m + 1) = Power(2, c + 1)
    BY <2>2, <2>3, <2>4, <2>5, <2>6
  <2>. QED BY <2>1, <2>7
<1>3. Nat \subseteq T
  <2>. HIDE DEF T
  <2>. QED BY <1>1, <1>2, Induction
<1>4. Bits \in Nat /\ Bits % 4 = 0
  BY Zenon, FormatAssumption
<1>. DEFINE m == Bits \div 4
<1>5. m \in Nat /\ 4 * m = Bits
  BY <1>4
<1>. HIDE DEF m
<1>6. Power(16, m) = Power(2, Bits)
  BY <1>3, <1>5
<1>. QED BY <1>5, <1>6, WidthIs DEF m

\* The rest of a text behind two characters, or behind one.
LEMMA BehindTwo ==
    ASSUME NEW a, NEW b, NEW s \in Seq(Chars)
    PROVE  LET text == <<a, b>> \o s
           IN Len(text) = 2 + Len(s) /\ SubSeq(text, 3, Len(text)) = s
<1>. DEFINE S == Chars \cup {a, b}
            two == <<a, b>>
            text == two \o s
<1>1. two \in Seq(S) /\ Len(two) = 2 /\ s \in Seq(S) /\ Len(s) \in Nat
  <2>1. s \in Seq(S)
    BY SeqMonotonic
  <2>. QED BY <2>1
<1>. HIDE DEF S, two
<1>2. /\ text \in Seq(S) /\ Len(text) = Len(two) + Len(s)
      /\ \A i \in 1..(Len(two) + Len(s)) :
            text[i] = IF i <= Len(two) THEN two[i] ELSE s[i - Len(two)]
  BY Zenon, <1>1, ConcatProperties
<1>. HIDE DEF text
<1>. DEFINE rest == SubSeq(text, 3, Len(text))
            n == Len(s)
<1>3. Len(text) = 2 + n /\ n \in Nat /\ \A i \in 1..n : text[i + 2] = s[i]
  <2>1. Len(text) = 2 + n /\ n \in Nat
    BY <1>1, <1>2
  <2>2. ASSUME NEW i \in 1..n PROVE text[i + 2] = s[i]
    <3>1. i + 2 \in 1..(Len(two) + Len(s)) /\ ~(i + 2 <= Len(two)) /\ (i + 2) - Len(two) = i
      BY <1>1
    <3>2. text[i + 2] = s[(i + 2) - Len(two)]
      BY <1>2, <3>1
    <3>. QED BY <3>1, <3>2
  <2>. QED BY <2>1, <2>2
<1>4. rest = [i \in 1..n |-> text[i + 2]]
  <2>1. rest = [i \in 1..(1 + Len(text) - 3) |-> text[i + 3 - 1]]
    OBVIOUS
  <2>2. 1 + Len(text) - 3 = n /\ \A i \in 1..n : i + 3 - 1 = i + 2
    BY <1>3
  <2>. QED BY <2>1, <2>2
<1>5. s = [i \in 1..n |-> s[i]]
  OBVIOUS
<1>6. rest = s
  BY <1>3, <1>4, <1>5
<1>. QED BY <1>3, <1>6 DEF text, two

\* The same behind one character, the sign.
LEMMA BehindOne ==
    ASSUME NEW a, NEW s \in Seq(Chars)
    PROVE  LET text == <<a>> \o s
           IN text # <<>> /\ text[1] = a /\ Tail(text) = s
<1>. DEFINE S == Chars \cup {a}
            one == <<a>>
            text == one \o s
            n == Len(s)
<1>1. one \in Seq(S) /\ Len(one) = 1 /\ one[1] = a /\ s \in Seq(S) /\ n \in Nat
  <2>1. s \in Seq(S)
    BY SeqMonotonic
  <2>. QED BY <2>1
<1>. HIDE DEF S, one
<1>2. /\ text \in Seq(S) /\ Len(text) = Len(one) + Len(s)
      /\ \A i \in 1..(Len(one) + Len(s)) :
            text[i] = IF i <= Len(one) THEN one[i] ELSE s[i - Len(one)]
  BY Zenon, <1>1, ConcatProperties
<1>. HIDE DEF text
<1>3. Len(text) = 1 + n /\ text[1] = a /\ \A i \in 1..n : text[i + 1] = s[i]
  <2>1. Len(text) = 1 + n
    BY <1>1, <1>2
  <2>2. ASSUME NEW i \in 1..n PROVE text[i + 1] = s[i]
    <3>1. i + 1 \in 1..(Len(one) + Len(s)) /\ ~(i + 1 <= Len(one)) /\ (i + 1) - Len(one) = i
      BY <1>1
    <3>2. text[i + 1] = s[(i + 1) - Len(one)]
      BY <1>2, <3>1
    <3>. QED BY <3>1, <3>2
  <2>3. text[1] = one[1]
    <3>1. 1 \in 1..(Len(one) + Len(s)) /\ 1 <= Len(one)
      BY <1>1
    <3>. QED BY <1>2, <3>1
  <2>. QED BY <1>1, <2>1, <2>2, <2>3
<1>4. Tail(text) \in Seq(S) /\ Len(Tail(text)) = n /\ \A i \in 1..n : Tail(text)[i] = text[i + 1]
  <2>1. text # <<>>
    BY <1>1, <1>2, <1>3
  <2>. QED BY <1>1, <1>2, <1>3, <2>1
<1>5. Tail(text) = s
  BY <1>1, <1>3, <1>4, SeqEqual
<1>6. text # <<>>
  BY <1>1, <1>2, <1>3
<1>. QED BY <1>3, <1>5, <1>6 DEF text, one

\* What the directives for numbers write.
LEMMA DirectivesAre ==
    ASSUME NEW arg
    PROVE  /\ directive("u", arg) = writeUInt(arg)
           /\ directive("d", arg) = writeInt(arg)
           /\ directive("b", arg) = writeBinary(arg)
           /\ directive("x", arg) = writeHex_bytes(arg, Bits \div 4)
           /\ directive("q", arg) = writeUInt64(arg)
           /\ directive("f", arg) = writeReal(arg)
BY DEF directive

\* What is printed for each kind of number.
LEMMA UnsignedIs ==
    ASSUME NEW num \in 0..(U32 - 1)
    PROVE  /\ Reads(writeUInt(num), num) /\ Short(writeUInt(num))
           /\ directive("u", num) = writeUInt(num) /\ directive("d", num) = writeUInt(num)
<1>. DEFINE text == writeUInt(num)
<1>1. /\ text \in Seq(Chars) /\ text # <<>> /\ ValueOf(text, 10) = num
      /\ Len(text) > 1 => text[1] # "0"
  BY UIntIs
<1>2. num \in Nat /\ ~(num < 0)
  BY WidthIs
<1>3. writeInt(num) = text
  BY <1>2 DEF writeInt
<1>. HIDE DEF text
<1>4. text[1] # "-"
  <2>1. text[1] \in Chars
    BY <1>1
  <2>2. PICK d \in 0..15 : text[1] = Digit(d)
    BY <2>1 DEF Chars
  <2>. QED BY <2>2, WeightIs
<1>5. Reads(text, num) /\ Short(text)
  BY <1>1, <1>2, <1>4 DEF Reads, Short
<1>6. text = writeUInt(num)
  BY DEF text
<1>7. directive("u", num) = text /\ directive("d", num) = text
  BY Zenon, <1>1, <1>3, <1>6, DirectivesAre
<1>. QED BY <1>5, <1>7 DEF text

\* With a sign, the least number too: -0 has none.
LEMMA NegativeIs ==
    ASSUME NEW num \in 0..(U32 - 1)
    PROVE  Reads(directive("d", -num), -num)
<1>1. num \in Nat /\ U32 \in Nat /\ num < U32
  BY WidthIs
<1>2. CASE num = 0
  <2>1. -num = num /\ num \in 0..(U32 - 1)
    <3>1. \A k \in Int : k <= 0 /\ 0 <= k => -k = k
      OBVIOUS
    <3>2. num \in Int /\ num <= 0 /\ 0 <= num
      BY <1>1, <1>2
    <3>. QED BY Zenon, <3>1, <3>2
  <2>2. Reads(directive("d", num), num)
    BY Zenon, UnsignedIs
  <2>. QED BY <2>1, <2>2
<1>3. CASE num # 0
  <2>. DEFINE digs == writeUInt(num)
              text == <<"-">> \o digs
              m == -num
  <2>1. m < 0 /\ -m = num /\ (-m) % U32 = num
    BY <1>1, <1>3
  <2>. HIDE DEF m
  <2>2. writeInt(m) = text
    BY <2>1 DEF writeInt
  <2>3. digs \in Seq(Chars) /\ digs # <<>> /\ ValueOf(digs, 10) = num
    BY UIntIs
  <2>. HIDE DEF digs
  <2>4. text # <<>> /\ text[1] = "-" /\ Tail(text) = digs
    BY <2>3, BehindOne
  <2>5. text \in Seq(Chars \cup {"-"})
    <3>. DEFINE S == Chars \cup {"-"}
                one == <<"-">>
    <3>1. one \in Seq(S) /\ digs \in Seq(S)
      <4>1. digs \in Seq(S)
        BY <2>3, SeqMonotonic
      <4>. QED BY <4>1
    <3>. HIDE DEF S, one
    <3>2. one \o digs \in Seq(S)
      BY <3>1, ConcatProperties
    <3>. QED BY <3>2 DEF S, one
  <2>. HIDE DEF text
  <2>6. directive("d", m) = text
    BY Zenon, <2>2, <2>5, DirectivesAre
  <2>7. Reads(text, m)
    <3>1. ValueOf(Tail(text), 10) = num
      BY <2>3, <2>4
    <3>2. -num = m
      BY <2>1, <1>1 DEF m
    <3>. QED BY Zenon, <2>1, <2>4, <3>1, <3>2 DEF Reads
  <2>. QED BY Zenon, <2>6, <2>7 DEF m
<1>. QED BY <1>2, <1>3

Radices == 1..16

\* Digits of a fixed number behind two characters read back.
LEMMA FixedText ==
    ASSUME NEW num \in Nat, NEW r \in Radices, NEW n \in Nat, num < Power(r, n), NEW a, NEW b
    PROVE  LET text == <<a, b>> \o Fixed(num, r, n)
           IN /\ text \in Seq(Chars \cup {a, b}) /\ Len(text) = 2 + n
              /\ ValueOf(SubSeq(text, 3, Len(text)), r) = num
<1>. DEFINE s == Fixed(num, r, n)
            text == <<a, b>> \o Fixed(num, r, n)
<1>1. s \in Seq(Chars) /\ Len(s) = n /\ ValueOf(s, r) = num
  BY FixedIs DEF Radices
<1>2. text = <<a, b>> \o s
  OBVIOUS
<1>. HIDE DEF s, text
<1>3. Len(text) = 2 + Len(s) /\ SubSeq(text, 3, Len(text)) = s
  BY <1>1, <1>2, BehindTwo
<1>4. text \in Seq(Chars \cup {a, b})
  <2>. DEFINE S == Chars \cup {a, b}
              two == <<a, b>>
  <2>1. two \in Seq(S) /\ s \in Seq(S)
    <3>1. s \in Seq(S)
      BY <1>1, SeqMonotonic
    <3>. QED BY <3>1
  <2>. HIDE DEF S, two
  <2>2. two \o s \in Seq(S)
    BY <2>1, ConcatProperties
  <2>. QED BY <1>2, <2>2 DEF S, two
<1>. QED BY <1>1, <1>3, <1>4 DEF text

\* What is printed in hexadecimal reads back.
LEMMA HexPrints ==
    ASSUME NEW num \in Nat, num < U32
    PROVE  LET text == directive("x", num)
           IN /\ Len(text) = 2 + Bits \div 4
              /\ ValueOf(SubSeq(text, 3, Len(text)), 16) = num
<1>. DEFINE size == Bits \div 4
            r == 16
            a == "0"
            b == "x"
            text == writeHex_bytes(num, Bits \div 4)
            v == <<a, b>> \o Fixed(num, r, size)
<1>1. text = v
  BY DEF writeHex_bytes, Fixed
<1>2. size \in Nat /\ num < Power(r, size) /\ r \in Radices
  BY NibblesAre DEF Radices
<1>3. text = writeHex_bytes(num, Bits \div 4)
  OBVIOUS
<1>. HIDE DEF text, size, r, a, b
<1>4. /\ v \in Seq(Chars \cup {a, b}) /\ Len(v) = 2 + size
      /\ ValueOf(SubSeq(v, 3, Len(v)), r) = num
  BY <1>2, FixedText
<1>. HIDE DEF v
<1>5. text \in Seq(Chars \cup {a, b}) /\ Len(text) = 2 + size
      /\ ValueOf(SubSeq(text, 3, Len(text)), r) = num
  BY Zenon, <1>1, <1>4
<1>6. directive("x", num) = text
  BY Zenon, <1>3, <1>5, DirectivesAre
<1>. QED BY Zenon, <1>5, <1>6 DEF size, r

\* What is printed in binary reads back.
LEMMA BinaryPrints ==
    ASSUME NEW num \in Nat, num < U32
    PROVE  LET text == directive("b", num)
           IN /\ Len(text) = 2 + Bits
              /\ ValueOf(SubSeq(text, 3, Len(text)), 2) = num
<1>. DEFINE size == Bits
            r == 2
            a == "0"
            b == "b"
            text == writeBinary(num)
            v == <<a, b>> \o Fixed(num, r, size)
<1>1. text = v
  BY DEF writeBinary, Fixed
<1>2. size \in Nat /\ num < Power(r, size) /\ r \in Radices
  BY WidthIs DEF Radices
<1>3. text = writeBinary(num)
  OBVIOUS
<1>. HIDE DEF text, size, r, a, b
<1>4. /\ v \in Seq(Chars \cup {a, b}) /\ Len(v) = 2 + size
      /\ ValueOf(SubSeq(v, 3, Len(v)), r) = num
  BY <1>2, FixedText
<1>. HIDE DEF v
<1>5. text \in Seq(Chars \cup {a, b}) /\ Len(text) = 2 + size
      /\ ValueOf(SubSeq(text, 3, Len(text)), r) = num
  BY Zenon, <1>1, <1>4
<1>6. directive("b", num) = text
  BY Zenon, <1>3, <1>5, DirectivesAre
<1>. QED BY Zenon, <1>5, <1>6 DEF size, r

\* What is printed for a u32, an i32 (the least one too), in hexadecimal and in binary
\* reads back as the number: IntegersReadBack (scrn.c:207-217, 365-393, 506-536, 573-587).
THEOREM IntegersRead == Spec => []IntegersReadBack
<1>1. IInv => IntegersReadBack
  <2>. SUFFICES ASSUME IInv, After("print") PROVE IntegersReadBack
    BY DEF IntegersReadBack
  <2>. DEFINE num == job.num
  <2>1. /\ out.u = directive("u", num) /\ out.pos = directive("d", num)
        /\ out.neg = directive("d", -num) /\ out.bin = directive("b", num)
        /\ out.hex = directive("x", num)
    BY DEF IInv, Answered
  <2>2. num \in Numbers
    BY DEF IInv, Asked, After
  <2>. HIDE DEF num
  <2>3. num \in 0..(U32 - 1)
    <3>1. Numbers \subseteq 0..(U32 - 1)
      BY SMT, RoutinesAssumption
    <3>. QED BY <2>2, <3>1
  <2>4. num \in Nat /\ num < U32
    BY <2>3, WidthIs
  <2>5. Reads(out.u, num) /\ Short(out.u) /\ Reads(out.pos, num) /\ Reads(out.neg, -num)
    BY <2>1, <2>3, UnsignedIs, NegativeIs
  <2>6. /\ Len(out.hex) = 2 + Bits \div 4
        /\ ValueOf(SubSeq(out.hex, 3, Len(out.hex)), 16) = num
    BY Zenon, <2>1, <2>4, HexPrints
  <2>7. Len(out.bin) = 2 + Bits /\ ValueOf(SubSeq(out.bin, 3, Len(out.bin)), 2) = num
    BY Zenon, <2>1, <2>4, BinaryPrints
  <2>. QED BY Zenon, <2>5, <2>6, <2>7 DEF IntegersReadBack, num
<1>. QED BY Inductive, <1>1, PTL

-----------------------------------------------------------------------------
(* Mode switches *)

\* The registers of ModeSwitch, in the order it writes them.
Registers == <<17, 0, 1, 2, 3, 4, 5, 19, 6, 7, 9, 16, 17, 18, 21, 22, 8, 20, 23, 4, 1, 2>>
\* A write to one of them.
OneWrite == [port : {"crt", "seq"}, reg : 0..24, val : Nat]

\* A write stays in its register until the register is written again; registers
\* 0 to 7 take it after the first write, while register 0x11 keeps what that left.
LEMMA StaysWritten ==
    ASSUME NEW writes, Len(writes) \in Nat,
           \A k \in 1..Len(writes) : writes[k] \in OneWrite,
           NEW j \in 1..Len(writes),
           \A k \in 1..Len(writes) :
               k > j => ~(writes[k].port = writes[j].port /\ writes[k].reg = writes[j].reg),
           \/ writes[j].reg > 7 \/ writes[j].port = "seq"
           \/ \A k \in 1..j : (writes[k].port = "crt" /\ writes[k].reg = 17)
                              => writes[k].val < 128,
           writes[1].port = "crt" /\ writes[1].reg = 17 /\ writes[1].val < 128
    PROVE  Adapter(writes)[writes[j].port][writes[j].reg] = writes[j].val
<1>. DEFINE n == Len(writes)
            p == writes[j].port
            r == writes[j].reg
            open == r <= 7 /\ p = "crt"
            once == [i \in 1..n |-> [a \in Adapters |-> Write(a, writes[i])]]
            inv == [i \in 0..n |->
                       {a \in Adapters : /\ (open /\ i \in 1..j) => a["crt"][17] < 128
                                         /\ i >= j => a[p][r] = writes[j].val}]
<1>1. Adapter(writes) = Loop(once, TextMode, n)
  BY DEF Adapter
<1>2. TextMode \in inv[0]
  <2>1. TextMode \in Adapters
    BY DEF TextMode, Adapters
  <2>. QED BY <2>1
<1>3. p \in {"crt", "seq"} /\ r \in 0..24 /\ writes[j].val \in Nat
  BY DEF OneWrite
<1>4. ASSUME NEW a \in Adapters, NEW w \in OneWrite
      PROVE  /\ Write(a, w) \in Adapters
             /\ \/ Protected(a, w) /\ Write(a, w) = a
                \/ ~Protected(a, w) /\ Write(a, w)[w.port][w.reg] = w.val
             /\ \A q \in {"crt", "seq"}, s \in 0..24 :
                   ~(q = w.port /\ s = w.reg) => Write(a, w)[q][s] = a[q][s]
  <2>1. w.port \in {"crt", "seq"} /\ w.reg \in 0..24 /\ w.val \in Nat
    BY DEF OneWrite
  <2>2. CASE Protected(a, w)
    BY <2>2 DEF Write
  <2>3. CASE ~Protected(a, w)
    <3>1. Write(a, w) = [a EXCEPT ![w.port][w.reg] = w.val]
      BY <2>3 DEF Write
    <3>2. /\ Write(a, w) \in Adapters /\ Write(a, w)[w.port][w.reg] = w.val
      <4>. DEFINE g == [a[w.port] EXCEPT ![w.reg] = w.val]
      <4>1. a[w.port] \in [0..24 -> Nat] /\ a \in [{"crt", "seq"} -> [0..24 -> Nat]]
        BY <2>1 DEF Adapters
      <4>2. g \in [0..24 -> Nat] /\ g[w.reg] = w.val
        BY <2>1, <4>1
      <4>3. Write(a, w) = [a EXCEPT ![w.port] = g]
        BY <3>1
      <4>. HIDE DEF g
      <4>. QED BY ZenonT(60), <2>1, <4>1, <4>2, <4>3 DEF Adapters
    <3>3. ASSUME NEW q \in {"crt", "seq"}, NEW s \in 0..24,
                 ~(q = w.port /\ s = w.reg)
          PROVE  Write(a, w)[q][s] = a[q][s]
      <4>1. CASE q = w.port
        BY <2>1, <3>1, <3>3, <4>1 DEF Adapters
      <4>2. CASE q # w.port
        BY <2>1, <3>1, <3>3, <4>2 DEF Adapters
      <4>. QED BY <4>1, <4>2
    <3>. QED BY <2>3, <3>2, <3>3
  <2>. QED BY <2>2, <2>3
<1>5. ASSUME NEW i \in 1..n, NEW a \in inv[i - 1] PROVE once[i][a] \in inv[i]
  <2>. DEFINE w == writes[i]
              b == Write(a, w)
  <2>1. i - 1 \in 0..n /\ i \in 0..n
    OBVIOUS
  <2>2. a \in Adapters /\ w \in OneWrite /\ once[i][a] = b
    BY <2>1
  <2>3. /\ (open /\ i - 1 \in 1..j) => a["crt"][17] < 128
        /\ i - 1 >= j => a[p][r] = writes[j].val
    BY <2>1
  <2>. HIDE DEF once, inv, b, w
  <2>4. /\ b \in Adapters
        /\ \/ Protected(a, w) /\ b = a
           \/ ~Protected(a, w) /\ b[w.port][w.reg] = w.val
        /\ \A q \in {"crt", "seq"}, s \in 0..24 :
              ~(q = w.port /\ s = w.reg) => b[q][s] = a[q][s]
    BY <1>4, <2>2 DEF b
  <2>5. ASSUME open, i \in 1..j PROVE b["crt"][17] < 128
    <3>1. CASE w.port = "crt" /\ w.reg = 17
      <4>1. b["crt"][17] = w.val
        BY <2>4, <3>1 DEF Protected
      <4>2. w.val < 128
        <5>1. r <= 7 /\ p = "crt" /\ r \in Nat
          <6>1. r <= 7 /\ p = "crt"
            BY ONLY Zenon, <2>5
          <6>2. r \in 0..24
            BY ONLY Zenon, <1>3
          <6>3. \A q \in 0..24 : q \in Nat
            BY ONLY SMT
          <6>. QED BY ONLY Zenon, <6>1, <6>2, <6>3
        <5>2. \A k \in 1..j : (writes[k].port = "crt" /\ writes[k].reg = 17)
                              => writes[k].val < 128
          BY <5>1
        <5>. QED BY <2>5, <3>1, <5>2 DEF w
      <4>. QED BY <4>1, <4>2
    <3>2. CASE ~(w.port = "crt" /\ w.reg = 17)
      <4>1. i # 1
        BY <3>2 DEF w
      <4>2. a["crt"][17] < 128
        BY <2>3, <2>5, <4>1
      <4>3. b["crt"][17] = a["crt"][17]
        <5>1. 17 \in 0..24 /\ "crt" \in {"crt", "seq"}
          OBVIOUS
        <5>2. ~("crt" = w.port /\ 17 = w.reg)
          BY <3>2
        <5>. QED BY Zenon, <2>4, <5>1, <5>2
      <4>. QED BY <4>2, <4>3
    <3>. QED BY <3>1, <3>2
  <2>6. ASSUME i >= j PROVE b[p][r] = writes[j].val
    <3>1. CASE i = j
      <4>1. ~Protected(a, w)
        <5>1. CASE open
          <6>1. CASE j = 1
            BY <1>3, <3>1, <6>1 DEF Protected, w
          <6>2. CASE j # 1
            <7>1. a["crt"][17] < 128 /\ a["crt"][17] \in Nat
              BY SMTT(30), <2>2, <2>3, <3>1, <5>1, <6>2 DEF Adapters
            <7>. QED BY <7>1 DEF Protected
          <6>. QED BY <6>1, <6>2
        <5>2. CASE ~open
          BY <1>3, <3>1, <5>2 DEF Protected, w
        <5>. QED BY <5>1, <5>2
      <4>. QED BY <2>4, <3>1, <4>1 DEF w
    <3>2. CASE i > j
      <4>1. ~(p = w.port /\ r = w.reg)
        BY <3>2 DEF w
      <4>2. a[p][r] = writes[j].val
        BY <2>3, <3>2
      <4>. QED BY <1>3, <2>4, <4>1, <4>2
    <3>. QED BY <2>6, <3>1, <3>2
  <2>7. b \in inv[i]
    BY <2>1, <2>4, <2>5, <2>6 DEF inv
  <2>. QED BY <2>2, <2>7
<1>6. Adapter(writes) \in inv[n]
  <2>. HIDE DEF once, inv
  <2>. QED BY <1>1, <1>2, <1>5, LoopKeeps
<1>. QED BY <1>6

\* The tables' rows are numbers.
LEMMA RowsAre ==
    /\ \A w \in DOMAIN width_regs : width_regs[w] \in Seq(Nat) /\ Len(width_regs[w]) = 7
    /\ \A h \in DOMAIN height_regs : height_regs[h] \in Seq(Nat) /\ Len(height_regs[h]) = 8
<1>1. ASSUME NEW w \in DOMAIN width_regs
      PROVE  width_regs[w] \in Seq(Nat) /\ Len(width_regs[w]) = 7
  BY DEF width_regs
<1>2. ASSUME NEW h \in DOMAIN height_regs
      PROVE  height_regs[h] \in Seq(Nat) /\ Len(height_regs[h]) = 8
  <2>1. CASE h = 200
    BY <2>1 DEF height_regs
  <2>2. CASE h = 224
    BY <2>2 DEF height_regs
  <2>3. CASE h = 240
    BY <2>3 DEF height_regs
  <2>4. CASE h = 256
    BY <2>4 DEF height_regs
  <2>5. CASE h = 270
    BY <2>5 DEF height_regs
  <2>6. CASE h = 300
    BY <2>6 DEF height_regs
  <2>7. CASE h = 360
    BY <2>7 DEF height_regs
  <2>8. CASE h = 400
    BY <2>8 DEF height_regs
  <2>9. CASE h = 480
    BY <2>9 DEF height_regs
  <2>10. CASE h = 564
    BY <2>10 DEF height_regs
  <2>11. CASE h = 600
    BY <2>11 DEF height_regs
  <2>12. h \in {200, 224, 240, 256, 270, 300, 360, 400, 480, 564, 600}
    BY DEF height_regs
  <2>. QED BY <2>1, <2>2, <2>3, <2>4, <2>5, <2>6, <2>7, <2>8, <2>9, <2>10, <2>11, <2>12
<1>. QED BY <1>1, <1>2

\* z is what x and y are in a row.
InARow(S, z, x, y) ==
    /\ z \in Seq(S) /\ Len(z) = Len(x) + Len(y)
    /\ \A k \in 1..Len(x) : z[k] = x[k]
    /\ \A k \in 1..Len(y) : z[Len(x) + k] = y[k]

\* Two sequences in a row.
LEMMA Joined ==
    ASSUME NEW S, NEW x \in Seq(S), NEW y \in Seq(S)
    PROVE  InARow(S, x \o y, x, y)
<1>1. x \o y \in Seq(S) /\ Len(x \o y) = Len(x) + Len(y)
  BY ConcatProperties
<1>2. \A k \in 1..Len(x) + Len(y) :
         (x \o y)[k] = IF k <= Len(x) THEN x[k] ELSE y[k - Len(x)]
  BY ConcatProperties
<1>. QED BY <1>1, <1>2 DEF InARow

\* Rows of n registers and of n numbers for them.
Rows(n, regs, vals) ==
    /\ DOMAIN regs = 1..n
    /\ \A k \in 1..n : regs[k] \in 0..24
    /\ \A k \in 1..n : vals[k] \in Nat

\* The writes that put them there.
RowWrites(n, writes, regs, vals) ==
    /\ writes \in Seq(OneWrite) /\ Len(writes) = n
    /\ \A k \in 1..n : writes[k] = Crt(regs[k], vals[k])

\* The writes of rows of numbers to registers.
LEMMA EachIs ==
    ASSUME NEW n \in Nat, NEW regs, NEW vals, Rows(n, regs, vals)
    PROVE  RowWrites(n, Each(regs, vals), regs, vals)
<1>. DEFINE x == [k \in 1..n |-> Crt(regs[k], vals[k])]
<1>1. \A k \in 1..n : Crt(regs[k], vals[k]) \in OneWrite
  BY DEF Crt, OneWrite, Rows
<1>2. x \in [1..n -> OneWrite] /\ \A k \in 1..n : x[k] = Crt(regs[k], vals[k])
  BY <1>1
<1>3. x \in Seq(OneWrite) /\ Len(x) = n
  BY <1>2
<1>4. Each(regs, vals) = x
  BY DEF Each, Rows
<1>. QED BY Zenon, <1>2, <1>3, <1>4 DEF RowWrites

\* What a mode switch writes: the registers in their order, and the tables' rows.
Switched(s, w, h) ==
    /\ Len(s) = 22
    /\ \A k \in 1..22 : s[k] \in OneWrite
    /\ \A k \in 1..22 : s[k].reg = Registers[k]
    /\ \A k \in 1..22 : s[k].port = IF k <= 19 THEN "crt" ELSE "seq"
    /\ s[1].val = 14 /\ s[22].val = 15
    /\ \A k \in 1..7 : s[1 + k].val = width_regs[w][k]
    /\ \A k \in 1..8 : s[8 + k].val = height_regs[h][k]

\* The same, of the writes themselves.
LEMMA SwitchIs ==
    ASSUME NEW w \in DOMAIN width_regs, NEW h \in DOMAIN height_regs, NEW chain4 \in BOOLEAN
    PROVE  Switched(ModeSwitch(w, h, chain4), w, h)
<1>. DEFINE a == <<Crt(\h11, \h0e)>>
            b == Each(hor_regs, width_regs[w])
            c == Each(ver_regs, height_regs[h])
            d == <<Crt(8, 0), Crt(\h14, IF chain4 THEN \h40 ELSE 0),
                   Crt(\h17, IF chain4 THEN \ha3 ELSE \he3),
                   Sequencer(4, IF chain4 THEN \h0e ELSE 6), Sequencer(1, 1),
                   Sequencer(2, \h0f)>>
            s == ModeSwitch(w, h, chain4)
<1>1. s = ((a \o b) \o c) \o d
  <2>1. s = a \o b \o c \o d
    BY DEF ModeSwitch
  <2>. QED BY ONLY <2>1
<1>2. ASSUME NEW reg \in 0..24, NEW val \in Nat
      PROVE  /\ Crt(reg, val) \in OneWrite /\ Crt(reg, val).port = "crt"
             /\ Crt(reg, val).reg = reg /\ Crt(reg, val).val = val
  BY DEF Crt, OneWrite
<1>3. ASSUME NEW reg \in 0..24, NEW val \in Nat
      PROVE  /\ Sequencer(reg, val) \in OneWrite /\ Sequencer(reg, val).port = "seq"
             /\ Sequencer(reg, val).reg = reg /\ Sequencer(reg, val).val = val
  BY DEF Sequencer, OneWrite
<1>4. a \in Seq(OneWrite) /\ Len(a) = 1 /\ a[1] = Crt(17, 14) /\ Crt(17, 14) \in OneWrite
  <2>1. Crt(17, 14) \in OneWrite
    BY <1>2
  <2>. QED BY <2>1
<1>5. ASSUME NEW k \in 1..7
      PROVE  hor_regs[k] \in 0..24 /\ Registers[1 + k] = hor_regs[k]
             /\ width_regs[w][k] \in Nat
  <2>1. hor_regs[k] \in 0..24 /\ Registers[1 + k] = hor_regs[k]
    BY DEF hor_regs, Registers
  <2>2. width_regs[w] \in Seq(Nat) /\ Len(width_regs[w]) = 7
    BY RowsAre
  <2>3. width_regs[w][k] \in Nat
    <3>1. k \in 1..Len(width_regs[w])
      BY <2>2
    <3>. QED BY Zenon, <2>2, <3>1, ElementOfSeq
  <2>. QED BY <2>1, <2>3
<1>6. ASSUME NEW k \in 1..8
      PROVE  ver_regs[k] \in 0..24 /\ Registers[8 + k] = ver_regs[k]
             /\ height_regs[h][k] \in Nat
  <2>1. ver_regs[k] \in 0..24 /\ Registers[8 + k] = ver_regs[k]
    BY DEF ver_regs, Registers
  <2>2. height_regs[h] \in Seq(Nat) /\ Len(height_regs[h]) = 8
    BY RowsAre
  <2>3. height_regs[h][k] \in Nat
    <3>1. k \in 1..Len(height_regs[h])
      BY <2>2
    <3>. QED BY Zenon, <2>2, <3>1, ElementOfSeq
  <2>. QED BY <2>1, <2>3
<1>7. /\ b \in Seq(OneWrite) /\ Len(b) = 7
      /\ \A k \in 1..7 : b[k] = Crt(hor_regs[k], width_regs[w][k])
  <2>1. DOMAIN hor_regs = 1..7 /\ 7 \in Nat
    BY DEF hor_regs
  <2>2. /\ \A k \in 1..7 : hor_regs[k] \in 0..24
        /\ \A k \in 1..7 : width_regs[w][k] \in Nat
    BY <1>5
  <2>3. Rows(7, hor_regs, width_regs[w])
    BY <2>1, <2>2 DEF Rows
  <2>4. RowWrites(7, b, hor_regs, width_regs[w])
    BY ONLY Zenon, <2>1, <2>3, EachIs
  <2>. QED BY Zenon, <2>4 DEF RowWrites
<1>8. /\ c \in Seq(OneWrite) /\ Len(c) = 8
      /\ \A k \in 1..8 : c[k] = Crt(ver_regs[k], height_regs[h][k])
  <2>1. DOMAIN ver_regs = 1..8 /\ 8 \in Nat
    BY DEF ver_regs
  <2>2. /\ \A k \in 1..8 : ver_regs[k] \in 0..24
        /\ \A k \in 1..8 : height_regs[h][k] \in Nat
    BY <1>6
  <2>3. Rows(8, ver_regs, height_regs[h])
    BY <2>1, <2>2 DEF Rows
  <2>4. RowWrites(8, c, ver_regs, height_regs[h])
    BY ONLY Zenon, <2>1, <2>3, EachIs
  <2>. QED BY Zenon, <2>4 DEF RowWrites
<1>9. /\ d \in Seq(OneWrite) /\ Len(d) = 6
      /\ d[1].port = "crt" /\ d[1].reg = 8
      /\ d[2].port = "crt" /\ d[2].reg = 20
      /\ d[3].port = "crt" /\ d[3].reg = 23
      /\ d[4].port = "seq" /\ d[4].reg = 4
      /\ d[5].port = "seq" /\ d[5].reg = 1
      /\ d[6].port = "seq" /\ d[6].reg = 2 /\ d[6].val = 15
  <2>. DEFINE i == IF chain4 THEN \h40 ELSE 0
              j == IF chain4 THEN \ha3 ELSE \he3
              k == IF chain4 THEN \h0e ELSE 6
  <2>1. i \in Nat /\ j \in Nat /\ k \in Nat
    OBVIOUS
  <2>2. d = <<Crt(8, 0), Crt(20, i), Crt(23, j), Sequencer(4, k), Sequencer(1, 1),
              Sequencer(2, 15)>>
    OBVIOUS
  <2>. HIDE DEF i, j, k, d
  <2>3. /\ Crt(8, 0) \in OneWrite /\ Crt(8, 0).port = "crt" /\ Crt(8, 0).reg = 8
        /\ Crt(20, i) \in OneWrite /\ Crt(20, i).port = "crt" /\ Crt(20, i).reg = 20
        /\ Crt(23, j) \in OneWrite /\ Crt(23, j).port = "crt" /\ Crt(23, j).reg = 23
    BY <1>2, <2>1
  <2>4. /\ Sequencer(4, k) \in OneWrite /\ Sequencer(1, 1) \in OneWrite
        /\ Sequencer(4, k).port = "seq" /\ Sequencer(4, k).reg = 4
        /\ Sequencer(1, 1).port = "seq" /\ Sequencer(1, 1).reg = 1
        /\ Sequencer(2, 15) \in OneWrite /\ Sequencer(2, 15).port = "seq"
        /\ Sequencer(2, 15).reg = 2 /\ Sequencer(2, 15).val = 15
    BY <1>3, <2>1
  <2>5. d \in Seq(OneWrite) /\ Len(d) = 6
    BY ONLY <2>2, <2>3, <2>4
  <2>6. /\ d[1] = Crt(8, 0) /\ d[2] = Crt(20, i) /\ d[3] = Crt(23, j)
        /\ d[4] = Sequencer(4, k) /\ d[5] = Sequencer(1, 1) /\ d[6] = Sequencer(2, 15)
    BY ONLY <2>2
  <2>. QED BY <2>3, <2>4, <2>5, <2>6
<1>. HIDE DEF a, b, c, d, s
<1>. DEFINE x == a \o b
            y == x \o c
<1>10. /\ x \in Seq(OneWrite) /\ Len(x) = 8 /\ x[1] = a[1]
       /\ \A k \in 1..7 : x[1 + k] = b[k]
  <2>1. InARow(OneWrite, a \o b, a, b)
    <3>1. a \in Seq(OneWrite) /\ b \in Seq(OneWrite)
      BY Zenon, <1>4, <1>7
    <3>. QED BY ONLY Zenon, <3>1, Joined
  <2>. QED BY SMTT(30), <1>4, <1>7, <2>1 DEF InARow
<1>. HIDE DEF x
<1>11. /\ y \in Seq(OneWrite) /\ Len(y) = 16 /\ \A k \in 1..8 : y[k] = x[k]
       /\ \A k \in 1..8 : y[8 + k] = c[k]
  <2>1. InARow(OneWrite, x \o c, x, c)
    <3>1. x \in Seq(OneWrite) /\ c \in Seq(OneWrite)
      BY Zenon, <1>8, <1>10
    <3>. QED BY ONLY Zenon, <3>1, Joined
  <2>. QED BY <1>8, <1>10, <2>1 DEF InARow
<1>. HIDE DEF y
<1>. DEFINE z == y \o d
<1>12. /\ z \in Seq(OneWrite) /\ Len(z) = 22
       /\ \A k \in 1..16 : z[k] = y[k]
       /\ \A k \in 1..6 : z[16 + k] = d[k]
  <2>1. InARow(OneWrite, z, y, d)
    <3>1. y \in Seq(OneWrite) /\ d \in Seq(OneWrite)
      BY Zenon, <1>9, <1>11
    <3>. QED BY ONLY Zenon, <3>1, Joined
  <2>. HIDE DEF z
  <2>. QED BY <1>9, <1>11, <2>1 DEF InARow
<1>. HIDE DEF z
<1>13. s \in Seq(OneWrite) /\ Len(s) = 22
  BY <1>1, <1>12 DEF x, y, z
<1>14. /\ \A k \in 1..16 : s[k] = y[k]
       /\ \A k \in 1..6 : s[16 + k] = d[k]
  BY <1>1, <1>12 DEF x, y, z
<1>15. s[1] = Crt(17, 14) /\ \A k \in 1..7 : s[1 + k] = b[k]
  BY SMTT(30), <1>4, <1>10, <1>11, <1>14
<1>16. ASSUME NEW k \in 1..8 PROVE s[8 + k] = c[k]
  <2>1. y[8 + k] = c[k]
    BY Zenon, <1>11
  <2>2. 8 + k \in 1..16
    OBVIOUS
  <2>3. s[8 + k] = y[8 + k]
    BY Zenon, <1>14, <2>2
  <2>. QED BY <2>1, <2>3
<1>17. ASSUME NEW k \in 1..7
       PROVE  /\ s[1 + k].reg = Registers[1 + k] /\ s[1 + k].port = "crt"
              /\ s[1 + k].val = width_regs[w][k]
  <2>1. s[1 + k] = Crt(hor_regs[k], width_regs[w][k])
    BY <1>7, <1>15
  <2>2. /\ Crt(hor_regs[k], width_regs[w][k]).port = "crt"
        /\ Crt(hor_regs[k], width_regs[w][k]).reg = hor_regs[k]
        /\ Crt(hor_regs[k], width_regs[w][k]).val = width_regs[w][k]
        /\ Registers[1 + k] = hor_regs[k]
    BY ZenonT(30), <1>2, <1>5
  <2>. QED BY ONLY <2>1, <2>2
<1>18. ASSUME NEW k \in 1..8
       PROVE  /\ s[8 + k].reg = Registers[8 + k] /\ s[8 + k].port = "crt"
              /\ s[8 + k].val = height_regs[h][k]
  <2>1. s[8 + k] = Crt(ver_regs[k], height_regs[h][k])
    BY <1>8, <1>16
  <2>2. /\ Crt(ver_regs[k], height_regs[h][k]).port = "crt"
        /\ Crt(ver_regs[k], height_regs[h][k]).reg = ver_regs[k]
        /\ Crt(ver_regs[k], height_regs[h][k]).val = height_regs[h][k]
        /\ Registers[8 + k] = ver_regs[k]
    BY ZenonT(30), <1>2, <1>6
  <2>. QED BY ONLY <2>1, <2>2
<1>19. ASSUME NEW k \in 1..6
       PROVE  /\ s[16 + k].reg = Registers[16 + k]
              /\ s[16 + k].port = IF 16 + k <= 19 THEN "crt" ELSE "seq"
  <2>1. s[16 + k] = d[k]
    BY <1>14
  <2>2. \/ k = 1 /\ d[k].port = "crt" /\ d[k].reg = 8
        \/ k = 2 /\ d[k].port = "crt" /\ d[k].reg = 20
        \/ k = 3 /\ d[k].port = "crt" /\ d[k].reg = 23
        \/ k = 4 /\ d[k].port = "seq" /\ d[k].reg = 4
        \/ k = 5 /\ d[k].port = "seq" /\ d[k].reg = 1
        \/ k = 6 /\ d[k].port = "seq" /\ d[k].reg = 2
    BY <1>9
  <2>3. /\ Registers[17] = 8 /\ Registers[18] = 20 /\ Registers[19] = 23
        /\ Registers[20] = 4 /\ Registers[21] = 1 /\ Registers[22] = 2
    BY DEF Registers
  <2>. QED BY ONLY <2>1, <2>2, <2>3
<1>20. s[1].reg = Registers[1] /\ s[1].port = "crt" /\ s[1].val = 14
  <2>1. 17 \in 0..24 /\ 14 \in Nat /\ Registers[1] = 17
    BY DEF Registers
  <2>2. s[1] = Crt(17, 14)
    BY <1>15
  <2>3. Crt(17, 14).port = "crt" /\ Crt(17, 14).reg = 17 /\ Crt(17, 14).val = 14
    BY <1>2, <2>1
  <2>. QED BY ONLY <2>1, <2>2, <2>3
<1>21. s[22].val = 15
  <2>1. s[16 + 6] = d[6]
    BY <1>14
  <2>. QED BY <1>9, <2>1
<1>22. ASSUME NEW k \in 1..22
       PROVE  /\ s[k].reg = Registers[k]
              /\ s[k].port = IF k <= 19 THEN "crt" ELSE "seq"
  <2>1. CASE k = 1
    BY <1>20, <2>1
  <2>2. CASE k \in 2..8
    <3>1. k - 1 \in 1..7 /\ 1 + (k - 1) = k /\ k <= 19
      BY <2>2
    <3>2. s[1 + (k - 1)].reg = Registers[1 + (k - 1)] /\ s[1 + (k - 1)].port = "crt"
      BY <1>17, <3>1
    <3>. QED BY <3>1, <3>2
  <2>3. CASE k \in 9..16
    <3>1. k - 8 \in 1..8 /\ 8 + (k - 8) = k /\ k <= 19
      BY <2>3
    <3>2. s[8 + (k - 8)].reg = Registers[8 + (k - 8)] /\ s[8 + (k - 8)].port = "crt"
      BY <1>18, <3>1
    <3>. QED BY <3>1, <3>2
  <2>4. CASE k \in 17..22
    <3>1. k - 16 \in 1..6 /\ 16 + (k - 16) = k
      BY <2>4
    <3>2. /\ s[16 + (k - 16)].reg = Registers[16 + (k - 16)]
          /\ s[16 + (k - 16)].port = IF 16 + (k - 16) <= 19 THEN "crt" ELSE "seq"
      BY <1>19, <3>1
    <3>. QED BY <3>1, <3>2
  <2>. QED BY <2>1, <2>2, <2>3, <2>4
<1>23. ASSUME NEW k \in 1..22 PROVE s[k] \in OneWrite
  <2>1. k \in 1..Len(s)
    BY <1>13
  <2>. QED BY Zenon, <1>13, <2>1, ElementOfSeq
<1>24. Switched(s, w, h)
  BY Zenon, <1>13, <1>17, <1>18, <1>20, <1>21, <1>22, <1>23 DEF Switched
<1>. QED BY <1>24 DEF s

\* What the adapter's registers hold after a mode switch.
LEMMA RegistersAre ==
    ASSUME NEW w \in DOMAIN width_regs, NEW h \in DOMAIN height_regs, NEW chain4 \in BOOLEAN
    PROVE  LET a == Adapter(ModeSwitch(w, h, chain4))
               v == width_regs[w]
               u == height_regs[h]
           IN /\ a["crt"][0] = v[1] /\ a["crt"][1] = v[2] /\ a["crt"][2] = v[3]
              /\ a["crt"][4] = v[5] /\ a["crt"][\h13] = v[7]
              /\ a["crt"][6] = u[1] /\ a["crt"][7] = u[2] /\ a["crt"][9] = u[3]
              /\ a["crt"][\h10] = u[4] /\ a["crt"][\h12] = u[6] /\ a["crt"][\h15] = u[7]
              /\ a["seq"][2] = 15
<1>. DEFINE s == ModeSwitch(w, h, chain4)
            a == Adapter(s)
<1>1. Switched(s, w, h)
  BY SwitchIs
<1>. HIDE DEF s
<1>2. /\ Len(s) = 22 /\ Len(s) \in Nat
      /\ \A k \in 1..Len(s) : s[k] \in OneWrite
      /\ \A k \in 1..22 : s[k].reg = Registers[k]
      /\ \A k \in 1..22 : s[k].port = IF k <= 19 THEN "crt" ELSE "seq"
  BY <1>1 DEF Switched
<1>3. /\ \A j \in 2..12 : Registers[j] # 17
      /\ \A j \in 2..22, k \in 2..22 :
            (Registers[j] = Registers[k] /\ (k <= 19 <=> j <= 19)) => j = k
      /\ \A j \in 13..16 : Registers[j] > 7
  BY DEF Registers
<1>4. s[1].port = "crt" /\ s[1].reg = 17 /\ s[1].val < 128 /\ s[1].val = 14
  BY <1>1, <1>2 DEF Switched, Registers
<1>5. ASSUME NEW j \in (2..16) \cup {22}
      PROVE  a[s[j].port][Registers[j]] = s[j].val
  <2>1. j \in 1..Len(s) /\ j \in 2..22
    BY <1>2
  <2>2. ASSUME NEW k \in 1..Len(s), k > j
        PROVE  ~(s[k].port = s[j].port /\ s[k].reg = s[j].reg)
    <3>1. k \in 2..22 /\ k # j
      BY <1>2, <2>2
    <3>2. s[k].port = s[j].port => (k <= 19 <=> j <= 19)
      BY <1>2, <2>1, <3>1
    <3>3. s[k].reg = s[j].reg => Registers[j] = Registers[k]
      BY <1>2, <2>1, <3>1
    <3>. QED BY Zenon, <1>3, <2>1, <3>1, <3>2, <3>3
  <2>3. \/ s[j].reg > 7 \/ s[j].port = "seq"
        \/ \A k \in 1..j : (s[k].port = "crt" /\ s[k].reg = 17) => s[k].val < 128
    <3>1. CASE j \in 2..12
      <4>1. ASSUME NEW k \in 1..j, s[k].port = "crt", s[k].reg = 17 PROVE s[k].val < 128
        <5>1. k \in 1..22 /\ (k = 1 \/ k \in 2..12)
          BY <3>1
        <5>2. Registers[k] = 17
          BY <1>2, <4>1, <5>1
        <5>3. k = 1
          BY <1>3, <5>1, <5>2
        <5>. QED BY <1>4, <5>3
      <4>. QED BY <4>1
    <3>2. CASE j \in 13..16
      BY <1>2, <1>3, <2>1, <3>2
    <3>3. CASE j = 22
      BY <1>2, <3>3
    <3>. QED BY <3>1, <3>2, <3>3
  <2>4. a[s[j].port][s[j].reg] = s[j].val
    BY <1>2, <1>4, <2>1, <2>2, <2>3, StaysWritten
  <2>. QED BY <1>2, <2>1, <2>4
<1>. HIDE DEF a
<1>6. ASSUME NEW k \in 1..7 PROVE a["crt"][Registers[1 + k]] = width_regs[w][k]
  <2>1. 1 + k \in (2..16) \cup {22} /\ 1 + k \in 1..22 /\ 1 + k <= 19
    OBVIOUS
  <2>2. s[1 + k].val = width_regs[w][k] /\ s[1 + k].port = "crt"
    BY <1>1, <2>1 DEF Switched
  <2>. QED BY <1>5, <2>1, <2>2
<1>7. ASSUME NEW k \in 1..8, k # 5 PROVE a["crt"][Registers[8 + k]] = height_regs[h][k]
  <2>1. 8 + k \in (2..16) \cup {22} /\ 8 + k \in 1..22 /\ 8 + k <= 19
    OBVIOUS
  <2>2. s[8 + k].val = height_regs[h][k] /\ s[8 + k].port = "crt"
    BY <1>1, <2>1 DEF Switched
  <2>. QED BY <1>5, <2>1, <2>2
<1>8. a["seq"][2] = 15
  <2>1. 22 \in (2..16) \cup {22} /\ s[22].port = "seq" /\ s[22].val = 15 /\ Registers[22] = 2
    BY <1>1 DEF Switched, Registers
  <2>. QED BY <1>5, <2>1
<1>9. /\ Registers[1 + 1] = 0 /\ Registers[1 + 2] = 1 /\ Registers[1 + 3] = 2
      /\ Registers[1 + 5] = 4 /\ Registers[1 + 7] = 19
      /\ Registers[8 + 1] = 6 /\ Registers[8 + 2] = 7 /\ Registers[8 + 3] = 9
      /\ Registers[8 + 4] = 16 /\ Registers[8 + 6] = 18 /\ Registers[8 + 7] = 21
  BY DEF Registers
<1>10. /\ a["crt"][0] = width_regs[w][1] /\ a["crt"][1] = width_regs[w][2]
       /\ a["crt"][2] = width_regs[w][3] /\ a["crt"][4] = width_regs[w][5]
       /\ a["crt"][19] = width_regs[w][7]
  BY <1>6, <1>9
<1>11. /\ a["crt"][6] = height_regs[h][1] /\ a["crt"][7] = height_regs[h][2]
       /\ a["crt"][9] = height_regs[h][3] /\ a["crt"][16] = height_regs[h][4]
       /\ a["crt"][18] = height_regs[h][6] /\ a["crt"][21] = height_regs[h][7]
  BY <1>7, <1>9
<1>. QED BY <1>8, <1>10, <1>11 DEF a, s

\* The powers of two in a byte.
LEMMA PowersAre ==
    /\ Power(2, 0) = 1 /\ Power(2, 1) = 2 /\ Power(2, 2) = 4 /\ Power(2, 3) = 8
    /\ Power(2, 4) = 16 /\ Power(2, 5) = 32 /\ Power(2, 6) = 64 /\ Power(2, 7) = 128
<1>1. Power(2, 0) = 1 /\ \A n \in Nat : Power(2, n + 1) = 2 * Power(2, n)
  BY Zenon, Power2Is
<1>2. Power(2, 0 + 1) = 2
  BY <1>1
<1>3. Power(2, 1 + 1) = 4
  BY <1>1, <1>2
<1>4. Power(2, 2 + 1) = 8
  BY <1>1, <1>3
<1>5. Power(2, 3 + 1) = 16
  BY <1>1, <1>4
<1>6. Power(2, 4 + 1) = 32
  BY <1>1, <1>5
<1>7. Power(2, 5 + 1) = 64
  BY <1>1, <1>6
<1>8. Power(2, 6 + 1) = 128
  BY <1>1, <1>7
<1>. QED BY <1>1, <1>2, <1>3, <1>4, <1>5, <1>6, <1>7, <1>8

\* The widths' rows: so many columns, rows that far apart, blanking behind the
\* picture and retrace before the total.
LEMMA WidthsFit ==
    ASSUME NEW w \in DOMAIN width_regs
    PROVE  LET v == width_regs[w]
           IN /\ 4 * (v[2] + 1) = w /\ 8 * v[7] = w
              /\ v[2] < v[3] /\ v[3] <= v[5] /\ v[5] < v[1] + 5
<1>1. CASE w = 256
  BY <1>1 DEF width_regs
<1>2. CASE w = 320
  BY <1>2 DEF width_regs
<1>3. CASE w = 360
  BY <1>3 DEF width_regs
<1>4. CASE w = 376
  BY <1>4 DEF width_regs
<1>5. CASE w = 400
  BY <1>5 DEF width_regs
<1>6. w \in {256, 320, 360, 376, 400}
  BY DEF width_regs
<1>. QED BY <1>1, <1>2, <1>3, <1>4, <1>5, <1>6

\* What a height's row says of the picture's last line, of the blanking, the retrace
\* and the total: high bits are in registers 7 and 9.
LinesFit(u, h) ==
    LET High(bit1, bit2) == 256 * Bit(u[2], bit1) + 512 * bit2
        end == u[6] + High(1, Bit(u[2], 6))
        blank == u[7] + High(3, Bit(u[3], 5))
        retrace == u[4] + High(2, Bit(u[2], 7))
        total == u[1] + High(0, Bit(u[2], 5))
    IN /\ (end + 1) \div ((u[3] % 32) + 1) = h
       /\ end < blank /\ blank < total /\ end < retrace /\ retrace < total

\* The heights' rows: so many lines, blanking and retrace behind the picture and
\* before the total.
LEMMA HeightsFit ==
    ASSUME NEW h \in DOMAIN height_regs
    PROVE  LinesFit(height_regs[h], h)
<1>1. CASE h = 200
  BY <1>1, PowersAre DEF height_regs, Bit, LinesFit
<1>2. CASE h = 224
  BY <1>2, PowersAre DEF height_regs, Bit, LinesFit
<1>3. CASE h = 240
  BY <1>3, PowersAre DEF height_regs, Bit, LinesFit
<1>4. CASE h = 256
  BY <1>4, PowersAre DEF height_regs, Bit, LinesFit
<1>5. CASE h = 270
  BY <1>5, PowersAre DEF height_regs, Bit, LinesFit
<1>6. CASE h = 300
  BY <1>6, PowersAre DEF height_regs, Bit, LinesFit
<1>7. CASE h = 360
  BY <1>7, PowersAre DEF height_regs, Bit, LinesFit
<1>8. CASE h = 400
  BY <1>8, PowersAre DEF height_regs, Bit, LinesFit
<1>9. CASE h = 480
  BY <1>9, PowersAre DEF height_regs, Bit, LinesFit
<1>10. CASE h = 564
  BY <1>10, PowersAre DEF height_regs, Bit, LinesFit
<1>11. CASE h = 600
  BY <1>11, PowersAre DEF height_regs, Bit, LinesFit
<1>12. h \in {200, 224, 240, 256, 270, 300, 360, 400, 480, 564, 600}
  BY DEF height_regs
<1>. QED BY <1>1, <1>2, <1>3, <1>4, <1>5, <1>6, <1>7, <1>8, <1>9, <1>10, <1>11, <1>12

\* ModeAsAsked, for all sizes: a known mode that fits shows what was asked for, and
\* every other is refused without a write (vga.c:89-222).
THEOREM ModesAreShown == Spec => []ModeAsAsked
<1>1. IInv => ModeAsAsked
  <2>. SUFFICES ASSUME IInv, After("mode") PROVE ModeAsAsked
    BY DEF ModeAsAsked
  <2>. DEFINE w == job.w
              h == job.h
              known == w \in DOMAIN width_regs /\ h \in DOMAIN height_regs
              fits == job.chain4 => w * h <= 65536
              a == Adapter(out)["crt"]
              v == width_regs[w]
              u == height_regs[h]
  <2>1. out = init_graph_vga(w, h, job.chain4) /\ job.chain4 \in BOOLEAN
    BY DEF IInv, Answered, Asked, After
  <2>2. CASE ~(known /\ fits)
    <3>1. out = <<>>
      BY <2>1, <2>2 DEF init_graph_vga
    <3>. QED BY <2>2, <3>1 DEF ModeAsAsked
  <2>3. CASE known /\ fits
    <3>1. out = ModeSwitch(w, h, job.chain4)
      BY <2>1, <2>3 DEF init_graph_vga
    <3>2. out # <<>>
      <4>1. Switched(out, w, h)
        BY <2>1, <2>3, <3>1, SwitchIs
      <4>2. Len(out) = 22
        BY <4>1 DEF Switched
      <4>3. Len(<<>>) # 22
        OBVIOUS
      <4>. QED BY <4>2, <4>3
    <3>3. /\ a[0] = v[1] /\ a[1] = v[2] /\ a[2] = v[3] /\ a[4] = v[5] /\ a[\h13] = v[7]
          /\ a[6] = u[1] /\ a[7] = u[2] /\ a[9] = u[3]
          /\ a[\h10] = u[4] /\ a[\h12] = u[6] /\ a[\h15] = u[7]
          /\ Adapter(out)["seq"][2] = 15
      BY <2>1, <2>3, <3>1, RegistersAre
    <3>4. /\ 4 * (v[2] + 1) = w /\ 8 * v[7] = w
          /\ v[2] < v[3] /\ v[3] <= v[5] /\ v[5] < v[1] + 5
      BY <2>3, WidthsFit
    <3>5. LinesFit(u, h)
      BY <2>3, HeightsFit
    <3>. HIDE DEF a, v, u
    <3>6. /\ 4 * (a[1] + 1) = w /\ 8 * a[\h13] = w
          /\ a[1] < a[2] /\ a[2] <= a[4] /\ a[4] < a[0] + 5
      BY ONLY <3>3, <3>4
    <3>7. LET High(bit1, bit2) == 256 * Bit(a[7], bit1) + 512 * bit2
              end == a[\h12] + High(1, Bit(a[7], 6))
              blank == a[\h15] + High(3, Bit(a[9], 5))
              retrace == a[\h10] + High(2, Bit(a[7], 7))
              total == a[6] + High(0, Bit(a[7], 5))
          IN /\ (end + 1) \div ((a[9] % 32) + 1) = h
             /\ end < blank /\ blank < total /\ end < retrace /\ retrace < total
      BY ONLY <3>3, <3>5 DEF LinesFit
    <3>8. Adapter(out)["seq"][2] = 15
      BY ONLY <3>3
    <3>. QED BY ONLY SMTT(30), <2>3, <3>2, <3>6, <3>7, <3>8 DEF ModeAsAsked, a
  <2>. QED BY <2>2, <2>3
<1>. QED BY Inductive, <1>1, PTL

-----------------------------------------------------------------------------
(* Numbers of 64 bits *)

\* Powers of two are in the order of their exponents.
LEMMA PowersGrow ==
    ASSUME NEW a \in Nat, NEW b \in Nat
    PROVE  a < b => 2 * Power(2, a) <= Power(2, b)
<1>. DEFINE P(m) == Power(2, m)
            T == {m \in Nat : 2 * P(a) <= P((a + 1) + m)}
<1>1. \A m \in Nat : P(m) \in Nat \ {0} /\ P(m + 1) = 2 * P(m)
  BY Zenon, Power2Is
<1>. HIDE DEF P
<1>2. 0 \in T
  BY <1>1
<1>3. ASSUME NEW m \in Nat, m \in T PROVE m + 1 \in T
  <2>1. 2 * P(a) <= P((a + 1) + m)
    BY <1>3
  <2>2. P(((a + 1) + m) + 1) = 2 * P((a + 1) + m) /\ P((a + 1) + m) \in Nat
    BY <1>1
  <2>3. ((a + 1) + m) + 1 = (a + 1) + (m + 1)
    OBVIOUS
  <2>4. P((a + 1) + (m + 1)) = 2 * P((a + 1) + m)
    BY <2>2, <2>3
  <2>5. P(a) \in Nat
    BY <1>1
  <2>. QED BY <2>1, <2>2, <2>4, <2>5
<1>4. Nat \subseteq T
  <2>. HIDE DEF T
  <2>. QED BY <1>2, <1>3, Induction
<1>. SUFFICES ASSUME a < b PROVE 2 * P(a) <= P(b)
  BY DEF P
<1>5. b - a - 1 \in T /\ (a + 1) + (b - a - 1) = b
  <2>1. b - a - 1 \in Nat /\ (a + 1) + (b - a - 1) = b
    OBVIOUS
  <2>. HIDE DEF T
  <2>. QED BY <1>4, <2>1
<1>6. 2 * P(a) <= P((a + 1) + (b - a - 1))
  BY <1>5
<1>. QED BY <1>5, <1>6

\* The divisor is doubled until it reaches half of the dividend.
Doubled(n, k) ==
    /\ k \in Nat
    /\ n \div 2 <= 10 * Power(2, k)
    /\ k = 0 \/ (k - 1 \in Nat /\ 10 * Power(2, k - 1) < n \div 2)
Scaled(k) == [X |-> 10 * Power(2, k), per |-> Power(2, k)]

\* That is what the first loop of div64_slow does.
LEMMA DoubleIs ==
    ASSUME LongBits \in Nat, NEW n \in Nat, n < Power(2, LongBits)
    PROVE  \E k \in Nat : Doubled(n, k) /\ Double(n, 10) = Scaled(k)
<1>. DEFINE P(m) == Power(2, m)
            h == n \div 2
            Low(k) == k = 0 \/ (k - 1 \in Nat /\ 10 * P(k - 1) < h)
            once == [i \in 1..LongBits |-> [x \in [X : Nat, per : Nat] |->
                       IF x.X < n \div 2 THEN [X |-> 2 * x.X, per |-> 2 * x.per] ELSE x]]
            first == [X |-> 10, per |-> 1]
            inv == [i \in 0..LongBits |->
                      {x \in [X : Nat, per : Nat] :
                         \E k \in 0..i : /\ x = Scaled(k) /\ Low(k)
                                         /\ k = i \/ h <= 10 * P(k)}]
<1>1. \A m \in Nat : P(m) \in Nat \ {0} /\ P(m + 1) = 2 * P(m)
  BY Zenon, Power2Is
<1>0. P(0) = 1
  BY Power2Is
<1>2. h \in Nat /\ 2 * h <= n
  BY DivIs
<1>3. Double(n, 10) = Loop(once, first, LongBits)
  BY DEF Double
<1>s. ASSUME NEW k \in Nat
      PROVE  /\ Scaled(k) \in [X : Nat, per : Nat] /\ Scaled(k).X = 10 * P(k)
             /\ Scaled(k).per = P(k)
             /\ Scaled(k + 1) = [X |-> 2 * Scaled(k).X, per |-> 2 * Scaled(k).per]
  <2>. DEFINE p == P(k)
  <2>1. p \in Nat /\ Power(2, k) = p /\ Power(2, k + 1) = 2 * p
    BY <1>1
  <2>. HIDE DEF p, P
  <2>2. 10 * p \in Nat /\ 10 * (2 * p) = 2 * (10 * p)
    BY <2>1
  <2>3. Scaled(k) = [X |-> 10 * p, per |-> p] /\ Scaled(k + 1) = [X |-> 10 * (2 * p), per |-> 2 * p]
    BY <2>1 DEF Scaled
  <2>. QED BY <2>1, <2>2, <2>3 DEF p
<1>4. first \in inv[0]
  <2>1. first = Scaled(0)
    BY <1>0 DEF Scaled
  <2>2. Scaled(0) \in [X : Nat, per : Nat] /\ Low(0) /\ 0 \in 0..0 /\ 0 \in 0..LongBits
    <3>1. Scaled(0) \in [X : Nat, per : Nat]
      BY <1>s
    <3>. QED BY <3>1
  <2>. QED BY <2>1, <2>2
<1>5. ASSUME NEW i \in 1..LongBits, NEW x \in inv[i - 1] PROVE once[i][x] \in inv[i]
  <2>1. i - 1 \in 0..LongBits /\ i \in 0..LongBits
    OBVIOUS
  <2>2. PICK k \in 0..(i - 1) : /\ x = Scaled(k) /\ Low(k)
                                /\ k = i - 1 \/ h <= 10 * P(k)
    BY <2>1
  <2>3. k \in Nat /\ k + 1 \in Nat /\ k \in 0..i /\ k + 1 \in 0..i /\ (k + 1) - 1 = k
    OBVIOUS
  <2>4. x \in [X : Nat, per : Nat] /\ x.X = 10 * P(k)
    BY <1>s, <2>2, <2>3
  <2>5. CASE x.X < h
    <3>1. once[i][x] = Scaled(k + 1)
      BY <1>s, <2>2, <2>3, <2>4, <2>5
    <3>2. k = i - 1
      <4>1. ~(h <= x.X)
        BY <1>2, <2>4, <2>5
      <4>2. ~(h <= 10 * P(k))
        BY Zenon, <2>4, <4>1
      <4>. QED BY Zenon, <2>2, <4>2
    <3>3. Low(k + 1) /\ k + 1 = i
      BY <2>3, <2>4, <2>5, <3>2
    <3>4. Scaled(k + 1) \in [X : Nat, per : Nat]
      BY <1>s, <2>3
    <3>. HIDE DEF once, Low, P, h
    <3>. QED BY <2>1, <2>3, <3>1, <3>3, <3>4
  <2>6. CASE ~(x.X < h)
    <3>1. once[i][x] = x
      BY <2>4, <2>6
    <3>2. h <= 10 * P(k)
      <4>1. h <= x.X
        BY <1>2, <2>4, <2>6
      <4>. QED BY Zenon, <2>4, <4>1
    <3>. HIDE DEF once, Low, P, h
    <3>. QED BY <2>1, <2>2, <2>3, <2>4, <3>1, <3>2
  <2>. QED BY <2>5, <2>6
<1>6. Loop(once, first, LongBits) \in inv[LongBits]
  <2>. HIDE DEF once, first, inv
  <2>. QED BY <1>4, <1>5, LoopKeeps
<1>7. PICK k \in 0..LongBits : /\ Double(n, 10) = Scaled(k) /\ Low(k)
                               /\ k = LongBits \/ h <= 10 * P(k)
  BY <1>3, <1>6
<1>8. h <= 10 * P(k)
  <2>1. CASE k = LongBits
    <3>1. P(k) \in Nat /\ n < P(k)
      BY <1>1, <2>1
    <3>. DEFINE p == P(k)
    <3>2. p \in Nat /\ n < p
      BY <3>1
    <3>. HIDE DEF p, h
    <3>3. h <= 10 * p
      BY <1>2, <3>2
    <3>. QED BY <3>3 DEF p
  <2>. QED BY <1>7, <2>1
<1>. QED BY <1>7, <1>8 DEF Doubled

\* What is lost of a dividend that is 20 times the last power of two, or one more.
Slip(n, k) == n - 20 * Power(2, k) \in {0, 1}
Loss(n, k) == IF Slip(n, k) THEN 5 ELSE 0

\* The second loop of div64_slow: it is through; it has the divisor times the j-th power
\* of two to take away next; or it has gone past the divisor, to half of it.
Division4 == [A : Nat, X : Nat, per : Nat, q : Nat]
Divided(n, l) == {x \in Division4 : x.A < 10 /\ 10 * x.q + x.A = n - l}
Dividing(n, l, p) ==
    {x \in Division4 : /\ x.X = 10 * p /\ x.per = p /\ x.A <= 20 * p + 1
                       /\ 10 * x.q + x.A = n
                       /\ \/ l = 5 /\ x.A - 20 * p \in {0, 1}
                          \/ l = 0 /\ x.A - 20 * p \notin {0, 1}}
Spilling(n, l) ==
    {x \in Division4 : /\ x.X = 5 /\ x.per = 0 /\ x.A \in {10, 11}
                       /\ 10 * x.q + x.A = n /\ l = 5}
Away(x) == LET fits == x.A >= x.X
           IN IF x.A < 10 THEN x
              ELSE [A |-> IF fits THEN x.A - x.X ELSE x.A, X |-> x.X \div 2,
                    per |-> x.per \div 2, q |-> IF fits THEN x.q + x.per ELSE x.q]

\* What one round does.
LEMMA AwayIs ==
    ASSUME NEW x \in Division4
    PROVE  /\ Away(x) \in Division4
           /\ x.A < 10 => Away(x) = x
           /\ x.A >= 10 => Away(x).X = x.X \div 2 /\ Away(x).per = x.per \div 2
           /\ (x.A >= 10 /\ x.A >= x.X)
              => Away(x).A = x.A - x.X /\ Away(x).q = x.q + x.per
           /\ (x.A >= 10 /\ x.A < x.X) => Away(x).A = x.A /\ Away(x).q = x.q
<1>1. x.A \in Nat /\ x.X \in Nat /\ x.per \in Nat /\ x.q \in Nat
  BY DEF Division4
<1>2. CASE x.A < 10
  BY <1>1, <1>2 DEF Away
<1>3. CASE x.A >= 10
  <2>1. ~(x.A < 10) /\ x.X \div 2 \in Nat /\ x.per \div 2 \in Nat
    BY <1>1, <1>3
  <2>2. CASE x.A >= x.X
    <3>1. x.A - x.X \in Nat /\ x.q + x.per \in Nat /\ ~(x.A < x.X)
      BY <1>1, <2>2
    <3>2. Away(x) = [A |-> x.A - x.X, X |-> x.X \div 2, per |-> x.per \div 2,
                     q |-> x.q + x.per]
      BY <2>1, <2>2 DEF Away
    <3>. QED BY <2>1, <3>1, <3>2 DEF Division4
  <2>3. CASE x.A < x.X
    <3>1. ~(x.A >= x.X)
      BY <1>1, <2>3
    <3>2. Away(x) = [A |-> x.A, X |-> x.X \div 2, per |-> x.per \div 2, q |-> x.q]
      BY <2>1, <3>1 DEF Away
    <3>. QED BY <1>1, <2>1, <3>1, <3>2 DEF Division4
  <2>. QED BY <1>1, <2>2, <2>3
<1>. QED BY <1>1, <1>2, <1>3

\* While the power is above one, a round halves it.
LEMMA AwayAbove ==
    ASSUME NEW n \in Nat, NEW l, NEW p \in Nat \ {0}, NEW x \in Dividing(n, l, 2 * p)
    PROVE  Away(x) \in Divided(n, l) \cup Dividing(n, l, p)
<1>. DEFINE a == x.A
            q == x.q
            y == Away(x)
<1>1. /\ x \in Division4 /\ x.X = 20 * p /\ x.per = 2 * p /\ a <= 40 * p + 1
      /\ 10 * q + a = n /\ a \in Nat /\ q \in Nat
      /\ \/ l = 5 /\ a - 40 * p \in {0, 1}
         \/ l = 0 /\ a - 40 * p \notin {0, 1}
  BY DEF Dividing, Division4
<1>2. CASE a < 10
  <2>1. l = 0 /\ y = x
    BY <1>1, <1>2, AwayIs
  <2>. QED BY <1>1, <1>2, <2>1 DEF Divided
<1>3. CASE a >= 10
  <2>1. y \in Division4 /\ y.X = 10 * p /\ y.per = p
    BY <1>1, <1>3, AwayIs
  <2>2. CASE a >= 20 * p
    <3>1. y.A = a - 20 * p /\ y.q = q + 2 * p
      BY <1>1, <1>3, <2>2, AwayIs
    <3>. QED BY <1>1, <2>1, <2>2, <3>1 DEF Dividing
  <2>3. CASE a < 20 * p
    <3>1. y.A = a /\ y.q = q
      BY <1>1, <1>3, <2>3, AwayIs
    <3>. QED BY <1>1, <2>1, <2>3, <3>1 DEF Dividing
  <2>. QED BY <1>1, <2>2, <2>3
<1>. QED BY <1>1, <1>2, <1>3

\* At one, what is left is below the divisor, or the next round takes half of it.
LEMMA AwayLast ==
    ASSUME NEW n \in Nat, NEW l, NEW x \in Dividing(n, l, 1)
    PROVE  Away(x) \in Divided(n, l) \cup Spilling(n, l)
<1>. DEFINE a == x.A
            q == x.q
            y == Away(x)
<1>1. /\ x \in Division4 /\ x.X = 10 /\ x.per = 1 /\ a <= 21
      /\ 10 * q + a = n /\ a \in Nat /\ q \in Nat
      /\ \/ l = 5 /\ a \in {20, 21}
         \/ l = 0 /\ a \notin {20, 21}
  BY DEF Dividing, Division4
<1>2. CASE a < 10
  <2>1. l = 0 /\ y = x
    BY <1>1, <1>2, AwayIs
  <2>. QED BY <1>1, <1>2, <2>1 DEF Divided
<1>3. CASE a >= 10
  <2>1. y \in Division4 /\ y.X = 5 /\ y.per = 0
    BY <1>1, <1>3, AwayIs
  <2>2. y.A = a - 10 /\ y.q = q + 1
    BY <1>1, <1>3, AwayIs
  <2>3. 10 * y.q + y.A = n /\ a \in 10..21
    <3>. DEFINE r == y.q
                b == y.A
    <3>1. r = q + 1 /\ b = a - 10
      BY <2>2
    <3>. HIDE DEF a, q, r, b
    <3>2. 10 * r + b = n /\ a \in 10..21
      BY ONLY <1>1, <1>3, <3>1, n \in Nat
    <3>. QED BY <3>2 DEF r, b
  <2>4. CASE a \in {20, 21}
    <3>1. l = 5 /\ y.A \in {10, 11}
      BY <1>1, <2>2, <2>4
    <3>. QED BY <2>1, <2>3, <3>1 DEF Spilling
  <2>5. CASE a \notin {20, 21}
    <3>1. l = 0
      BY Zenon, <1>1, <2>5
    <3>2. y.A < 10 /\ n - l = n
      BY <2>2, <2>3, <2>5, <3>1
    <3>. QED BY <2>1, <2>3, <3>2 DEF Divided
  <2>. QED BY Zenon, <2>4, <2>5
<1>. QED BY <1>1, <1>2, <1>3

\* After that it is through.
LEMMA AwaySpilled ==
    ASSUME NEW n \in Nat, NEW l, NEW x \in Spilling(n, l)
    PROVE  Away(x) \in Divided(n, l)
<1>. DEFINE a == x.A
            q == x.q
            y == Away(x)
<1>1. /\ x \in Division4 /\ x.X = 5 /\ x.per = 0 /\ a \in {10, 11}
      /\ 10 * q + a = n /\ q \in Nat /\ l = 5
  BY DEF Spilling, Division4
<1>2. a \in Nat /\ a >= 10 /\ a >= x.X
  BY <1>1
<1>3. y \in Division4 /\ y.A = a - 5 /\ y.q = q + 0
  BY <1>1, <1>2, AwayIs
<1>4. y.A < 10 /\ 10 * y.q + y.A = n - l
  <2>. DEFINE r == y.q
              b == y.A
  <2>1. r = q + 0 /\ b = a - 5
    BY <1>3
  <2>. HIDE DEF a, q, r, b
  <2>2. b < 10 /\ 10 * r + b = n - 5
    BY ONLY <1>1, <1>2, <2>1, n \in Nat
  <2>. QED BY <1>1, <2>2 DEF r, b
<1>. QED BY <1>3, <1>4 DEF Divided


\* There are rounds enough for that.
LEMMA RoundsSuffice ==
    ASSUME LongBits \in Nat, NEW n \in Nat, n < Power(2, LongBits), n >= 10,
           NEW k, Doubled(n, k)
    PROVE  k \in Nat /\ k + 2 \in 0..LongBits
<1>. DEFINE P(m) == Power(2, m)
            h == n \div 2
<1>1. \A m \in Nat : P(m) \in Nat \ {0} /\ P(m + 1) = 2 * P(m)
  BY Zenon, Power2Is
<1>2. /\ k \in Nat /\ (k = 0 \/ (k - 1 \in Nat /\ 10 * P(k - 1) < h))
      /\ h \in Nat /\ 2 * h <= n
  BY DivIs DEF Doubled
<1>k. k \in Nat
  BY Zenon DEF Doubled
<1>. HIDE DEF h
<1>3. 8 * P(k) <= n
  <2>1. CASE k = 0
    BY <2>1, Power2Is
  <2>2. CASE k - 1 \in Nat /\ 10 * P(k - 1) < h
    <3>. DEFINE p == P(k - 1)
    <3>1. p \in Nat /\ P((k - 1) + 1) = 2 * p
      <4>. HIDE DEF P
      <4>. QED BY <1>1, <2>2
    <3>2. (k - 1) + 1 = k
      BY <1>k
    <3>3. P(k) = 2 * p /\ 10 * p < h
      BY <2>2, <3>1, <3>2
    <3>. HIDE DEF p, P
    <3>. QED BY <1>2, <3>1, <3>3
  <2>. QED BY Zenon, <1>2, <2>1, <2>2
<1>4. P(k + 3) = 8 * P(k)
  <2>. HIDE DEF P
  <2>1. /\ k + 1 \in Nat /\ k + 2 \in Nat /\ (k + 1) + 1 = k + 2 /\ (k + 2) + 1 = k + 3
        /\ k \in Nat
    BY ONLY <1>k
  <2>2. P(k + 1) = 2 * P(k) /\ P(k + 2) = 2 * P(k + 1) /\ P(k + 3) = 2 * P(k + 2)
        /\ P(k) \in Nat
    BY <1>1, <2>1
  <2>. QED BY <2>2
<1>5. ~(LongBits <= k + 3)
  <2>. SUFFICES ASSUME LongBits <= k + 3 PROVE FALSE
    OBVIOUS
  <2>1. k + 3 \in Nat
    BY ONLY <1>k
  <2>2. LongBits < k + 3 => 2 * P(LongBits) <= P(k + 3)
    BY <2>1, PowersGrow
  <2>3. P(LongBits) \in Nat /\ P(k + 3) \in Nat /\ n < P(LongBits) /\ P(k + 3) <= n
    <3>1. P(LongBits) \in Nat /\ P(k + 3) \in Nat
      BY <2>1, Power2Is
    <3>. QED BY <3>1, <1>3, <1>4
  <2>. HIDE DEF P
  <2>4. LongBits = k + 3 \/ LongBits < k + 3
    BY ONLY <1>k, LongBits \in Nat, LongBits <= k + 3
  <2>. QED BY <2>2, <2>3, <2>4
<1>6. k + 2 \in 0..LongBits
  BY ONLY <1>k, <1>5, LongBits \in Nat
<1>. QED BY <1>k, <1>6

\* The second loop of div64_slow divides, but for what is lost.
LEMMA SubtractIs ==
    ASSUME LongBits \in Nat, NEW n \in Nat, n < Power(2, LongBits), NEW k, Doubled(n, k)
    PROVE  Subtract(n, 10, 10 * Power(2, k), Power(2, k)) \in Divided(n, Loss(n, k))
<1>. DEFINE P(m) == Power(2, m)
            l == Loss(n, k)
            D == Divided(n, l)
            once == [i \in 1..LongBits |-> [x \in [A : Nat, X : Nat, per : Nat, q : Nat] |->
                       LET fits == x.A >= x.X
                       IN IF x.A < 10 THEN x
                          ELSE [A |-> IF fits THEN x.A - x.X ELSE x.A, X |-> x.X \div 2,
                                per |-> x.per \div 2,
                                q |-> IF fits THEN x.q + x.per ELSE x.q]]]
            first == [A |-> n, X |-> 10 * P(k), per |-> P(k), q |-> 0]
            end == Loop(once, first, LongBits)
<1>1. \A m \in Nat : P(m) \in Nat \ {0} /\ P(m + 1) = 2 * P(m)
  BY Zenon, Power2Is
<1>2. Subtract(n, 10, 10 * P(k), P(k)) = end
  BY DEF Subtract
<1>3. \A i \in 1..LongBits : \A x \in Division4 : once[i][x] = Away(x)
  BY DEF Away, Division4
<1>. HIDE DEF once, end
<1>4. k \in Nat /\ n \div 2 <= 10 * P(k)
  BY DEF Doubled
<1>5. P(k) \in Nat /\ n <= 20 * P(k) + 1
  <2>. DEFINE p == P(k)
              h == n \div 2
  <2>1. p \in Nat /\ h \in Nat /\ n <= 2 * h + 1 /\ h <= 10 * p
    <3>1. p \in Nat
      BY <1>1, <1>4
    <3>2. h \in Nat /\ n <= 2 * h + 1
      BY ONLY n \in Nat
    <3>. QED BY <1>4, <3>1, <3>2
  <2>. HIDE DEF p, h
  <2>2. n <= 20 * p + 1
    BY <2>1
  <2>. QED BY <2>1, <2>2 DEF p
<1>6. l = IF n - 20 * P(k) \in {0, 1} THEN 5 ELSE 0
  BY DEF Loss, Slip
<1>7. \A x \in D : Away(x) = x
  <2>1. D \subseteq Division4 /\ \A x \in D : x.A < 10
    BY DEF Divided
  <2>. HIDE DEF D
  <2>. QED BY <2>1, AwayIs
<1>8. first \in Dividing(n, l, P(k))
  <2>. DEFINE p == P(k)
  <2>1. first = [A |-> n, X |-> 10 * p, per |-> p, q |-> 0] /\ p \in Nat /\ n <= 20 * p + 1
    BY <1>5
  <2>2. \/ l = 5 /\ n - 20 * p \in {0, 1}
        \/ l = 0 /\ n - 20 * p \notin {0, 1}
    BY <1>6
  <2>. HIDE DEF p, l, first
  <2>3. first \in Division4 /\ first.A = n /\ first.X = 10 * p /\ first.per = p /\ first.q = 0
    BY <2>1 DEF Division4
  <2>4. 10 * first.q + first.A = n
    BY <2>3
  <2>5. first \in Dividing(n, l, p)
    BY <2>1, <2>2, <2>3, <2>4 DEF Dividing
  <2>. QED BY <2>5 DEF p
<1>9. CASE n < 10
  <2>1. first \in D
    <3>1. first.A = n /\ first \in Division4 /\ 10 * first.q + first.A = n /\ l \in {0, 5}
          /\ (l = 5 => n - 20 * P(k) \in {0, 1})
      <4>1. first.A = n
        OBVIOUS
      <4>. HIDE DEF l, first
      <4>2. first \in Division4 /\ 10 * first.q + first.A = n
        BY <1>8 DEF Dividing
      <4>3. l \in {0, 5} /\ (l = 5 => n - 20 * P(k) \in {0, 1})
        BY ONLY <1>6
      <4>. QED BY Zenon, <4>1, <4>2, <4>3
    <3>2. P(k) >= 1
      BY <1>1, <1>4
    <3>3. l = 0
      <4>. HIDE DEF l, P
      <4>. QED BY <1>5, <1>9, <3>1, <3>2
    <3>. HIDE DEF l, first
    <3>. QED BY <1>9, <3>1, <3>3 DEF Divided
  <2>. DEFINE inv == [i \in 0..LongBits |-> D]
  <2>2. ASSUME NEW i \in 1..LongBits, NEW x \in inv[i - 1] PROVE once[i][x] \in inv[i]
    <3>1. i - 1 \in 0..LongBits /\ i \in 0..LongBits
      OBVIOUS
    <3>2. x \in D /\ x \in Division4
      BY <3>1 DEF Divided
    <3>3. once[i][x] = x
      <4>. HIDE DEF D
      <4>. QED BY <1>3, <1>7, <3>2
    <3>. HIDE DEF D
    <3>. QED BY <3>1, <3>2, <3>3
  <2>3. first \in inv[0]
    BY <2>1
  <2>4. end \in inv[LongBits]
    <3>. HIDE DEF inv, first
    <3>. QED BY <2>2, <2>3, LoopKeeps DEF end
  <2>. QED BY <1>2, <2>4
<1>10. CASE n >= 10
  <2>. DEFINE inv == [i \in 0..LongBits |->
                        D \cup (IF i <= k THEN Dividing(n, l, P(k - i))
                                ELSE IF i = k + 1 THEN Spilling(n, l) ELSE {})]
  <2>1. k \in Nat /\ k + 2 \in 0..LongBits
    BY <1>10, RoundsSuffice
  <2>2. first \in inv[0]
    <3>1. 0 \in 0..LongBits /\ 0 <= k /\ k - 0 = k
      BY <2>1
    <3>. HIDE DEF first, D, l, P
    <3>. QED BY <1>8, <3>1
  <2>3. ASSUME NEW i \in 1..LongBits, NEW x \in inv[i - 1] PROVE once[i][x] \in inv[i]
    <3>. DEFINE j == i - 1
    <3>1. j \in 0..LongBits /\ i \in 0..LongBits /\ i = j + 1
      OBVIOUS
    <3>2. x \in D \/ (j <= k /\ x \in Dividing(n, l, P(k - j)))
                  \/ (j = k + 1 /\ x \in Spilling(n, l))
      <4>. HIDE DEF D, l, P
      <4>. QED BY <3>1
    <3>3. x \in Division4
      BY <3>2 DEF Divided, Dividing, Spilling
    <3>4. once[i][x] = Away(x)
      BY <1>3, <3>3
    <3>. HIDE DEF D, l, P, j
    <3>5. CASE x \in D
      <4>1. Away(x) = x
        BY <1>7, <3>5
      <4>. QED BY <3>1, <3>4, <3>5, <4>1
    <3>6. CASE j < k /\ x \in Dividing(n, l, P(k - j))
      <4>1. k - i \in Nat /\ k - j = (k - i) + 1 /\ i <= k
        BY <2>1, <3>1, <3>6
      <4>2. P(k - i) \in Nat \ {0} /\ P(k - j) = 2 * P(k - i)
        BY <1>1, <4>1
      <4>3. Away(x) \in Divided(n, l) \cup Dividing(n, l, P(k - i))
        BY <3>6, <4>2, AwayAbove
      <4>. QED BY <3>1, <3>4, <4>1, <4>3 DEF D
    <3>7. CASE j = k /\ x \in Dividing(n, l, P(k - j))
      <4>1. k - j = 0 /\ P(0) = 1 /\ ~(i <= k) /\ i = k + 1
        BY <2>1, <3>1, <3>7, Power2Is DEF P
      <4>2. Away(x) \in Divided(n, l) \cup Spilling(n, l)
        BY <3>7, <4>1, AwayLast
      <4>. QED BY <3>1, <3>4, <4>1, <4>2 DEF D
    <3>8. CASE j = k + 1 /\ x \in Spilling(n, l)
      <4>1. Away(x) \in Divided(n, l)
        BY <3>8, AwaySpilled
      <4>. QED BY <3>1, <3>4, <4>1 DEF D
    <3>. QED BY <2>1, <3>1, <3>2, <3>5, <3>6, <3>7, <3>8
  <2>4. end \in inv[LongBits]
    <3>. HIDE DEF inv, first
    <3>. QED BY <2>2, <2>3, LoopKeeps DEF end
  <2>5. ~(LongBits <= k) /\ LongBits # k + 1
    BY <2>1
  <2>6. end \in D
    <3>. HIDE DEF D, l, P
    <3>. QED BY <2>4, <2>5
  <2>. QED BY <1>2, <2>6
<1>. QED BY <1>9, <1>10

\* As PowersGrow, for the orders themselves.
LEMMA PowersOrder ==
    ASSUME NEW a \in Nat, NEW b \in Nat
    PROVE  /\ Power(2, a) <= Power(2, b) => a <= b
           /\ Power(2, a) < Power(2, b) => a < b
<1>. DEFINE p == Power(2, a)
            q == Power(2, b)
<1>1. p \in Nat \ {0} /\ q \in Nat \ {0}
  BY Power2Is
<1>2. a < b => 2 * p <= q
  BY PowersGrow
<1>3. b < a => 2 * q <= p
  BY PowersGrow
<1>4. a = b => p = q
  OBVIOUS
<1>. HIDE DEF p, q
<1>5. p <= q => a <= b
  BY <1>1, <1>3
<1>6. p < q => a < b
  BY <1>1, <1>3, <1>4
<1>. QED BY <1>5, <1>6 DEF p, q

\* The numbers the slow division fails at are those of the first loop.
LEMMA SlipsAre ==
    ASSUME LongBits \in Nat, NEW n \in Nat, n < Power(2, LongBits), NEW k, Doubled(n, k)
    PROVE  Slips(n) <=> Slip(n, k)
<1>. DEFINE P(m) == Power(2, m)
<1>1. \A m \in Nat : P(m) \in Nat \ {0} /\ P(m + 1) = 2 * P(m)
  BY Zenon, Power2Is
<1>k. k \in Nat
  BY Zenon DEF Doubled
<1>2. n \div 2 <= 10 * P(k)
  BY Zenon DEF Doubled
<1>3. k = 0 \/ (k - 1 \in Nat /\ 10 * P(k - 1) < n \div 2)
  BY Zenon DEF Doubled
<1>4. ASSUME Slip(n, k) PROVE Slips(n)
  <2>. DEFINE p == P(k)
  <2>1. p \in Nat \ {0} /\ P(k + 1) = 2 * p
    BY <1>1, <1>k
  <2>2. n - 20 * p \in {0, 1}
    BY <1>4 DEF Slip
  <2>3. n >= 10
    <3>. HIDE DEF p
    <3>. QED BY <2>1, <2>2
  <2>4. k + 2 \in 0..LongBits
    BY <2>3, RoundsSuffice
  <2>5. k + 1 \in 1..LongBits
    BY <1>k, <2>4
  <2>6. n - 10 * P(k + 1) \in {0, 1}
    <3>. DEFINE s == P(k + 1)
    <3>. HIDE DEF p, s, P
    <3>. QED BY <2>1, <2>2 DEF s
  <2>. QED BY <2>5, <2>6 DEF Slips
<1>5. ASSUME Slips(n) PROVE Slip(n, k)
  <2>1. PICK m \in 1..LongBits : n - 10 * Power(2, m) \in {0, 1}
    BY <1>5 DEF Slips
  <2>. DEFINE j == m - 1
              p == P(j)
  <2>2. j \in Nat /\ j + 1 = m
    OBVIOUS
  <2>. HIDE DEF j
  <2>3. p \in Nat \ {0} /\ P(m) = 2 * p
    <3>. HIDE DEF P
    <3>1. P(j + 1) = 2 * P(j) /\ P(j) \in Nat \ {0}
      BY <1>1, <2>2
    <3>. QED BY <2>2, <3>1
  <2>4. n - 10 * (2 * p) \in {0, 1}
    BY <2>1, <2>3
  <2>5. n \div 2 = 10 * p /\ n - 20 * p \in {0, 1}
    <3>. HIDE DEF p
    <3>. QED BY <2>3, <2>4
  <2>6. j <= k
    <3>. DEFINE q == P(k)
    <3>1. q \in Nat /\ 10 * p <= 10 * q
      BY <1>1, <1>k, <1>2, <2>5
    <3>2. p <= q
      <4>. HIDE DEF p, q
      <4>. QED BY <2>3, <3>1
    <3>. QED BY <1>k, <2>2, <3>2, PowersOrder
  <2>7. k <= j
    <3>1. CASE k = 0
      BY <2>2, <3>1
    <3>2. CASE k - 1 \in Nat /\ 10 * P(k - 1) < n \div 2
      <4>. DEFINE i == k - 1
                  q == P(i)
      <4>1. i \in Nat /\ i + 1 = k
        BY <1>k, <3>2
      <4>2. q \in Nat /\ 10 * q < 10 * p
        BY <1>1, <2>5, <3>2
      <4>. HIDE DEF i
      <4>3. q < p
        <5>. HIDE DEF p, q
        <5>. QED BY <2>3, <4>2
      <4>4. i < j
        BY <2>2, <4>1, <4>3, PowersOrder
      <4>. QED BY <2>2, <4>1, <4>4
    <3>. QED BY Zenon, <1>3, <3>1, <3>2
  <2>8. j = k
    BY <1>k, <2>2, <2>6, <2>7
  <2>. QED BY <2>5, <2>8 DEF Slip
<1>. QED BY <1>4, <1>5

\* What the slow division loses.
Lost(n) == IF Slips(n) THEN 5 ELSE 0

\* div64_slow divides by 10, whatever the dividend, but at 10 times a power of two from
\* the first on and one above that: there it takes half of the divisor away as well, and
\* not once more the quotient (scrn.c:296-327).
THEOREM DivSlowIs ==
    ASSUME LongBits \in Nat, NEW n \in Nat, n < Power(2, LongBits)
    PROVE  LET qr == div64_slow(n, 10)
           IN /\ qr.quotient \in Nat /\ qr.remainder \in 0..9
              /\ 10 * qr.quotient + qr.remainder = n - Lost(n)
<1>. DEFINE qr == div64_slow(n, 10)
<1>1. PICK k \in Nat : Doubled(n, k) /\ Double(n, 10) = Scaled(k)
  BY DoubleIs
<1>. DEFINE end == Subtract(n, 10, 10 * Power(2, k), Power(2, k))
<1>2. Scaled(k).X = 10 * Power(2, k) /\ Scaled(k).per = Power(2, k)
  BY DEF Scaled
<1>3. qr.quotient = end.q /\ qr.remainder = end.A
  BY <1>1, <1>2 DEF div64_slow
<1>4. end \in Divided(n, Loss(n, k))
  BY <1>1, SubtractIs
<1>5. Loss(n, k) = Lost(n)
  <2>1. Slips(n) <=> Slip(n, k)
    BY Zenon, <1>1, SlipsAre
  <2>. QED BY <2>1 DEF Loss, Lost
<1>. HIDE DEF end, qr
<1>6. end.q \in Nat /\ end.A \in Nat /\ end.A < 10 /\ 10 * end.q + end.A = n - Lost(n)
  BY <1>4, <1>5 DEF Divided, Division4
<1>. QED BY <1>3, <1>6 DEF qr


\* The bits of a u64.
LEMMA LongWidth == LongBits \in Nat
BY Zenon, FormatAssumption

\* What is divided exactly goes on, as far as the reference follows it.
Division10 == [n : Nat, exact : BOOLEAN]
Followed(e) == [n |-> e.n \div 10, exact |-> e.exact /\ ~Slips(e.n)]

\* Digits of 64 bits: exact so far, those made and the number still to be printed are
\* worth the number; else less.  e is the reference after as many rounds.
Progress(num, i, e) ==
    {x \in [num : Nat, buf : Seq(Chars)] :
        /\ x.num < Power(2, LongBits - i)
        /\ x.num = 0 => x.buf # <<>>
        /\ e.exact => /\ x.num = e.n
                      /\ x.num * Power(10, Len(x.buf)) + ValueOf(x.buf, 10) = num
        /\ ~e.exact => x.num * Power(10, Len(x.buf)) + ValueOf(x.buf, 10) < num}
NextLong(x) ==
    LET qr == div64_slow(x.num, 10)
    IN IF x.num = 0 THEN x
       ELSE [num |-> qr.quotient, buf |-> <<Digit(qr.remainder)>> \o x.buf]

\* 0 is divided exactly.
LEMMA ZeroIsExact == ~Slips(0) /\ Lost(0) = 0
<1>1. \A m \in Nat : Power(2, m) \in Nat \ {0}
  BY Zenon, Power2Is
<1>2. ~Slips(0)
  <2>. SUFFICES ASSUME NEW m \in 1..LongBits, 0 - 10 * Power(2, m) \in {0, 1} PROVE FALSE
    BY DEF Slips
  <2>. DEFINE p == Power(2, m)
  <2>1. p \in Nat \ {0} /\ 0 - 10 * p \in {0, 1}
    BY <1>1, LongWidth
  <2>. HIDE DEF p
  <2>. QED BY <2>1
<1>. QED BY <1>2 DEF Lost

\* Another digit in front of those made.
LEMMA LongDigit ==
    ASSUME NEW n \in Nat \ {0}, n < Power(2, LongBits), NEW buf \in Seq(Chars)
    PROVE  LET y == NextLong([num |-> n, buf |-> buf])
           IN /\ y \in [num : Nat, buf : Seq(Chars)] /\ y.buf # <<>>
              /\ 10 * y.num <= n
              /\ ~Slips(n) => y.num = n \div 10
              /\ y.num * Power(10, Len(y.buf)) + ValueOf(y.buf, 10)
                 = (n * Power(10, Len(buf)) + ValueOf(buf, 10)) - Lost(n) * Power(10, Len(buf))
<1>. DEFINE y == NextLong([num |-> n, buf |-> buf])
            qr == div64_slow(n, 10)
            q == qr.quotient
            e == qr.remainder
            text == <<Digit(e)>> \o buf
            p == Power(10, Len(buf))
            v == ValueOf(buf, 10)
            z == Lost(n)
<1>1. q \in Nat /\ e \in 0..9 /\ 10 * q + e = n - z
  BY LongWidth, DivSlowIs
<1>2. y = [num |-> q, buf |-> text]
  <2>. HIDE DEF q, e
  <2>. QED BY DEF NextLong, q, e
<1>3. z \in {0, 5} /\ (~Slips(n) => z = 0)
  BY DEF Lost
<1>. HIDE DEF q, e, z, qr, y
<1>4. 10 * q <= n
  BY <1>1, <1>3
<1>5. ASSUME ~Slips(n) PROVE q = n \div 10
  <2>1. n = 10 * q + e /\ e \in 0..(10 - 1)
    BY <1>1, <1>3, <1>5
  <2>2. n \in Nat /\ 10 \in Nat \ {0}
    OBVIOUS
  <2>. QED BY Zenon, <1>1, <2>1, <2>2, DivOnly
<1>6. e \in 0..15 /\ 10 \in Nat \ {0}
  BY <1>1
<1>7. /\ text \in Seq(Chars) /\ Len(text) = Len(buf) + 1
      /\ ValueOf(text, 10) = e * p + v
  <2>1. /\ <<Digit(e)>> \o buf \in Seq(Chars) /\ Len(<<Digit(e)>> \o buf) = Len(buf) + 1
        /\ ValueOf(<<Digit(e)>> \o buf, 10) = e * Power(10, Len(buf)) + ValueOf(buf, 10)
    BY Zenon, <1>6, FrontIs
  <2>. QED BY Zenon, <2>1
<1>8. p \in Nat /\ Power(10, Len(text)) = 10 * p
  <2>1. Len(buf) \in Nat
    OBVIOUS
  <2>. QED BY <1>7, <2>1, Power10Is
<1>9. v \in Nat
  BY Zenon, <1>6, NumeralIs
<1>10. text # <<>>
  BY <1>7
<1>. HIDE DEF text, p, v
<1>11. q * (10 * p) + (e * p + v) = (n * p + v) - z * p
  <2>1. 10 * q + e = n - z /\ z \in Nat /\ e \in Nat
    BY <1>1, <1>3
  <2>2. q * (10 * p) + (e * p + v) = (10 * q + e) * p + v
    BY <1>1, <1>8, <1>9, <2>1
  <2>3. (n - z) * p + v = (n * p + v) - z * p
    BY <1>8, <1>9, <2>1
  <2>. QED BY <2>1, <2>2, <2>3
<1>12. y \in [num : Nat, buf : Seq(Chars)] /\ y.num = q /\ y.buf = text
  BY <1>1, <1>2, <1>7
<1>13. y.num * Power(10, Len(y.buf)) + ValueOf(y.buf, 10) = (n * p + v) - z * p
  BY <1>7, <1>8, <1>11, <1>12
<1>. QED BY <1>4, <1>5, <1>10, <1>12, <1>13 DEF y, p, v, z


\* One more digit, and one more step of the reference.
LEMMA LongStep ==
    ASSUME NEW num \in Nat, NEW j \in Nat, NEW i, j = i - 1, i \in 1..LongBits,
           NEW e \in Division10, NEW x \in Progress(num, j, e)
    PROVE  NextLong(x) \in Progress(num, i, Followed(e))
<1>. DEFINE n == x.num
            buf == x.buf
            m == e.n
            g == Followed(e)
            b == LongBits - i
            y == NextLong(x)
            had == n * Power(10, Len(buf)) + ValueOf(buf, 10)
            has == y.num * Power(10, Len(y.buf)) + ValueOf(y.buf, 10)
<1>1. /\ x \in [num : Nat, buf : Seq(Chars)] /\ n \in Nat /\ buf \in Seq(Chars)
      /\ n < Power(2, LongBits - j) /\ (n = 0 => buf # <<>>)
  BY DEF Progress
<1>2. (e.exact => n = m /\ had = num) /\ (~e.exact => had < num)
  BY Zenon DEF Progress
<1>3. m \in Nat /\ e.exact \in BOOLEAN
  BY DEF Division10
<1>4. g.n = m \div 10 /\ g.exact = (e.exact /\ ~Slips(m))
  BY DEF Followed
<1>5. b \in Nat /\ LongBits - j = b + 1 /\ b + 1 \in Nat
  BY LongWidth
<1>6. Power(2, b) \in Nat \ {0} /\ Power(2, b + 1) = 2 * Power(2, b)
  <2>. HIDE DEF b
  <2>. QED BY <1>5, Power2Is
<1>7. had \in Nat
  <2>. DEFINE p == Power(10, Len(buf))
              v == ValueOf(buf, 10)
  <2>1. Len(buf) \in Nat /\ 10 \in Nat \ {0}
    BY <1>1
  <2>2. p \in Nat
    BY <2>1, Power10Is
  <2>3. v \in Nat
    BY Zenon, <1>1, <2>1, NumeralIs
  <2>. HIDE DEF p, v
  <2>4. n * p + v \in Nat
    BY <1>1, <2>2, <2>3
  <2>. QED BY <2>4 DEF p, v
<1>. HIDE DEF b, m, g, had, has
<1>8. CASE n = 0
  <2>1. y = x /\ has = had
    BY <1>8 DEF NextLong, had, has
  <2>2. n < Power(2, b)
    BY <1>6, <1>8
  <2>3. ASSUME e.exact PROVE g.n = n /\ g.exact
    <3>1. m = 0
      BY <1>2, <1>8, <2>3
    <3>2. m \div 10 = 0
      BY <3>1
    <3>3. ~Slips(m)
      BY <3>1, ZeroIsExact
    <3>. QED BY <1>4, <1>8, <2>3, <3>2, <3>3
  <2>4. ASSUME ~e.exact PROVE ~g.exact
    BY Zenon, <1>4, <2>4
  <2>. HIDE DEF y
  <2>5. g.exact => y.num = g.n /\ has = num
    <3>1. g.exact => e.exact
      BY Zenon, <2>4
    <3>. QED BY Zenon, <1>2, <2>1, <2>3, <3>1
  <2>6. ~g.exact => has < num
    <3>1. ~g.exact => ~e.exact
      BY Zenon, <2>3
    <3>. QED BY Zenon, <1>2, <2>1, <3>1
  <2>7. /\ y \in [num : Nat, buf : Seq(Chars)] /\ y.num < Power(2, LongBits - i)
        /\ y.num = 0 => y.buf # <<>>
    BY Zenon, <1>1, <2>1, <2>2 DEF b
  <2>. QED BY Zenon, <2>5, <2>6, <2>7 DEF Progress, y, g, has
<1>9. CASE n # 0
  <2>1. n < Power(2, LongBits)
    <3>. DEFINE k == LongBits - j
                p == Power(2, k)
                q == Power(2, LongBits)
    <3>1. k \in Nat /\ (k < LongBits \/ k = LongBits)
      BY <1>5, LongWidth
    <3>. HIDE DEF k
    <3>2. p \in Nat /\ q \in Nat
      BY <3>1, LongWidth, Power2Is
    <3>3. k < LongBits => 2 * p <= q
      BY <3>1, LongWidth, PowersGrow
    <3>4. k = LongBits => p = q
      OBVIOUS
    <3>5. n < p
      BY <1>1 DEF k
    <3>. HIDE DEF p, q
    <3>6. n < q
      BY <1>1, <3>1, <3>2, <3>3, <3>4, <3>5
    <3>. QED BY <3>6 DEF q
  <2>. DEFINE w == Lost(n) * Power(10, Len(buf))
  <2>2. x = [num |-> n, buf |-> buf]
    BY <1>1
  <2>3. /\ y \in [num : Nat, buf : Seq(Chars)] /\ y.buf # <<>> /\ 10 * y.num <= n
        /\ ~Slips(n) => y.num = n \div 10
        /\ has = had - w
    <3>1. n \in Nat \ {0}
      BY <1>1, <1>9
    <3>. DEFINE z == NextLong([num |-> n, buf |-> buf])
    <3>2. /\ z \in [num : Nat, buf : Seq(Chars)] /\ z.buf # <<>> /\ 10 * z.num <= n
          /\ ~Slips(n) => z.num = n \div 10
          /\ z.num * Power(10, Len(z.buf)) + ValueOf(z.buf, 10)
             = (n * Power(10, Len(buf)) + ValueOf(buf, 10)) - Lost(n) * Power(10, Len(buf))
      BY Zenon, <1>1, <2>1, <3>1, LongDigit
    <3>3. y = z
      BY Zenon, <2>2
    <3>. HIDE DEF z, y
    <3>4. /\ y \in [num : Nat, buf : Seq(Chars)] /\ y.buf # <<>> /\ 10 * y.num <= n
          /\ ~Slips(n) => y.num = n \div 10
      BY Zenon, <3>2, <3>3
    <3>5. y.num * Power(10, Len(y.buf)) + ValueOf(y.buf, 10)
          = (n * Power(10, Len(buf)) + ValueOf(buf, 10)) - w
      BY Zenon, <3>2, <3>3
    <3>6. has = had - w
      BY Zenon, <3>5 DEF has, had, y
    <3>. QED BY Zenon, <3>4, <3>6
  <2>4. w \in Nat /\ (~Slips(n) => w = 0) /\ (Slips(n) => w > 0)
    <3>. DEFINE p == Power(10, Len(buf))
    <3>1. p \in Nat \ {0}
      BY <1>1, Power10Is
    <3>. HIDE DEF p
    <3>2. 0 * p = 0 /\ 5 * p \in Nat /\ 5 * p > 0
      BY <3>1
    <3>3. w = Lost(n) * p
      BY DEF p
    <3>. HIDE DEF w
    <3>4. CASE Slips(n)
      BY <3>2, <3>3, <3>4 DEF Lost
    <3>5. CASE ~Slips(n)
      BY <3>2, <3>3, <3>5 DEF Lost
    <3>. QED BY Zenon, <3>4, <3>5
  <2>. HIDE DEF w, y
  <2>5. y.num < Power(2, b)
    <3>. DEFINE p == Power(2, b)
                q == y.num
    <3>1. n < 2 * p /\ p \in Nat /\ q \in Nat /\ 10 * q <= n
      BY <1>1, <1>5, <1>6, <2>3
    <3>. HIDE DEF p, q
    <3>2. q < p
      BY <1>1, <3>1
    <3>. QED BY <3>2 DEF p, q
  <2>6. ASSUME g.exact PROVE y.num = g.n /\ has = num
    <3>1. e.exact /\ n = m /\ had = num /\ ~Slips(n)
      BY Zenon, <1>2, <1>4, <2>6
    <3>2. y.num = g.n
      BY Zenon, <1>4, <2>3, <3>1
    <3>3. has = had - 0
      BY Zenon, <2>3, <2>4, <3>1
    <3>4. had - 0 = had
      BY <1>7
    <3>. QED BY Zenon, <3>1, <3>2, <3>3, <3>4
  <2>7. ASSUME ~g.exact PROVE has < num
    <3>1. CASE ~e.exact
      <4>1. had < num
        BY Zenon, <1>2, <3>1
      <4>. QED BY <1>7, <2>3, <2>4, <4>1
    <3>2. CASE e.exact
      <4>1. Slips(n) /\ had = num
        BY Zenon, <1>2, <1>4, <2>7, <3>2
      <4>2. w > 0
        BY Zenon, <2>4, <4>1
      <4>. QED BY <1>7, <2>3, <2>4, <4>1, <4>2
    <3>. QED BY Zenon, <3>1, <3>2
  <2>. QED BY Zenon, <2>3, <2>5, <2>6, <2>7 DEF Progress, y, g, has, b
<1>. QED BY <1>8, <1>9


\* The reference after i rounds.
Following == [i \in 1..LongBits |-> [x \in Division10 |->
                [n |-> x.n \div 10, exact |-> x.exact /\ ~Slips(x.n)]]]
After10(num, i) == Loop(Following, [n |-> num, exact |-> TRUE], i)

\* Round by round.
LEMMA FollowingIs ==
    ASSUME NEW num \in Nat
    PROVE  /\ Exact(num) = After10(num, LongBits).exact
           /\ After10(num, 0) = [n |-> num, exact |-> TRUE]
           /\ \A i \in 0..LongBits : After10(num, i) \in Division10
           /\ \A i \in 1..LongBits : After10(num, i) = Followed(After10(num, i - 1))
<1>. DEFINE E(i) == After10(num, i)
            first == [n |-> num, exact |-> TRUE]
<1>1. Exact(num) = E(LongBits).exact
  BY DEF Exact, After10, Following, Division10
<1>2. E(0) = first
  BY LoopIs DEF After10
<1>3. \A x \in Division10 : Followed(x) \in Division10
  BY DEF Division10, Followed
<1>4. \A i \in 1..LongBits : \A x \in Division10 : Following[i][x] = Followed(x)
  BY DEF Following, Followed
<1>5. first \in Division10
  BY DEF Division10
<1>6. ASSUME NEW k \in Nat, k + 1 \in 1..LongBits, E(k) \in Division10
      PROVE  E(k + 1) = Followed(E(k)) /\ E(k + 1) \in Division10
  <2>. DEFINE x == E(k)
  <2>1. E(k + 1) = Following[k + 1][x]
    <3>. HIDE DEF first
    <3>. QED BY OneMore DEF After10
  <2>. HIDE DEF x
  <2>2. x \in Division10
    BY <1>6 DEF x
  <2>3. Following[k + 1][x] = Followed(x)
    BY <1>4, <1>6, <2>2
  <2>. QED BY <1>3, <2>1, <2>2, <2>3 DEF x
<1>. DEFINE T == {k \in Nat : k <= LongBits => E(k) \in Division10}
<1>. HIDE DEF first
<1>7. Nat \subseteq T
  <2>1. 0 \in T
    BY <1>2, <1>5
  <2>. HIDE DEF E
  <2>2. ASSUME NEW k \in Nat, k \in T PROVE k + 1 \in T
    <3>. SUFFICES ASSUME k + 1 <= LongBits PROVE E(k + 1) \in Division10
      OBVIOUS
    <3>1. E(k) \in Division10 /\ k + 1 \in 1..LongBits
      BY <2>2, LongWidth
    <3>. QED BY <1>6, <3>1
  <2>. HIDE DEF T
  <2>. QED BY <2>1, <2>2, Induction
<1>8. \A i \in 0..LongBits : E(i) \in Division10
  <2>. HIDE DEF E
  <2>. QED BY <1>7, LongWidth
<1>9. ASSUME NEW i \in 1..LongBits PROVE E(i) = Followed(E(i - 1))
  <2>. DEFINE k == i - 1
  <2>1. k \in Nat /\ k \in 0..LongBits /\ k + 1 = i
    BY LongWidth
  <2>. HIDE DEF k, E
  <2>2. E(k + 1) = Followed(E(k))
    BY <1>6, <1>8, <2>1
  <2>3. i - 1 = k
    BY DEF k
  <2>. QED BY <2>1, <2>2, <2>3
<1>. QED BY <1>1, <1>2, <1>8, <1>9 DEF first

\* writeUInt64 prints what reads back if it is divided exactly, and less if it is not.
LEMMA LongIs ==
    ASSUME NEW num \in 0..(Power(2, LongBits) - 1)
    PROVE  LET text == writeUInt64(num)
           IN text \in Seq(Chars) /\ text # <<>> /\ (ValueOf(text, 10) = num <=> Exact(num))
<1>0. LongBits \in Nat /\ Power(2, LongBits) \in Nat
  BY LongWidth, Power2Is
<1>e. num \in Nat /\ num < Power(2, LongBits)
  BY <1>0
<1>. DEFINE E(i) == After10(num, i)
<1>r. /\ Exact(num) = E(LongBits).exact /\ E(0) = [n |-> num, exact |-> TRUE]
      /\ \A i \in 0..LongBits : E(i) \in Division10
      /\ \A i \in 1..LongBits : E(i) = Followed(E(i - 1))
  BY Zenon, <1>e, FollowingIs
<1>. HIDE DEF E
<1>1. CASE num = 0
  <2>1. writeUInt64(num) = writeUInt(num)
    BY <1>1 DEF writeUInt, writeUInt64
  <2>2. num \in 0..(U32 - 1)
    BY <1>1, WidthIs
  <2>. DEFINE text == writeUInt(num)
  <2>3. text \in Seq(Chars) /\ text # <<>> /\ ValueOf(text, 10) = num
    BY <2>2, UIntIs
  <2>. DEFINE T == {k \in Nat : k <= LongBits => E(k) = [n |-> 0, exact |-> TRUE]}
  <2>4. 0 \in T
    BY <1>1, <1>r
  <2>5. ASSUME NEW k \in Nat, k \in T PROVE k + 1 \in T
    <3>. SUFFICES ASSUME k + 1 <= LongBits PROVE E(k + 1) = [n |-> 0, exact |-> TRUE]
      OBVIOUS
    <3>1. k + 1 \in 1..LongBits /\ (k + 1) - 1 = k /\ k <= LongBits
      BY <1>0
    <3>2. E(k + 1) = Followed(E(k)) /\ E(k) = [n |-> 0, exact |-> TRUE]
      BY <1>r, <2>5, <3>1
    <3>3. Followed([n |-> 0, exact |-> TRUE]) = [n |-> 0, exact |-> TRUE]
      <4>1. 0 \div 10 = 0
        OBVIOUS
      <4>. QED BY <4>1, ZeroIsExact DEF Followed
    <3>. QED BY <3>2, <3>3
  <2>6. LongBits \in T
    <3>. HIDE DEF T
    <3>. QED BY <1>0, <2>4, <2>5, Induction
  <2>7. Exact(num)
    BY <1>0, <1>r, <2>6
  <2>. HIDE DEF text
  <2>. QED BY Zenon, <2>1, <2>3, <2>7 DEF text
<1>2. CASE num # 0
  <2>. DEFINE once == [i \in 1..LongBits |-> [x \in Unread |->
                         LET qr == div64_slow(x.num, 10)
                         IN IF x.num = 0 THEN x
                            ELSE [num |-> qr.quotient,
                                  buf |-> <<Digit(qr.remainder)>> \o x.buf]]]
              first == [num |-> num, buf |-> <<>>]
              inv == [i \in 0..LongBits |-> Progress(num, i, E(i))]
              end == Loop(once, first, LongBits)
  <2>1. writeUInt64(num) = end.buf
    BY <1>2 DEF writeUInt64, Digits64
  <2>s. \A i \in 1..LongBits : \A x \in Unread : once[i][x] = NextLong(x)
    BY DEF NextLong
  <2>. HIDE DEF once, end
  <2>2. first \in inv[0]
    <3>1. first \in [num : Nat, buf : Seq(Chars)] /\ first.num = num /\ first.buf = <<>>
      BY <1>e
    <3>2. ValueOf(<<>>, 10) = 0 /\ Power(10, Len(<<>>)) = 1
      <4>1. 10 \in Nat \ {0} /\ <<>> \in Seq(Chars) /\ Len(<<>>) = 0
        OBVIOUS
      <4>2. ValueOf(<<>>, 10) = 0
        BY Zenon, <4>1, NumeralIs
      <4>. QED BY <4>1, <4>2, Power10Is
    <3>3. LongBits - 0 = LongBits /\ num * 1 + 0 = num
      BY <1>0, <1>e
    <3>4. E(0).exact /\ E(0).n = num
      BY <1>r
    <3>. HIDE DEF first
    <3>5. first.num < Power(2, LongBits - 0)
      BY Zenon, <1>e, <3>1, <3>3
    <3>6. first.num * Power(10, Len(first.buf)) + ValueOf(first.buf, 10) = num
      BY Zenon, <3>1, <3>2, <3>3
    <3>7. first \in Progress(num, 0, E(0))
      BY Zenon, <1>2, <3>1, <3>4, <3>5, <3>6 DEF Progress
    <3>8. 0 \in 0..LongBits
      BY <1>0
    <3>. QED BY <3>7, <3>8
  <2>3. ASSUME NEW i \in 1..LongBits, NEW x \in inv[i - 1] PROVE once[i][x] \in inv[i]
    <3>. DEFINE j == i - 1
    <3>1. j \in Nat /\ j \in 0..LongBits /\ i \in 0..LongBits
      BY <1>0
    <3>2. x \in Progress(num, j, E(j))
      BY <3>1
    <3>3. x \in Unread
      BY <3>2, CharsIn DEF Progress, Unread
    <3>4. once[i][x] = NextLong(x)
      BY <2>s, <3>3
    <3>5. j = i - 1
      OBVIOUS
    <3>6. E(i) = Followed(E(j)) /\ E(j) \in Division10
      BY <1>r, <3>1
    <3>. HIDE DEF j
    <3>7. NextLong(x) \in Progress(num, i, Followed(E(j)))
      BY <1>e, <3>1, <3>2, <3>5, <3>6, LongStep
    <3>. QED BY <3>1, <3>4, <3>6, <3>7
  <2>4. end \in Progress(num, LongBits, E(LongBits))
    <3>1. end \in inv[LongBits]
      <4>. HIDE DEF inv, first
      <4>. QED BY <1>0, <2>2, <2>3, LoopKeeps DEF end
    <3>. QED BY <1>0, <3>1
  <2>5. Power(2, LongBits - LongBits) = 1
    BY <1>0, Power2Is
  <2>. DEFINE had == end.num * Power(10, Len(end.buf)) + ValueOf(end.buf, 10)
  <2>6. /\ end.num \in Nat /\ end.buf \in Seq(Chars) /\ end.num < 1
        /\ end.num = 0 => end.buf # <<>>
    BY <2>4, <2>5 DEF Progress
  <2>7. (Exact(num) => had = num) /\ (~Exact(num) => had < num)
    BY Zenon, <1>r, <2>4 DEF Progress
  <2>8. end.num = 0
    BY <2>6
  <2>9. had = ValueOf(end.buf, 10)
    <3>1. Len(end.buf) \in Nat /\ 10 \in Nat \ {0}
      BY <2>6
    <3>. DEFINE p == Power(10, Len(end.buf))
                v == ValueOf(end.buf, 10)
    <3>2. p \in Nat
      BY <3>1, Power10Is
    <3>3. v \in Nat
      BY Zenon, <2>6, <3>1, NumeralIs
    <3>. HIDE DEF p, v
    <3>4. 0 * p + v = v
      BY <3>2, <3>3
    <3>. QED BY <2>8, <3>4 DEF p, v
  <2>. HIDE DEF had
  <2>10. had < num => had # num
    BY <1>e
  <2>11. had = num <=> Exact(num)
    BY Zenon, <2>7, <2>10
  <2>. QED BY Zenon, <2>1, <2>6, <2>8, <2>9, <2>11
<1>. QED BY <1>1, <1>2


\* What starts with digits has no sign.
LEMMA NoSign ==
    ASSUME NEW s \in Seq(Chars), s # <<>>
    PROVE  s[1] \in Chars /\ s[1] # "-"
<1>1. 1 \in 1..Len(s)
  BY EmptySeq
<1>2. s[1] \in Chars
  BY <1>1, ElementOfSeq
<1>3. PICK d \in 0..15 : s[1] = Digit(d)
  BY <1>2 DEF Chars
<1>. QED BY <1>2, <1>3, WeightIs

\* The same for any text, behind its sign.
LEMMA BehindSign ==
    ASSUME NEW S, NEW a \in S, NEW s \in Seq(S)
    PROVE  LET text == <<a>> \o s
           IN text \in Seq(S) /\ text # <<>> /\ text[1] = a /\ Tail(text) = s
<1>. DEFINE one == <<a>>
            text == one \o s
            n == Len(s)
<1>1. one \in Seq(S) /\ Len(one) = 1 /\ one[1] = a /\ n \in Nat
  OBVIOUS
<1>. HIDE DEF one
<1>2. /\ text \in Seq(S) /\ Len(text) = Len(one) + n
      /\ \A i \in 1..(Len(one) + n) : text[i] = IF i <= Len(one) THEN one[i] ELSE s[i - Len(one)]
  BY Zenon, <1>1, ConcatProperties
<1>. HIDE DEF text
<1>3. Len(text) = 1 + n /\ text # <<>>
  BY <1>1, <1>2
<1>4. text[1] = a
  <2>1. 1 \in 1..(Len(one) + n) /\ 1 <= Len(one)
    BY <1>1
  <2>. QED BY <1>1, <1>2, <2>1
<1>5. Tail(text) \in Seq(S) /\ Len(Tail(text)) = Len(text) - 1
      /\ \A i \in 1..Len(Tail(text)) : Tail(text)[i] = text[i + 1]
  BY Zenon, <1>2, <1>3, HeadTailProperties
<1>6. ASSUME NEW i \in 1..n PROVE text[i + 1] = s[i]
  <2>1. i + 1 \in 1..(Len(one) + n) /\ ~(i + 1 <= Len(one)) /\ (i + 1) - Len(one) = i
    BY <1>1
  <2>2. text[i + 1] = s[(i + 1) - Len(one)]
    BY <1>2, <2>1
  <2>. QED BY <2>1, <2>2
<1>7. Len(Tail(text)) = n
  BY <1>1, <1>3, <1>5
<1>8. Tail(text) = s
  BY <1>5, <1>6, <1>7, SeqEqual
<1>. QED BY Zenon, <1>2, <1>3, <1>4, <1>8 DEF text, one

\* What is printed of a u64 reads back, with and without a sign, if it is divided exactly.
LEMMA LongReads ==
    ASSUME NEW num \in 0..(Power(2, LongBits) - 1)
    PROVE  /\ writeInt64(num) = writeUInt64(num)
           /\ Reads(writeUInt64(num), num) <=> Exact(num)
           /\ Reads(writeInt64(-num), -num) <=> Exact(num)
<1>. DEFINE text == writeUInt64(num)
            v == ValueOf(text, 10)
<1>1. text \in Seq(Chars) /\ text # <<>> /\ (v = num <=> Exact(num))
  BY Zenon, LongIs
<1>2. num \in Nat /\ ~(num < 0)
  BY Power2Is, LongWidth
<1>3. writeInt64(num) = text
  BY <1>2 DEF writeInt64
<1>4. v \in Nat
  <2>1. 10 \in Nat \ {0}
    OBVIOUS
  <2>. QED BY Zenon, <1>1, <2>1, NumeralIs
<1>5. text[1] # "-"
  <2>. HIDE DEF text
  <2>. QED BY <1>1, NoSign
<1>6. Reads(text, num) <=> Exact(num)
  <2>1. Reads(text, num) <=> num = v
    BY Zenon, <1>1, <1>2, <1>5 DEF Reads
  <2>. HIDE DEF v, text
  <2>2. num = v <=> v = num
    OBVIOUS
  <2>. QED BY Zenon, <1>1, <2>1, <2>2
<1>7. CASE num = 0
  <2>1. -num = num
    <3>1. \A k \in Int : k <= 0 /\ 0 <= k => -k = k
      OBVIOUS
    <3>2. num \in Int /\ num <= 0 /\ 0 <= num
      BY <1>2, <1>7
    <3>. QED BY Zenon, <3>1, <3>2
  <2>2. Reads(writeInt64(-num), -num) <=> Exact(num)
    BY Zenon, <1>3, <1>6, <2>1
  <2>. QED BY Zenon, <1>3, <1>6, <2>2
<1>8. CASE num # 0
  <2>. DEFINE m == -num
              line == <<"-">> \o text
  <2>1. m < 0 /\ -m = num
    BY <1>2, <1>8
  <2>. HIDE DEF m
  <2>2. writeInt64(m) = line
    BY <2>1 DEF writeInt64
  <2>. HIDE DEF text, v
  <2>3. line # <<>> /\ line[1] = "-" /\ Tail(line) = text
    BY <1>1, BehindOne
  <2>. HIDE DEF line
  <2>4. Reads(line, m) <=> m = -ValueOf(Tail(line), 10)
    BY Zenon, <2>1, <2>3 DEF Reads
  <2>5. ValueOf(Tail(line), 10) = v
    BY <2>3 DEF v, text
  <2>6. m = -v <=> v = num
    <3>1. m = -num
      BY DEF m
    <3>. QED BY <1>2, <1>4, <3>1
  <2>7. Reads(line, m) <=> Exact(num)
    BY Zenon, <1>1, <2>4, <2>5, <2>6
  <2>. QED BY Zenon, <1>3, <1>6, <2>2, <2>7 DEF m, text
<1>. QED BY <1>7, <1>8

\* A digit behind multiplies what was read by the radix.
LEMMA BackIs ==
    ASSUME NEW r \in Nat \ {0}, NEW d \in 0..15, NEW s \in Seq(Chars)
    PROVE  LET text == s \o <<Digit(d)>>
           IN /\ text \in Seq(Chars) /\ Len(text) = Len(s) + 1
              /\ ValueOf(text, r) = ValueOf(s, r) * r + d
<1>. DEFINE one == <<Digit(d)>>
            text == s \o one
            n == Len(s)
            f == Reading(text, r)
            g == Reading(s, r)
<1>1. one \in Seq(Chars) /\ Len(one) = 1 /\ one[1] = Digit(d) /\ n \in Nat
  BY WeightIs
<1>. HIDE DEF one
<1>2. /\ text \in Seq(Chars) /\ Len(text) = n + Len(one)
      /\ \A i \in 1..(n + Len(one)) : text[i] = IF i <= n THEN s[i] ELSE one[i - n]
  BY Zenon, <1>1, ConcatProperties
<1>. HIDE DEF text
<1>3. Len(text) = n + 1 /\ Len(text) \in Nat
  BY <1>1, <1>2
<1>4. ASSUME NEW i \in 1..n PROVE f[i] = g[i]
  <2>1. i \in 1..(n + Len(one)) /\ i <= n /\ i \in 1..Len(text)
    BY <1>1, <1>3
  <2>2. text[i] = s[i]
    BY <1>2, <2>1
  <2>3. f[i] = [v \in Nat |-> v * r + Weight(text[i])]
    BY <2>1 DEF Reading
  <2>4. g[i] = [v \in Nat |-> v * r + Weight(s[i])]
    BY DEF Reading
  <2>. QED BY Zenon, <2>2, <2>3, <2>4
<1>5. Value(text, r, n) = Value(s, r, n)
  <2>. HIDE DEF f, g, n
  <2>1. Loop(f, 0, n) = Loop(g, 0, n)
    BY <1>1, <1>4, SameLoop
  <2>. QED BY <2>1 DEF f, g, Value
<1>6. text[n + 1] = Digit(d)
  <2>1. n + 1 \in 1..(n + Len(one)) /\ ~(n + 1 <= n) /\ (n + 1) - n = 1
    BY <1>1
  <2>2. text[n + 1] = one[(n + 1) - n]
    BY <1>2, <2>1
  <2>. QED BY <1>1, <2>1, <2>2
<1>7. \A i \in 1..Len(text) : text[i] \in Chars
  BY <1>2, ElementOfSeq
<1>8. /\ Value(text, r, 0) = 0
      /\ \A k \in 0..Len(text) : Value(text, r, k) \in Nat
      /\ \A k \in 0..(Len(text) - 1) :
            Value(text, r, k + 1) = Value(text, r, k) * r + Weight(text[k + 1])
  BY Zenon, <1>3, <1>7, ValueIs
<1>9. n \in 0..(Len(text) - 1)
  BY <1>1, <1>3
<1>10. Value(text, r, n + 1) = Value(text, r, n) * r + Weight(text[n + 1])
  BY <1>8, <1>9
<1>11. Weight(text[n + 1]) = d
  <2>1. Weight(Digit(d)) = d
    BY WeightIs
  <2>. QED BY Zenon, <1>6, <2>1
<1>12. ValueOf(text, r) = ValueOf(s, r) * r + d
  <2>1. ValueOf(text, r) = Value(text, r, n + 1)
    BY <1>3, ValueOfIs
  <2>2. ValueOf(s, r) = Value(s, r, n)
    BY ValueOfIs
  <2>. QED BY Zenon, <1>5, <1>10, <1>11, <2>1, <2>2
<1>. QED BY Zenon, <1>2, <1>3, <1>12 DEF text, one

\* Below ten, one digit is printed.
LEMMA OneDigit ==
    ASSUME NEW k \in 0..9
    PROVE  writeInt(k) = <<Digit(k)>>
<1>0. ~(k < 0) /\ k \in 0..15 /\ Bits \in Nat /\ Bits > 0
  BY WidthIs
<1>1. writeInt(k) = writeUInt(k)
  BY <1>0 DEF writeInt
<1>2. CASE k = 0
  BY <1>1, <1>2 DEF writeUInt, Digit, digits
<1>3. CASE k # 0
  <2>. DEFINE once == [i \in 1..Bits |-> [x \in Unread |->
                         IF x.num = 0 THEN x
                         ELSE [num |-> x.num \div 10, buf |-> <<Digit(x.num % 10)>> \o x.buf]]]
              first == [num |-> k, buf |-> <<>>]
              last == [num |-> 0, buf |-> <<Digit(k)>>]
              inv == [i \in 0..Bits |-> IF i = 0 THEN {first} ELSE {last}]
              end == Loop(once, first, Bits)
  <2>1. writeUInt(k) = end.buf
    BY <1>3 DEF writeUInt, Digits
  <2>2. <<Digit(k)>> \o <<>> = <<Digit(k)>> /\ <<Digit(k)>> \in Text
    <3>. DEFINE one == <<Digit(k)>>
    <3>1. one \in Seq(Char)
      BY <1>0, WeightIs
    <3>. HIDE DEF one
    <3>2. one \o <<>> = one
      BY <3>1, ConcatEmptySeq
    <3>. QED BY <3>1, <3>2 DEF one, Text
  <2>3. first \in Unread /\ last \in Unread
    BY <2>2 DEF Unread, Text
  <2>4. ASSUME NEW i \in 1..Bits PROVE once[i][first] = last /\ once[i][last] = last
    <3>1. k \div 10 = 0 /\ k % 10 = k
      OBVIOUS
    <3>2. once[i][first] = [num |-> k \div 10, buf |-> <<Digit(k % 10)>> \o <<>>]
      BY <1>3, <2>3
    <3>3. once[i][last] = last
      BY <2>3
    <3>. QED BY Zenon, <2>2, <3>1, <3>2, <3>3
  <2>. HIDE DEF once
  <2>5. ASSUME NEW i \in 1..Bits, NEW x \in inv[i - 1] PROVE once[i][x] \in inv[i]
    <3>1. i - 1 \in 0..Bits /\ i \in 0..Bits /\ i # 0
      BY <1>0
    <3>. HIDE DEF first, last
    <3>2. x \in {first, last}
      BY <3>1
    <3>3. once[i][x] = last
      BY <2>4, <3>2
    <3>. QED BY <3>1, <3>3
  <2>6. first \in inv[0] /\ 0 \in 0..Bits
    BY <1>0
  <2>7. end \in inv[Bits]
    <3>. HIDE DEF first, inv
    <3>. QED BY <1>0, <2>5, <2>6, LoopKeeps
  <2>8. end = last
    <3>1. Bits \in 0..Bits /\ Bits # 0
      BY <1>0
    <3>. HIDE DEF first, last, end
    <3>. QED BY <2>7, <3>1
  <2>. HIDE DEF end
  <2>. QED BY <1>1, <2>1, <2>8
<1>. QED BY <1>2, <1>3


\* The fraction f / d, d the k-th power of two: the digits made and what is left of it
\* are worth the fraction; what is left has one more factor of two after each round.
Lesser(i, k) == IF i < k THEN i ELSE k
Precision == 10000000
Remaining(f, d, k, i) ==
    {x \in [f : Nat, out : Seq(Chars), done : BOOLEAN] :
        /\ x.f < d
        /\ ValueOf(x.out, 10) * d + x.f = f * Power(10, Len(x.out))
        /\ x.done => x.f = 0
        /\ \E c \in Int : x.f = Power(2, Lesser(i, k)) * c}
NextFraction(x, d) ==
    LET rest == (10 * x.f) % d
    IN IF x.done THEN x
       ELSE [f |-> rest, out |-> x.out \o writeInt((10 * x.f) \div d),
             done |-> rest * Precision <= d]

\* Ten digits are enough for these.
LEMMA SmallPowers == \A k \in 0..MAX_FLOATING_FRACTIONAL_DIGITS : Power(2, k) \in 1..1024
<1>. DEFINE P(m) == Power(2, m)
<1>1. P(0) = 1 /\ \A m \in Nat : P(m) \in Nat \ {0} /\ P(m + 1) = 2 * P(m)
  BY Zenon, Power2Is
<1>. HIDE DEF P
<1>0. P(0) = 1
  BY <1>1
<1>2. P(1) = 2 /\ P(2) = 4 /\ P(3) = 8
  <2>1. P(0 + 1) = 2 * P(0) /\ P(1 + 1) = 2 * P(1) /\ P(2 + 1) = 2 * P(2)
    BY <1>1
  <2>. QED BY <1>1, <2>1
<1>3. P(4) = 16 /\ P(5) = 32 /\ P(6) = 64
  <2>1. P(3 + 1) = 2 * P(3) /\ P(4 + 1) = 2 * P(4) /\ P(5 + 1) = 2 * P(5)
    BY <1>1
  <2>. QED BY <1>2, <2>1
<1>4. P(7) = 128 /\ P(8) = 256 /\ P(9) = 512 /\ P(10) = 1024
  <2>1. P(6 + 1) = 2 * P(6) /\ P(7 + 1) = 2 * P(7) /\ P(8 + 1) = 2 * P(8)
        /\ P(9 + 1) = 2 * P(9)
    BY <1>1
  <2>. QED BY <1>3, <2>1
<1>5. ASSUME NEW k \in 0..10 PROVE P(k) \in 1..1024
  <2>1. CASE k \in 0..3
    BY ONLY <1>0, <1>2, <2>1
  <2>2. CASE k \in 4..6
    BY ONLY <1>3, <2>2
  <2>3. CASE k \in 7..8
    BY ONLY <1>4, <2>3
  <2>4. CASE k \in 9..10
    BY ONLY <1>4, <2>4
  <2>5. k \in 0..3 \/ k \in 4..6 \/ k \in 7..8 \/ k \in 9..10
    BY ONLY k \in 0..10
  <2>. QED BY Zenon, <2>1, <2>2, <2>3, <2>4, <2>5
<1>. QED BY <1>5 DEF P, MAX_FLOATING_FRACTIONAL_DIGITS

\* What is left has another factor of two.
LEMMA Halved ==
    ASSUME NEW k \in Nat, NEW j \in Nat, NEW a \in Nat, NEW c \in Int,
           a = Power(2, Lesser(j, k)) * c
    PROVE  \E e \in Int : (10 * a) % Power(2, k) = Power(2, Lesser(j + 1, k)) * e
<1>. DEFINE d == Power(2, k)
            b == 10 * a
            q == b \div d
            rest == b % d
            m == Power(2, Lesser(j, k))
<1>1. d \in Nat \ {0}
  BY Power2Is
<1>2. b \in Nat
  OBVIOUS
<1>3. q \in Nat /\ rest \in Nat /\ b = d * q + rest
  <2>1. q \in Nat /\ rest \in 0..(d - 1) /\ b = d * q + rest
    <3>. HIDE DEF b, d
    <3>. QED BY Zenon, <1>1, <1>2, DivIs
  <2>. HIDE DEF b, d, q, rest
  <2>. QED BY <1>1, <2>1
<1>4. b = 10 * (m * c)
  OBVIOUS
<1>. HIDE DEF b, q, rest
<1>5. CASE j < k
  <2>. DEFINE p == Power(2, j + 1)
              h == Power(2, j)
              i == k - (j + 1)
  <2>1. Lesser(j, k) = j /\ Lesser(j + 1, k) = j + 1
    BY <1>5 DEF Lesser
  <2>2. h \in Nat /\ p = 2 * h /\ m = h
    BY <2>1, Power2Is
  <2>. SUFFICES \E e \in Int : rest = p * e
    BY <2>1 DEF rest, b, d
  <2>3. \E w \in Int : d = p * w
    <3>. DEFINE P(t) == Power(2, t)
                T == {t \in Nat : \E w \in Int : P((j + 1) + t) = P(j + 1) * w}
    <3>1. \A t \in Nat : P(t) \in Nat \ {0} /\ P(t + 1) = 2 * P(t)
      BY Zenon, Power2Is
    <3>2. p \in Int
      BY <2>2
    <3>. HIDE DEF P
    <3>3. 0 \in T
      <4>1. P((j + 1) + 0) = P(j + 1) * 1
        <5>1. (j + 1) + 0 = j + 1 /\ P(j + 1) \in Nat
          BY <3>1
        <5>. QED BY <5>1
      <4>. QED BY <4>1
    <3>4. ASSUME NEW t \in Nat, t \in T PROVE t + 1 \in T
      <4>1. PICK w \in Int : P((j + 1) + t) = P(j + 1) * w
        BY <3>4
      <4>2. ((j + 1) + t) + 1 = (j + 1) + (t + 1) /\ (j + 1) + t \in Nat /\ j + 1 \in Nat
        OBVIOUS
      <4>3. P(((j + 1) + t) + 1) = 2 * P((j + 1) + t) /\ P(j + 1) \in Nat
        BY <3>1, <4>2
      <4>4. P((j + 1) + (t + 1)) = P(j + 1) * (2 * w)
        <5>. DEFINE z == P(j + 1)
        <5>1. z \in Nat /\ 2 * (z * w) = z * (2 * w)
          BY <4>3
        <5>. QED BY <4>1, <4>2, <4>3, <5>1
      <4>. QED BY <4>4
    <3>5. i \in T
      <4>1. i \in Nat
        BY <1>5
      <4>. HIDE DEF T, i
      <4>. QED BY <3>3, <3>4, <4>1, Induction
    <3>6. (j + 1) + i = k
      OBVIOUS
    <3>. HIDE DEF i
    <3>7. PICK w \in Int : P((j + 1) + i) = P(j + 1) * w
      BY <3>5
    <3>. QED BY <3>6, <3>7 DEF P
  <2>4. PICK w \in Int : d = p * w
    BY <2>3
  <2>. HIDE DEF p, h, d, m
  <2>5. rest = p * (5 * c - w * q)
    <3>1. b = p * (5 * c)
      BY <1>4, <2>2
    <3>2. p \in Int /\ (p * w) * q = p * (w * q)
      BY <1>3, <2>2
    <3>3. rest = b - d * q
      <4>1. d * q \in Int
        BY <1>1, <1>3
      <4>. QED BY <1>3, <4>1
    <3>4. rest = p * (5 * c) - p * (w * q)
      BY <2>4, <3>1, <3>2, <3>3
    <3>5. p * (5 * c) - p * (w * q) = p * (5 * c - w * q)
      BY <1>3, <3>2
    <3>. QED BY <3>4, <3>5
  <2>6. 5 * c - w * q \in Int
    BY <1>3
  <2>. QED BY <2>5, <2>6
<1>6. CASE ~(j < k)
  <2>1. Lesser(j, k) = k /\ Lesser(j + 1, k) = k
    BY <1>6 DEF Lesser
  <2>2. m = d
    BY <2>1
  <2>. SUFFICES \E e \in Int : rest = d * e
    BY <2>1 DEF rest, b, d
  <2>. HIDE DEF d, m
  <2>3. rest = d * (10 * c - q)
    <3>1. b = d * (10 * c) /\ d * q \in Int /\ d * (10 * c) \in Int
      BY <1>1, <1>3, <1>4, <2>2
    <3>2. rest = d * (10 * c) - d * q
      BY <1>3, <3>1
    <3>3. d * (10 * c) - d * q = d * (10 * c - q)
      BY <1>1, <1>3
    <3>. QED BY <3>2, <3>3
  <2>4. 10 * c - q \in Int
    BY <1>3
  <2>. QED BY <2>3, <2>4
<1>. QED BY <1>5, <1>6


\* One more digit of a fraction.
LEMMA FractionStep ==
    ASSUME NEW k \in 0..MAX_FLOATING_FRACTIONAL_DIGITS, NEW d, d = Power(2, k), NEW f \in Nat,
           NEW j \in Nat, NEW i, i = j + 1, NEW x \in Remaining(f, d, k, j)
    PROVE  NextFraction(x, d) \in Remaining(f, d, k, i)
<1>. DEFINE a == x.f
            s == x.out
            v == ValueOf(s, 10)
            p == Power(10, Len(s))
            b == 10 * a
            q == b \div d
            rest == b % d
            text == s \o <<Digit(q)>>
            fin == rest * Precision <= d
            y == [f |-> rest, out |-> text, done |-> fin]
<1>1. d \in 1..1024 /\ d \in Nat \ {0}
  <2>1. d \in 1..1024
    BY SMTT(30), SmallPowers
  <2>. QED BY ONLY <2>1
<1>2. /\ x \in [f : Nat, out : Seq(Chars), done : BOOLEAN] /\ a \in Nat /\ s \in Seq(Chars)
      /\ a < d /\ v * d + a = f * p /\ (x.done => a = 0)
  BY Zenon DEF Remaining
<1>3. PICK c \in Int : a = Power(2, Lesser(j, k)) * c
  BY DEF Remaining
<1>4. CASE x.done
  <2>1. NextFraction(x, d) = x /\ a = 0
    BY <1>2, <1>4 DEF NextFraction
  <2>2. a = Power(2, Lesser(i, k)) * 0
    <3>1. Lesser(i, k) \in Nat
      BY DEF Lesser
    <3>2. Power(2, Lesser(i, k)) \in Nat
      BY <3>1, Power2Is
    <3>. QED BY <2>1, <3>2
  <2>3. 0 \in Int
    OBVIOUS
  <2>. QED BY Zenon, <1>2, <2>1, <2>2, <2>3 DEF Remaining
<1>5. CASE ~x.done
  <2>1. a \in Nat /\ s \in Seq(Chars)
    BY <1>2
  <2>2. q \in 0..9 /\ rest \in 0..(d - 1) /\ b = d * q + rest
    <3>1. b \in Nat
      BY <2>1
    <3>. HIDE DEF b
    <3>2. q \in Nat /\ rest \in 0..(d - 1) /\ b = d * q + rest
      BY ZenonT(30), <1>1, <3>1, DivIs
    <3>3. b < 10 * d
      BY <1>1, <1>2, <2>1 DEF b
    <3>. HIDE DEF q, rest
    <3>4. q \in 0..9
      <4>. SUFFICES ASSUME q >= 10 PROVE FALSE
        BY <3>2
      <4>. DEFINE u == q - 10
      <4>1. u \in Nat /\ d * q = d * u + 10 * d
        BY <1>1, <3>2
      <4>. HIDE DEF u
      <4>2. d * u \in Nat
        BY <1>1, <4>1
      <4>. QED BY <1>1, <3>2, <3>3, <4>1, <4>2
    <3>. QED BY <3>2, <3>4
  <2>3. NextFraction(x, d) = y
    <3>1. writeInt(q) = <<Digit(q)>>
      <4>. HIDE DEF q
      <4>. QED BY <2>2, OneDigit
    <3>. QED BY <1>5, <3>1 DEF NextFraction
  <2>4. \E e \in Int : rest = Power(2, Lesser(i, k)) * e
    <3>1. k \in Nat
      OBVIOUS
    <3>. QED BY <1>3, <2>1, <3>1, Halved
  <2>. HIDE DEF q, rest, v, p, b
  <2>5. q \in 0..15 /\ 10 \in Nat \ {0}
    BY <2>2
  <2>6. text \in Seq(Chars) /\ Len(text) = Len(s) + 1 /\ ValueOf(text, 10) = v * 10 + q
    <3>. DEFINE t == s \o <<Digit(q)>>
    <3>1. t \in Seq(Chars) /\ Len(t) = Len(s) + 1 /\ ValueOf(t, 10) = ValueOf(s, 10) * 10 + q
      BY Zenon, <2>1, <2>5, BackIs
    <3>. QED BY Zenon, <3>1 DEF v
  <2>7. v \in Nat
    BY Zenon, <2>1, <2>5, NumeralIs DEF v
  <2>8. p \in Nat /\ Power(10, Len(text)) = 10 * p
    <3>1. Len(s) \in Nat
      BY <2>1
    <3>. HIDE DEF text
    <3>2. Power(10, Len(s)) \in Nat /\ Power(10, Len(s) + 1) = 10 * Power(10, Len(s))
      BY <3>1, Power10Is
    <3>. QED BY Zenon, <2>6, <3>2 DEF p
  <2>9. (v * 10 + q) * d + rest = f * (10 * p)
    <3>1. (v * 10 + q) * d + rest = 10 * (v * d) + (d * q + rest)
      BY <1>1, <2>2, <2>7
    <3>2. v * d + a = f * p /\ v * d \in Nat /\ f * p \in Nat
      BY SMTT(30), <1>1, <1>2, <2>7, <2>8 DEF v, p
    <3>3. 10 * (v * d) + 10 * a = 10 * (f * p)
      BY <2>1, <3>2
    <3>4. 10 * (f * p) = f * (10 * p)
      BY <2>8
    <3>. QED BY <2>2, <3>1, <3>3, <3>4 DEF b
  <2>10. fin => rest = 0
    <3>1. ASSUME rest * Precision <= d PROVE rest = 0
      <4>1. d \in 1..1024 /\ rest \in 0..(d - 1)
        BY Zenon, <1>1, <2>2
      <4>. QED BY ONLY SMT, <3>1, <4>1 DEF Precision
    <3>. QED BY <3>1
  <2>11. rest \in Nat /\ rest < d
    BY <1>1, <2>2
  <2>12. y.f = rest /\ y.out = text /\ y.done = fin /\ fin \in BOOLEAN
    OBVIOUS
  <2>. HIDE DEF text, fin
  <2>13. y \in [f : Nat, out : Seq(Chars), done : BOOLEAN]
    BY <2>6, <2>11, <2>12
  <2>. HIDE DEF y
  <2>14. ValueOf(y.out, 10) * d + y.f = f * Power(10, Len(y.out))
    BY Zenon, <2>6, <2>8, <2>9, <2>12
  <2>15. y \in Remaining(f, d, k, i)
    BY Zenon, <2>4, <2>10, <2>11, <2>12, <2>13, <2>14 DEF Remaining
  <2>. QED BY Zenon, <2>3, <2>15
<1>. QED BY <1>4, <1>5

\* The digits of a fraction are worth it.
LEMMA FractionIs ==
    ASSUME NEW k \in 0..MAX_FLOATING_FRACTIONAL_DIGITS, NEW d, d = Power(2, k), NEW f \in Nat,
           f < d
    PROVE  LET text == Fraction(f, d, MAX_FLOATING_FRACTIONAL_DIGITS)
           IN text \in Seq(Chars) /\ ValueOf(text, 10) * d = f * Power(10, Len(text))
<1>. DEFINE n == MAX_FLOATING_FRACTIONAL_DIGITS
            once == [i \in 1..n |-> [x \in [f : Nat, out : Text, done : BOOLEAN] |->
                       LET rest == (10 * x.f) % d
                       IN IF x.done THEN x
                          ELSE [f |-> rest, out |-> x.out \o writeInt((10 * x.f) \div d),
                                done |-> rest * 10000000 <= d]]]
            first == [f |-> f, out |-> <<>>, done |-> FALSE]
            inv == [i \in 0..n |-> Remaining(f, d, k, i)]
            end == Loop(once, first, n)
<1>0. n \in Nat /\ n = 10 /\ k <= n /\ k \in Nat
  BY DEF MAX_FLOATING_FRACTIONAL_DIGITS
<1>1. Fraction(f, d, n) = end.out
  BY DEF Fraction
<1>s. \A i \in 1..n : \A x \in [f : Nat, out : Text, done : BOOLEAN] :
         once[i][x] = NextFraction(x, d)
  BY SMT DEF NextFraction, Precision
<1>. HIDE DEF once, end
<1>d. d \in Nat \ {0}
  <2>1. d \in 1..1024
    BY SMTT(30), SmallPowers
  <2>. QED BY ONLY <2>1
<1>. HIDE DEF n
<1>2. first \in inv[0]
  <2>1. first \in [f : Nat, out : Seq(Chars), done : BOOLEAN] /\ first.f = f
        /\ first.out = <<>> /\ ~first.done
    OBVIOUS
  <2>. HIDE DEF first
  <2>2. ValueOf(<<>>, 10) = 0 /\ Power(10, Len(<<>>)) = 1
    <3>1. 10 \in Nat \ {0} /\ <<>> \in Seq(Chars) /\ Len(<<>>) = 0
      OBVIOUS
    <3>2. ValueOf(<<>>, 10) = 0
      BY Zenon, <3>1, NumeralIs
    <3>. QED BY <3>1, <3>2, Power10Is
  <2>3. 0 * d + f = f * 1
    BY <1>d
  <2>4. ValueOf(first.out, 10) * d + first.f = f * Power(10, Len(first.out))
    BY Zenon, <2>1, <2>2, <2>3
  <2>5. f = Power(2, Lesser(0, k)) * f
    <3>1. Lesser(0, k) = 0
      BY <1>0 DEF Lesser
    <3>. QED BY <3>1, Power2Is
  <2>6. f \in Int
    OBVIOUS
  <2>7. first \in Remaining(f, d, k, 0)
    BY Zenon, <2>1, <2>4, <2>5, <2>6 DEF Remaining
  <2>. QED BY <1>0, <2>7
<1>3. ASSUME NEW i \in 1..n, NEW x \in inv[i - 1] PROVE once[i][x] \in inv[i]
  <2>. DEFINE j == i - 1
  <2>1. j \in Nat /\ j \in 0..n /\ i \in 0..n /\ i = j + 1
    BY <1>0
  <2>2. x \in Remaining(f, d, k, j)
    BY <2>1
  <2>3. x \in [f : Nat, out : Text, done : BOOLEAN]
    BY <2>2, CharsIn DEF Remaining
  <2>4. once[i][x] = NextFraction(x, d)
    BY <1>s, <2>3
  <2>. HIDE DEF j
  <2>5. NextFraction(x, d) \in Remaining(f, d, k, i)
    BY <2>1, <2>2, FractionStep
  <2>. QED BY <2>1, <2>4, <2>5
<1>4. end \in Remaining(f, d, k, n)
  <2>1. end \in inv[n]
    <3>. HIDE DEF inv, first
    <3>. QED BY <1>0, <1>2, <1>3, LoopKeeps DEF end
  <2>. QED BY <1>0, <2>1
<1>. DEFINE a == end.f
            text == end.out
<1>5. a \in Nat /\ text \in Seq(Chars) /\ a < d
      /\ ValueOf(text, 10) * d + a = f * Power(10, Len(text))
  BY <1>4 DEF Remaining
<1>6. PICK c \in Int : a = d * c
  <2>1. Lesser(n, k) = k
    BY <1>0 DEF Lesser
  <2>2. \E c \in Int : a = Power(2, Lesser(n, k)) * c
    BY Zenon, <1>4 DEF Remaining
  <2>. QED BY <2>1, <2>2
<1>7. a = 0
  <2>. HIDE DEF a
  <2>1. c # 0 => d * c >= d \/ d * c <= -d
    BY <1>d, AtLeast
  <2>2. c = 0 => a = 0
    BY <1>6, <1>d
  <2>3. ~(d * c >= d) /\ ~(d * c <= -d)
    BY <1>5, <1>6, <1>d
  <2>. QED BY Zenon, <2>1, <2>2, <2>3
<1>. HIDE DEF a, text
<1>8. ValueOf(text, 10) * d = f * Power(10, Len(text))
  <2>1. Len(text) \in Nat /\ 10 \in Nat \ {0}
    BY <1>5
  <2>. DEFINE v == ValueOf(text, 10)
  <2>2. v \in Nat
    BY Zenon, <1>5, <2>1, NumeralIs
  <2>. HIDE DEF v
  <2>3. v * d + 0 = v * d
    BY <1>d, <2>2
  <2>. QED BY Zenon, <1>5, <1>7, <2>3 DEF v
<1>. QED BY Zenon, <1>1, <1>5, <1>8 DEF text, n


Signs == Chars \cup {"-", "."}

\* No digit is a dot.
LEMMA NoDot == "." \notin Chars
<1>. SUFFICES ASSUME NEW d \in 0..15, Digit(d) = "." PROVE FALSE
  BY DEF Chars
<1>1. \A i \in 1..16 : digits[i] # "."
  BY DEF digits
<1>2. d + 1 \in 1..16
  OBVIOUS
<1>. QED BY <1>1, <1>2 DEF Digit

Dot(text) == CHOOSE i \in DOMAIN text : text[i] = "."

\* The digits on both sides of the dot are found again.
LEMMA DottedIs ==
    ASSUME NEW s \in Seq(Chars), s # <<>>, NEW t \in Seq(Chars)
    PROVE  LET text == (s \o <<".">>) \o t
           IN /\ text \in Seq(Signs) /\ text # <<>> /\ text[1] # "-"
              /\ SubSeq(text, 1, Dot(text) - 1) = s
              /\ SubSeq(text, Dot(text) + 1, Len(text)) = t
<1>. DEFINE one == <<".">>
            front == s \o one
            text == front \o t
            n == Len(s)
            m == Len(t)
<1>1. one \in Seq(Signs) /\ Len(one) = 1 /\ one[1] = "."
  BY DEF Signs
<1>2. s \in Seq(Signs) /\ t \in Seq(Signs) /\ n \in Nat /\ m \in Nat /\ n >= 1
  <2>1. s \in Seq(Signs)
    BY SeqMonotonic DEF Signs
  <2>2. t \in Seq(Signs)
    BY SeqMonotonic DEF Signs
  <2>3. n \in Nat \ {0} /\ m \in Nat
    BY EmptySeq, LenProperties
  <2>. QED BY <2>1, <2>2, <2>3
<1>. HIDE DEF one
<1>3. /\ front \in Seq(Signs) /\ Len(front) = n + Len(one)
      /\ \A i \in 1..(n + Len(one)) : front[i] = IF i <= n THEN s[i] ELSE one[i - n]
  BY Zenon, <1>1, <1>2, ConcatProperties
<1>. HIDE DEF front
<1>4. /\ text \in Seq(Signs) /\ Len(text) = Len(front) + m
      /\ \A i \in 1..(Len(front) + m) :
            text[i] = IF i <= Len(front) THEN front[i] ELSE t[i - Len(front)]
  BY ZenonT(30), <1>2, <1>3, ConcatProperties
<1>. HIDE DEF text
<1>5. Len(front) = n + 1 /\ Len(text) = n + 1 + m
  BY <1>1, <1>3, <1>4
<1>. HIDE DEF n, m
<1>6. ASSUME NEW i \in 1..n PROVE text[i] = s[i]
  <2>1. /\ i \in 1..(Len(front) + m) /\ i <= Len(front) /\ i \in 1..(n + Len(one)) /\ i <= n
    BY <1>1, <1>2, <1>5
  <2>2. text[i] = front[i]
    BY <1>4, <2>1
  <2>3. front[i] = s[i]
    BY <1>3, <2>1
  <2>. QED BY <2>2, <2>3
<1>7. text[n + 1] = "."
  <2>1. /\ n + 1 \in 1..(Len(front) + m) /\ n + 1 <= Len(front)
        /\ n + 1 \in 1..(n + Len(one)) /\ ~(n + 1 <= n) /\ (n + 1) - n = 1
    BY <1>1, <1>2, <1>5
  <2>2. text[n + 1] = front[n + 1]
    BY <1>4, <2>1
  <2>3. front[n + 1] = one[(n + 1) - n]
    BY <1>3, <2>1
  <2>. QED BY <1>1, <2>1, <2>2, <2>3
<1>8. ASSUME NEW i \in 1..m PROVE text[(n + 1) + i] = t[i]
  <2>1. /\ (n + 1) + i \in 1..(Len(front) + m) /\ ~((n + 1) + i <= Len(front))
        /\ ((n + 1) + i) - Len(front) = i
    BY <1>2, <1>5
  <2>2. text[(n + 1) + i] = t[((n + 1) + i) - Len(front)]
    BY <1>4, <2>1
  <2>. QED BY <2>1, <2>2
<1>9. Dot(text) = n + 1
  <2>1. DOMAIN text = 1..(n + 1 + m)
    BY <1>4, <1>5, LenProperties
  <2>2. n + 1 \in DOMAIN text
    BY <1>2, <2>1
  <2>3. ASSUME NEW i \in DOMAIN text, text[i] = "." PROVE i = n + 1
    <3>1. CASE i <= n
      <4>1. i \in 1..n /\ i \in 1..Len(s)
        BY <1>2, <2>1, <3>1 DEF n
      <4>2. s[i] \in Chars /\ text[i] = s[i]
        BY <1>6, <4>1, ElementOfSeq
      <4>. QED BY Zenon, <2>3, <4>2, NoDot
    <3>2. CASE i > n + 1
      <4>. DEFINE j == i - (n + 1)
      <4>1. j \in 1..m /\ j \in 1..Len(t) /\ (n + 1) + j = i
        BY <1>2, <2>1, <3>2 DEF m
      <4>. HIDE DEF j
      <4>2. t[j] \in Chars /\ text[(n + 1) + j] = t[j]
        BY <1>8, <4>1, ElementOfSeq
      <4>. QED BY Zenon, <2>3, <4>1, <4>2, NoDot
    <3>3. i \in 1..(n + 1 + m)
      BY <2>1
    <3>. QED BY <1>2, <3>1, <3>2, <3>3
  <2>. QED BY Zenon, <1>7, <2>2, <2>3 DEF Dot
<1>10. text # <<>> /\ text[1] # "-"
  <2>1. 1 \in 1..n
    BY <1>2
  <2>2. text[1] = s[1]
    BY <1>6, <2>1
  <2>3. s[1] # "-"
    BY NoSign
  <2>4. Len(text) # 0 /\ Len(<<>>) = 0
    BY <1>2, <1>5
  <2>. QED BY <2>2, <2>3, <2>4
<1>11. SubSeq(text, 1, n) = s
  <2>. DEFINE u == SubSeq(text, 1, n)
  <2>1. \A i \in 1..n : text[i] \in Signs
    <3>1. \A i \in 1..n : s[i] \in Signs
      BY <1>2, ElementOfSeq DEF n
    <3>. QED BY <1>6, <3>1
  <2>2. /\ u \in Seq(Signs) /\ Len(u) = IF 1 <= n THEN n - 1 + 1 ELSE 0
        /\ \A i \in 1..(n - 1 + 1) : u[i] = text[1 + i - 1]
    <3>1. 1 \in Int /\ n \in Int
      BY <1>2
    <3>. QED BY <2>1, <3>1, SubSeqProperties
  <2>. HIDE DEF u
  <2>3. Len(u) = n /\ n - 1 + 1 = n
    BY <1>2, <2>2
  <2>4. ASSUME NEW i \in 1..n PROVE u[i] = s[i]
    <3>1. 1 + i - 1 = i
      OBVIOUS
    <3>2. u[i] = text[1 + i - 1]
      BY <2>2, <2>3
    <3>. QED BY <1>6, <3>1, <3>2
  <2>. QED BY <1>2, <2>2, <2>3, <2>4, SeqEqual DEF n, u
<1>12. SubSeq(text, n + 2, Len(text)) = t
  <2>. DEFINE u == SubSeq(text, n + 2, Len(text))
              a == n + 2
              b == Len(text)
  <2>1. \A i \in a..b : text[i] \in Signs
    <3>1. \A i \in 1..Len(text) : text[i] \in Signs
      BY <1>4, ElementOfSeq
    <3>2. a..b \subseteq 1..Len(text)
      BY <1>2, <1>5
    <3>. QED BY <3>1, <3>2
  <2>2. a \in Int /\ b \in Int /\ b - a + 1 = m /\ (a <= b <=> m >= 1)
    BY <1>2, <1>5
  <2>. HIDE DEF a, b
  <2>3. /\ SubSeq(text, a, b) \in Seq(Signs)
        /\ Len(SubSeq(text, a, b)) = IF a <= b THEN b - a + 1 ELSE 0
        /\ \A i \in 1..(b - a + 1) : SubSeq(text, a, b)[i] = text[a + i - 1]
    BY <2>1, <2>2, SubSeqProperties
  <2>4. u = SubSeq(text, a, b)
    BY DEF a, b
  <2>. HIDE DEF u
  <2>5. Len(u) = m
    BY <1>2, <2>2, <2>3, <2>4
  <2>6. ASSUME NEW i \in 1..m PROVE u[i] = t[i]
    <3>1. a + i - 1 = (n + 1) + i
      BY <1>2 DEF a
    <3>2. u[i] = text[a + i - 1]
      BY <2>2, <2>3, <2>4
    <3>. QED BY <1>8, <3>1, <3>2
  <2>. QED BY <1>2, <2>3, <2>4, <2>5, <2>6, SeqEqual DEF m, u
<1>13. (n + 1) - 1 = n /\ (n + 1) + 1 = n + 2
  BY <1>2
<1>14. SubSeq(text, 1, Dot(text) - 1) = s /\ SubSeq(text, Dot(text) + 1, Len(text)) = t
  BY Zenon, <1>9, <1>11, <1>12, <1>13
<1>. QED BY Zenon, <1>4, <1>10, <1>14 DEF text, front, one


\* The reals that are printed in full.
Magnitude(num) == IF num[1] < 0 THEN -num[1] ELSE num[1]
Fits(num) ==
    \E k \in 0..MAX_FLOATING_FRACTIONAL_DIGITS :
       LET size == Power(2, LongBits) * Power(2, k)
       IN num = <<num[1], Power(2, k)>> /\ num[1] \in -(size - 1)..(size - 1)

\* They are those writeReal does not leave to writeRealDebug.
LEMMA FullIs ==
    ASSUME NEW num, Written(num), ~Large(num)
    PROVE  Fits(num) /\ writeReal(num) = writeReal_component(num)
<1>1. PICK k \in 0..MAX_FLOATING_FRACTIONAL_DIGITS :
         /\ num = <<num[1], Power(2, k)>> /\ num[1] \in Int
         /\ num[1] > -(Power(2, LongBits - 1) * Power(2, k))
  BY DEF Written
<1>. DEFINE n == num[1]
            d == Power(2, k)
            half == Power(2, LongBits - 1)
            size == Power(2, LongBits)
<1>2. num[2] = d
  <2>1. <<num[1], d>>[2] = d
    OBVIOUS
  <2>. QED BY Zenon, <1>1, <2>1
<1>3. ~(n > INT32_MAX * d)
  BY <1>2 DEF Large
<1>4. d \in Nat \ {0}
  <2>1. Power(2, k) \in 1..1024
    BY SMTT(30), SmallPowers
  <2>. HIDE DEF d
  <2>2. d \in 1..1024
    BY <2>1 DEF d
  <2>. QED BY <2>2
<1>5. size \in Nat /\ half \in Nat /\ size = 2 * half /\ INT32_MAX \in Nat /\ INT32_MAX < half
  <2>1. Bits \in Nat /\ Bits > 0 /\ U32 = Power(2, Bits) /\ LongBits \in Nat /\ Bits <= LongBits
    BY Zenon, WidthIs, LongWidth, FormatAssumption
  <2>2. LongBits - 1 \in Nat /\ (LongBits - 1) + 1 = LongBits
        /\ Bits - 1 \in Nat /\ (Bits - 1) + 1 = Bits /\ Bits - 1 <= LongBits - 1
    BY <2>1
  <2>3. size = 2 * half /\ half \in Nat \ {0}
    BY Zenon, <2>2, Power2Is
  <2>. DEFINE h == Power(2, Bits - 1)
  <2>4. U32 = 2 * h /\ h \in Nat \ {0}
    BY Zenon, <2>1, <2>2, Power2Is
  <2>5. h <= half
    <3>1. Bits - 1 < LongBits - 1 => 2 * h <= half
      BY Zenon, <2>2, PowersGrow
    <3>2. Bits - 1 = LongBits - 1 => h = half
      OBVIOUS
    <3>. HIDE DEF h, half
    <3>. QED BY <2>2, <2>3, <2>4, <3>1, <3>2
  <2>. HIDE DEF h, half, size
  <2>6. U32 \div 2 = h
    BY <2>4
  <2>. QED BY <2>3, <2>4, <2>5, <2>6 DEF INT32_MAX
<1>. HIDE DEF n, d, half, size
<1>6. n \in -(size * d - 1)..(size * d - 1)
  <2>1. n \in Int /\ n > -(half * d)
    BY <1>1 DEF n, d, half
  <2>2. INT32_MAX * d < half * d
    BY <1>4, <1>5
  <2>3. size * d = half * d + half * d /\ half * d \in Nat /\ INT32_MAX * d \in Nat
    BY <1>4, <1>5
  <2>4. n < half * d
    BY <1>3, <2>1, <2>2, <2>3
  <2>. QED BY <2>1, <2>3, <2>4
<1>7. Fits(num)
  BY Zenon, <1>1, <1>6 DEF Fits, n, d, size
<1>8. writeReal(num) = writeReal_component(num)
  BY <1>2, <1>3 DEF writeReal, n
<1>. QED BY <1>7, <1>8

\* Whole part and fraction are those of the number, without its sign.
LEMMA PartsAre ==
    ASSUME NEW num, Fits(num)
    PROVE  LET n == Magnitude(num)
               whole == writeInt64(n \div num[2])
               frac == Fraction(n % num[2], num[2], MAX_FLOATING_FRACTIONAL_DIGITS)
           IN /\ whole \in Seq(Chars) /\ whole # <<>> /\ frac \in Seq(Chars)
              /\ Reads(whole, n \div num[2]) <=> Exact(n \div num[2])
              /\ ValueOf(frac, 10) * num[2] = (n % num[2]) * Power(10, Len(frac))
<1>. DEFINE n == Magnitude(num)
            size == Power(2, LongBits)
<1>1. PICK k \in 0..MAX_FLOATING_FRACTIONAL_DIGITS :
         /\ num = <<num[1], Power(2, k)>>
         /\ num[1] \in -(size * Power(2, k) - 1)..(size * Power(2, k) - 1)
  BY DEF Fits
<1>. DEFINE d == num[2]
            z == num[1]
<1>2. d = Power(2, k)
  <2>1. <<num[1], Power(2, k)>>[2] = Power(2, k)
    OBVIOUS
  <2>. QED BY Zenon, <1>1, <2>1
<1>3. d \in Nat \ {0} /\ size \in Nat \ {0}
  <2>1. Power(2, k) \in 1..1024
    BY SMTT(30), SmallPowers
  <2>2. d \in 1..1024
    BY SMTT(30), <1>2, <2>1
  <2>3. size \in Nat \ {0}
    BY LongWidth, Power2Is
  <2>. HIDE DEF d, size
  <2>. QED BY <2>2, <2>3
<1>4. z \in -(size * d - 1)..(size * d - 1)
  BY Zenon, <1>1, <1>2
<1>. DEFINE m == size * d
<1>5. m \in Nat
  <2>. HIDE DEF size, d
  <2>. QED BY <1>3
<1>6. n \in Nat /\ n < m
  <2>1. n = IF z < 0 THEN -z ELSE z
    BY DEF Magnitude
  <2>2. z \in -(m - 1)..(m - 1)
    BY <1>4
  <2>. HIDE DEF n, z, m
  <2>. QED BY <1>5, <2>1, <2>2
<1>. DEFINE q == n \div d
            f == n % d
<1>7. q \in Nat /\ f \in 0..(d - 1) /\ n = d * q + f
  <2>. HIDE DEF n, d
  <2>. QED BY Zenon, <1>3, <1>6, DivIs
<1>. HIDE DEF n, d, q, f, z
<1>8. q \in 0..(size - 1)
  <2>. SUFFICES ASSUME q >= size PROVE FALSE
    <3>. HIDE DEF size
    <3>. QED BY <1>3, <1>7
  <2>. DEFINE u == q - size
  <2>1. u \in Nat /\ q = size + u
    <3>. HIDE DEF size
    <3>. QED BY <1>3, <1>7
  <2>. HIDE DEF u, size
  <2>2. d * q = size * d + d * u /\ d * u \in Nat
    BY <1>3, <2>1
  <2>. QED BY <1>3, <1>5, <1>6, <1>7, <2>2
<1>9. f \in Nat /\ f < d
  BY <1>3, <1>7
<1>. DEFINE whole == writeInt64(q)
            frac == Fraction(f, d, MAX_FLOATING_FRACTIONAL_DIGITS)
<1>10. whole = writeUInt64(q) /\ (Reads(writeUInt64(q), q) <=> Exact(q))
  BY Zenon, <1>8, LongReads
<1>11. writeUInt64(q) \in Seq(Chars) /\ writeUInt64(q) # <<>>
  BY Zenon, <1>8, LongIs
<1>12. frac \in Seq(Chars) /\ ValueOf(frac, 10) * d = f * Power(10, Len(frac))
  BY Zenon, <1>2, <1>9, FractionIs
<1>. QED BY Zenon, <1>10, <1>11, <1>12 DEF n, d, q, f

Joint(a, b, c) == (a \o b) \o c = a \o (b \o c)
InFront(a, b, c, d) == ((a \o b) \o c) \o d = a \o ((b \o c) \o d)

\* In which order texts are joined does not matter.
LEMMA JointIs ==
    ASSUME NEW S, NEW a \in Seq(S), NEW b \in Seq(S), NEW c \in Seq(S)
    PROVE  Joint(a, b, c)
BY ConcatAssociative DEF Joint

\* The sign may as well be put in front of all the rest.
LEMMA FourParts ==
    ASSUME NEW S, NEW a \in Seq(S), NEW b \in Seq(S), NEW c \in Seq(S), NEW d \in Seq(S)
    PROVE  InFront(a, b, c, d)
<1>1. b \o c \in Seq(S)
  BY ConcatProperties
<1>2. Joint(a, b \o c, d) /\ Joint(a, b, c)
  BY Zenon, <1>1, JointIs
<1>. QED BY <1>2 DEF Joint, InFront

\* What is printed for a real in full.
LEMMA RealReads ==
    ASSUME NEW num, Fits(num)
    PROVE  LET line == writeReal_component(num)
               n == Magnitude(num)
               text == IF num[1] < 0 THEN Tail(line) ELSE line
               frac == SubSeq(text, Dot(text) + 1, Len(text))
           IN /\ num[1] < 0 <=> line[1] = "-"
              /\ Reads(SubSeq(text, 1, Dot(text) - 1), n \div num[2]) <=> Exact(n \div num[2])
              /\ ValueOf(frac, 10) * num[2] = (n % num[2]) * Power(10, Len(frac))
<1>. DEFINE n == Magnitude(num)
            whole == writeInt64(n \div num[2])
            frac == Fraction(n % num[2], num[2], MAX_FLOATING_FRACTIONAL_DIGITS)
            dot == <<".">>
            text == (whole \o dot) \o frac
            line == writeReal_component(num)
<1>1. /\ whole \in Seq(Chars) /\ whole # <<>> /\ frac \in Seq(Chars)
      /\ Reads(whole, n \div num[2]) <=> Exact(n \div num[2])
      /\ ValueOf(frac, 10) * num[2] = (n % num[2]) * Power(10, Len(frac))
  BY Zenon, PartsAre
<1>2. line = (((IF num[1] < 0 THEN <<"-">> ELSE <<>>) \o whole) \o dot) \o frac
  BY Zenon DEF writeReal_component, Magnitude
<1>. HIDE DEF whole, frac, line, n
<1>3. /\ text \in Seq(Signs) /\ text # <<>> /\ text[1] # "-"
      /\ SubSeq(text, 1, Dot(text) - 1) = whole
      /\ SubSeq(text, Dot(text) + 1, Len(text)) = frac
  BY Zenon, <1>1, DottedIs
<1>4. whole \in Seq(Signs) /\ frac \in Seq(Signs) /\ dot \in Seq(Signs)
  <2>1. whole \in Seq(Signs) /\ frac \in Seq(Signs)
    BY <1>1, SeqMonotonic DEF Signs
  <2>2. dot \in Seq(Signs)
    BY DEF Signs
  <2>. QED BY <2>1, <2>2
<1>5. ASSUME num[1] < 0
      PROVE  line = <<"-">> \o text
  <2>. DEFINE sign == <<"-">>
  <2>1. sign \in Seq(Signs)
    BY DEF Signs
  <2>2. line = ((sign \o whole) \o dot) \o frac
    BY Zenon, <1>2, <1>5
  <2>. HIDE DEF sign, dot
  <2>3. InFront(sign, whole, dot, frac)
    BY Zenon, <1>4, <2>1, FourParts
  <2>. QED BY Zenon, <2>2, <2>3 DEF InFront, sign, text, dot
<1>6. ASSUME ~(num[1] < 0)
      PROVE  line = text
  <2>1. <<>> \o whole = whole
    BY <1>4, ConcatEmptySeq
  <2>. QED BY Zenon, <1>2, <1>6, <2>1
<1>. HIDE DEF text, dot
<1>7. /\ line \in Seq(Signs)
      /\ text = IF num[1] < 0 THEN Tail(line) ELSE line
      /\ num[1] < 0 <=> line[1] = "-"
  <2>1. CASE num[1] < 0
    <3>1. "-" \in Signs
      BY DEF Signs
    <3>. DEFINE l == <<"-">> \o text
    <3>2. l \in Seq(Signs) /\ l # <<>> /\ l[1] = "-" /\ Tail(l) = text
      BY Zenon, <1>3, <3>1, BehindSign
    <3>. QED BY Zenon, <1>5, <2>1, <3>2
  <2>2. CASE ~(num[1] < 0)
    BY Zenon, <1>3, <1>6, <2>2
  <2>. QED BY Zenon, <2>1, <2>2
<1>. QED BY Zenon, <1>1, <1>3, <1>7 DEF n, line

-----------------------------------------------------------------------------
(* Reals beyond INT32_MAX                                                  *)

\* A part of a text.
LEMMA Slice ==
    ASSUME NEW S, NEW t \in Seq(S), NEW s \in Seq(S), NEW k \in Nat,
           k + Len(s) <= Len(t), \A j \in 1..Len(s) : t[k + j] = s[j]
    PROVE  SubSeq(t, k + 1, k + Len(s)) = s
<1>. DEFINE n == Len(s)
            u == SubSeq(t, k + 1, k + n)
<1>1. n \in Nat /\ s = [j \in 1..n |-> s[j]]
  OBVIOUS
<1>2. u = [j \in 1..n |-> t[k + j]]
  <2>1. u = [j \in 1..(1 + (k + n) - (k + 1)) |-> t[j + (k + 1) - 1]]
    OBVIOUS
  <2>2. 1 + (k + n) - (k + 1) = n /\ \A j \in 1..n : j + (k + 1) - 1 = k + j
    BY <1>1
  <2>. HIDE DEF n, u
  <2>. QED BY <2>1, <2>2
<1>. HIDE DEF u
<1>. QED BY <1>1, <1>2 DEF u

\* The second of two texts, and parts of the first, are found in both together.
Together(S, a, b, t) ==
    /\ t \in Seq(S) /\ Len(t) = Len(a) + Len(b)
    /\ SubSeq(t, Len(a) + 1, Len(t)) = b
    /\ \A i \in Nat \ {0}, j \in 0..Len(a) : SubSeq(t, i, j) = SubSeq(a, i, j)
LEMMA TwoTexts ==
    ASSUME NEW S, NEW a \in Seq(S), NEW b \in Seq(S)
    PROVE  Together(S, a, b, a \o b)
<1>. DEFINE t == a \o b
            n == Len(a)
            m == Len(b)
<1>1. /\ t \in Seq(S) /\ Len(t) = n + m /\ n \in Nat /\ m \in Nat
      /\ \A i \in 1..(n + m) : t[i] = IF i <= n THEN a[i] ELSE b[i - n]
  BY ConcatProperties
<1>. HIDE DEF t
<1>2. SubSeq(t, n + 1, Len(t)) = b
  <2>1. \A j \in 1..m : t[n + j] = b[j]
    <3>. TAKE j \in 1..m
    <3>. HIDE DEF n, m
    <3>1. n + j \in 1..(n + m) /\ ~(n + j <= n) /\ (n + j) - n = j
      BY <1>1
    <3>2. t[n + j] = b[(n + j) - n]
      BY <1>1, <3>1
    <3>. QED BY <3>1, <3>2
  <2>2. SubSeq(t, n + 1, n + Len(b)) = b
    BY <1>1, <2>1, Slice
  <2>. QED BY <1>1, <2>2
<1>3. \A i \in Nat \ {0}, j \in 0..n : SubSeq(t, i, j) = SubSeq(a, i, j)
  <2>. TAKE i \in Nat \ {0}, j \in 0..n
  <2>1. SubSeq(t, i, j) = [k \in 1..(1 + j - i) |-> t[k + i - 1]]
    <3>1. t \in Seq(S) /\ i \in Nat /\ j \in Nat
      BY <1>1
    <3>. QED BY <3>1
  <2>2. SubSeq(a, i, j) = [k \in 1..(1 + j - i) |-> a[k + i - 1]]
    OBVIOUS
  <2>3. \A k \in 1..(1 + j - i) : t[k + i - 1] = a[k + i - 1]
    <3>. TAKE k \in 1..(1 + j - i)
    <3>. HIDE DEF n, m
    <3>1. k + i - 1 \in 1..(n + m) /\ k + i - 1 <= n
      BY <1>1
    <3>. QED BY <1>1, <3>1
  <2>. QED BY <2>1, <2>2, <2>3
<1>4. Together(S, a, b, t)
  BY <1>1, <1>2, <1>3 DEF Together
<1>. QED BY <1>4 DEF t

\* Four texts are found in all of them together.
Found(x, a, y, b, t, i) ==
    /\ i \in 1..Len(t)
    /\ SubSeq(t, 1, 2) = x /\ SubSeq(t, 3, i) = a
    /\ SubSeq(t, i + 1, i + 5) = y /\ SubSeq(t, i + 6, Len(t)) = b
LEMMA FourTexts ==
    ASSUME NEW S, NEW x \in Seq(S), NEW a \in Seq(S), NEW y \in Seq(S), NEW b \in Seq(S),
           Len(x) = 2, Len(y) = 5
    PROVE  Found(x, a, y, b, ((x \o a) \o y) \o b, 2 + Len(a))
<1>. DEFINE p == x \o a
            q == p \o y
            t == q \o b
            i == 2 + Len(a)
<1>1. /\ p \in Seq(S) /\ Len(p) = i /\ SubSeq(p, 3, i) = a
      /\ \A k \in Nat \ {0}, j \in 0..2 : SubSeq(p, k, j) = SubSeq(x, k, j)
  <2>1. /\ p \in Seq(S) /\ Len(p) = Len(x) + Len(a)
        /\ SubSeq(p, Len(x) + 1, Len(p)) = a
        /\ \A k \in Nat \ {0}, j \in 0..Len(x) : SubSeq(p, k, j) = SubSeq(x, k, j)
    <3>1. Together(S, x, a, p)
      BY Zenon, TwoTexts
    <3>. HIDE DEF p
    <3>. QED BY Zenon, <3>1 DEF Together
  <2>2. Len(x) + 1 = 3 /\ Len(x) + Len(a) = i
    OBVIOUS
  <2>. HIDE DEF p, i
  <2>. QED BY Zenon, <2>1, <2>2
<1>. HIDE DEF p
<1>2. i \in Nat /\ i >= 2
  OBVIOUS
<1>. HIDE DEF i
<1>3. /\ q \in Seq(S) /\ Len(q) = i + 5 /\ SubSeq(q, i + 1, i + 5) = y
      /\ \A k \in Nat \ {0}, j \in 0..i : SubSeq(q, k, j) = SubSeq(p, k, j)
  <2>1. /\ q \in Seq(S) /\ Len(q) = Len(p) + Len(y)
        /\ SubSeq(q, Len(p) + 1, Len(q)) = y
        /\ \A k \in Nat \ {0}, j \in 0..Len(p) : SubSeq(q, k, j) = SubSeq(p, k, j)
    <3>1. Together(S, p, y, q)
      BY Zenon, <1>1, TwoTexts
    <3>. HIDE DEF q
    <3>. QED BY Zenon, <3>1 DEF Together
  <2>. HIDE DEF q
  <2>. QED BY Zenon, <1>1, <2>1
<1>. HIDE DEF q
<1>4. /\ t \in Seq(S) /\ Len(t) = i + 5 + Len(b) /\ SubSeq(t, i + 6, Len(t)) = b
      /\ \A k \in Nat \ {0}, j \in 0..(i + 5) : SubSeq(t, k, j) = SubSeq(q, k, j)
  <2>1. /\ t \in Seq(S) /\ Len(t) = Len(q) + Len(b)
        /\ SubSeq(t, Len(q) + 1, Len(t)) = b
        /\ \A k \in Nat \ {0}, j \in 0..Len(q) : SubSeq(t, k, j) = SubSeq(q, k, j)
    <3>1. Together(S, q, b, t)
      BY Zenon, <1>3, TwoTexts
    <3>. HIDE DEF t
    <3>. QED BY Zenon, <3>1 DEF Together
  <2>2. (i + 5) + 1 = i + 6
    BY <1>2
  <2>. HIDE DEF t
  <2>. QED BY Zenon, <1>3, <2>1, <2>2
<1>. HIDE DEF t
<1>5. i \in 1..Len(t)
  <2>1. Len(b) \in Nat
    OBVIOUS
  <2>. QED BY <1>2, <1>4, <2>1
<1>6. SubSeq(t, 1, 2) = x
  <2>1. SubSeq(x, 1, 2) = x
    BY SubSeqFull
  <2>2. /\ SubSeq(p, 1, 2) = SubSeq(x, 1, 2)
        /\ SubSeq(q, 1, 2) = SubSeq(p, 1, 2)
        /\ SubSeq(t, 1, 2) = SubSeq(q, 1, 2)
    <3>1. 1 \in Nat \ {0} /\ 2 \in 0..2 /\ 2 \in 0..i /\ 2 \in 0..(i + 5)
      BY <1>2
    <3>. QED BY Zenon, <1>1, <1>3, <1>4, <3>1
  <2>. QED BY Zenon, <2>1, <2>2
<1>7. SubSeq(t, 3, i) = a
  <2>1. 3 \in Nat \ {0} /\ i \in 0..i /\ i \in 0..(i + 5)
    BY <1>2
  <2>. QED BY ZenonT(60), <1>1, <1>3, <1>4, <2>1
<1>8. SubSeq(t, i + 1, i + 5) = y
  <2>1. i + 1 \in Nat \ {0} /\ i + 5 \in 0..(i + 5)
    BY <1>2
  <2>. QED BY Zenon, <1>3, <1>4, <2>1
<1>9. Found(x, a, y, b, t, i)
  BY Zenon, <1>4, <1>5, <1>6, <1>7, <1>8 DEF Found
<1>. QED BY Zenon, <1>9 DEF t, q, p, i

\* The mantissa of a number that is at least b and less than twice as large, in
\* units of which b has one.
LEMMA MantissaIs ==
    ASSUME NEW n \in Nat, NEW b \in Nat \ {0}, NEW one \in Nat \ {0}, b <= n, n < 2 * b
    PROVE  (n * one) \div b - one \in 0..(one - 1)
<1>. DEFINE N == n * one
            q == N \div b
            r == N % b
<1>1. N \in Nat /\ b * one <= N /\ N < 2 * (b * one) /\ b * one \in Nat
  <2>. DEFINE u == n - b
              v == 2 * b - n
  <2>1. u \in Nat /\ v \in Nat \ {0} /\ n = b + u /\ 2 * b = n + v
    OBVIOUS
  <2>. HIDE DEF u, v
  <2>2. n * one = b * one + u * one /\ u * one \in Nat
    BY <2>1
  <2>3. 2 * (b * one) = n * one + v * one /\ v * one \in Nat \ {0}
    <3>1. (2 * b) * one = 2 * (b * one)
      OBVIOUS
    <3>2. (n + v) * one = n * one + v * one
      BY <2>1
    <3>3. v * one \in Nat \ {0}
      BY <2>1
    <3>. QED BY <2>1, <3>1, <3>2, <3>3
  <2>4. n * one \in Nat /\ b * one \in Nat
    OBVIOUS
  <2>. QED BY <2>2, <2>3, <2>4
<1>. HIDE DEF N
<1>2. q \in Nat /\ r \in 0..(b - 1) /\ N = b * q + r
  BY Zenon, <1>1, DivIs
<1>. HIDE DEF q, r
<1>3. q >= one
  <2>. SUFFICES ASSUME q < one PROVE FALSE
    BY <1>2
  <2>. DEFINE u == one - q
  <2>1. u \in Nat /\ u >= 1 /\ one = q + u
    BY <1>2
  <2>. HIDE DEF u
  <2>2. b * one = b * q + b * u
    BY <1>2, <2>1
  <2>3. b * u >= b
    <3>1. b * u = b + b * (u - 1) /\ u - 1 \in Nat
      BY <2>1
    <3>2. b * (u - 1) \in Nat /\ b * u \in Nat
      BY <2>1, <3>1
    <3>. QED BY <3>1, <3>2
  <2>4. b * q \in Nat /\ b * u \in Nat
    BY <1>2, <2>1
  <2>. QED BY <1>1, <1>2, <2>2, <2>3, <2>4
<1>4. q < 2 * one
  <2>. SUFFICES ASSUME q >= 2 * one PROVE FALSE
    BY <1>2
  <2>. DEFINE u == q - 2 * one
  <2>1. u \in Nat /\ q = 2 * one + u
    BY <1>2
  <2>. HIDE DEF u
  <2>2. b * q = 2 * (b * one) + b * u
    BY <1>2, <2>1
  <2>3. b * q \in Nat /\ b * u \in Nat
    BY <1>2, <2>1
  <2>. QED BY <1>1, <1>2, <2>2, <2>3
<1>. QED BY <1>2, <1>3, <1>4 DEF q, N

\* What is printed for a real beyond INT32_MAX.
LEMMA LargeReads ==
    ASSUME NEW num, Written(num), Large(num), \E e \in 0..MaxExponent : Between(num, e)
    PROVE  LET out2 == writeReal(num)
               one == Power(2, MantissaBits)
               e == Exponent(num)
               m == (num[1] * one) \div (num[2] * Power(2, e)) - one
           IN \E i \in DOMAIN out2 :
                 /\ e \in 0..MaxExponent /\ Between(num, e) /\ m \in 0..(one - 1)
                 /\ SubSeq(out2, 1, 2) = <<"1", ".">>
                 /\ Reads(SubSeq(out2, 3, i), m % U32) <=> Exact(m % U32)
                 /\ SubSeq(out2, i + 1, i + 5) = <<" ", "*", " ", "2", "^">>
                 /\ Reads(SubSeq(out2, i + 6, Len(out2)), e)
<1>. DEFINE e == Exponent(num)
            m == Mantissa(num)
            low == m % U32
            one == Power(2, MantissaBits)
            n == num[1]
            d == num[2]
            x == <<"1", ".">>
            a == writeUInt64(low)
            y == <<" ", "*", " ", "2", "^">>
            b == writeInt(e)
            S == Chars \cup {"1", ".", " ", "*", "2", "^"}
<1>1. e \in 0..MaxExponent /\ Between(num, e)
  BY DEF Exponent
<1>2. MantissaBits \in Nat /\ Bits \in Nat /\ LongBits \in Nat /\ Bits <= LongBits
      /\ MaxExponent < U32 \div 2
  BY Zenon, FormatAssumption, WidthIs, LongWidth
<1>3. U32 \in Nat \ {0} /\ U32 = Power(2, Bits) /\ one \in Nat \ {0}
  BY Zenon, <1>2, WidthIs, Power2Is
<1>4. n \in Int /\ d \in Nat \ {0}
  <2>1. PICK k \in 0..MAX_FLOATING_FRACTIONAL_DIGITS :
           num = <<num[1], Power(2, k)>> /\ num[1] \in Int
    BY DEF Written
  <2>2. <<num[1], Power(2, k)>>[2] = Power(2, k)
    OBVIOUS
  <2>3. d = Power(2, k)
    BY Zenon, <2>1, <2>2
  <2>4. k \in Nat
    BY DEF MAX_FLOATING_FRACTIONAL_DIGITS
  <2>5. Power(2, k) \in Nat \ {0}
    BY Zenon, <2>4, Power2Is
  <2>. QED BY Zenon, <2>1, <2>3, <2>5
<1>5. e \in Nat
  BY <1>1 DEF MaxExponent
<1>6. m \in 0..(one - 1)
  <2>. DEFINE p == Power(2, e)
              base == d * p
  <2>1. p \in Nat \ {0} /\ Power(2, e + 1) = 2 * p
    BY Zenon, <1>5, Power2Is
  <2>2. p * d <= n /\ n < (2 * p) * d
    BY Zenon, <1>1, <2>1 DEF Between
  <2>3. m = (n * one) \div base - one
    BY DEF Mantissa
  <2>. HIDE DEF p, n, d, one, m
  <2>4. base \in Nat \ {0} /\ p * d = base /\ (2 * p) * d = 2 * base
    BY <1>4, <2>1
  <2>. HIDE DEF base
  <2>5. n \in Nat /\ base <= n /\ n < 2 * base
    BY <1>4, <2>2, <2>4
  <2>6. (n * one) \div base - one \in 0..(one - 1)
    BY Zenon, <1>3, <2>4, <2>5, MantissaIs
  <2>. QED BY Zenon, <2>3, <2>6
<1>7. low \in 0..(U32 - 1)
  <2>. HIDE DEF m, one
  <2>. QED BY <1>3, <1>6
<1>8. low \in 0..(Power(2, LongBits) - 1)
  <2>. DEFINE size == Power(2, LongBits)
  <2>1. Bits < LongBits => 2 * Power(2, Bits) <= size
    BY Zenon, <1>2, PowersGrow
  <2>2. Bits = LongBits => Power(2, Bits) = size
    OBVIOUS
  <2>3. size \in Nat
    BY Zenon, <1>2, Power2Is
  <2>. HIDE DEF low, size
  <2>4. U32 <= size
    BY <1>2, <1>3, <2>1, <2>2, <2>3
  <2>. QED BY <1>3, <1>7, <2>3, <2>4 DEF size
<1>. HIDE DEF low, m, one, e
<1>9. a \in Seq(Chars) /\ (Reads(a, low) <=> Exact(low))
  BY Zenon, <1>8, LongIs, LongReads
<1>10. e \in 0..(U32 - 1)
  <2>1. \A u \in Nat : u \div 2 <= u /\ u \div 2 \in Nat
    OBVIOUS
  <2>2. MaxExponent \in Nat /\ U32 \div 2 <= U32 /\ U32 \div 2 \in Nat /\ U32 \in Nat
    BY <1>3, <2>1 DEF MaxExponent
  <2>3. e <= MaxExponent /\ MaxExponent < U32 \div 2
    BY <1>1, <1>2 DEF MaxExponent
  <2>. QED BY <1>5, <2>2, <2>3
<1>11. b \in Seq(Chars) /\ Reads(b, e)
  <2>1. writeInt(e) = writeUInt(e)
    BY <1>5 DEF writeInt
  <2>2. writeUInt(e) \in Seq(Chars)
    BY Zenon, <1>10, UIntIs
  <2>3. Reads(writeUInt(e), e)
    BY Zenon, <1>10, UnsignedIs
  <2>. QED BY Zenon, <2>1, <2>2, <2>3
<1>12. writeReal(num) = ((x \o a) \o y) \o b
  <2>1. num[1] > INT32_MAX * num[2]
    BY DEF Large
  <2>2. writeReal(num) = writeRealDebug(num)
    BY Zenon, <2>1 DEF writeReal
  <2>. QED BY Zenon, <2>2 DEF writeRealDebug, low, m, e
<1>. HIDE DEF a, b
<1>13. x \in Seq(S) /\ y \in Seq(S) /\ Len(x) = 2 /\ Len(y) = 5
  OBVIOUS
<1>14. a \in Seq(S) /\ b \in Seq(S)
  <2>1. Chars \subseteq S
    OBVIOUS
  <2>. HIDE DEF S
  <2>2. Seq(Chars) \subseteq Seq(S)
    BY <2>1, SeqMonotonic
  <2>. QED BY <1>9, <1>11, <2>2
<1>. DEFINE t == ((x \o a) \o y) \o b
            i == 2 + Len(a)
<1>. HIDE DEF x, y, S
<1>15. /\ i \in 1..Len(t)
       /\ SubSeq(t, 1, 2) = x /\ SubSeq(t, 3, i) = a
       /\ SubSeq(t, i + 1, i + 5) = y /\ SubSeq(t, i + 6, Len(t)) = b
  <2>1. Found(x, a, y, b, t, i)
    BY Zenon, <1>13, <1>14, FourTexts
  <2>. HIDE DEF t, i
  <2>. QED BY Zenon, <2>1 DEF Found
<1>16. i \in DOMAIN t
  <2>1. t \in Seq(S)
    BY <1>13, <1>14, ConcatProperties
  <2>. HIDE DEF t, i
  <2>. QED BY <1>15, <2>1
<1>. HIDE DEF t, i
<1>17. m = (num[1] * one) \div (num[2] * Power(2, e)) - one
  BY Zenon DEF m, one, e, Mantissa
<1>18. writeReal(num) = t
  BY Zenon, <1>12 DEF t
<1>19. /\ i \in DOMAIN t /\ e \in 0..MaxExponent /\ Between(num, e) /\ m \in 0..(one - 1)
       /\ SubSeq(t, 1, 2) = <<"1", ".">>
       /\ Reads(SubSeq(t, 3, i), m % U32) <=> Exact(m % U32)
       /\ SubSeq(t, i + 1, i + 5) = <<" ", "*", " ", "2", "^">>
       /\ Reads(SubSeq(t, i + 6, Len(t)), e)
  BY Zenon, <1>1, <1>6, <1>9, <1>11, <1>15, <1>16 DEF low, x, y
<1>. QED BY Zenon, <1>17, <1>18, <1>19 DEF one, e

\* What the 64-bit routines and writeReal print.
LEMMA LongsRead == IInv => LongsReadBack
<1>1. ASSUME IInv, After("print64")
      PROVE  /\ Reads(out[1], job.num) <=> Exact(job.num)
             /\ Reads(out[2], -job.num) <=> Exact(job.num)
  <2>. DEFINE num == job.num
  <2>1. out = <<directive("q", num), writeInt64(-num)>>
    BY <1>1 DEF IInv, Answered
  <2>2. num \in LongNumbers
    BY <1>1 DEF IInv, Asked, After
  <2>. HIDE DEF num
  <2>3. num \in 0..(Power(2, LongBits) - 1)
    <3>1. LongNumbers \subseteq 0..(Power(2, LongBits) - 1)
      BY Zenon, NumbersAssumption
    <3>. QED BY Zenon, <2>2, <3>1
  <2>4. writeUInt64(num) \in Seq(Chars)
    BY Zenon, <2>3, LongIs
  <2>5. directive("q", num) = writeUInt64(num)
    BY Zenon, <2>4, DirectivesAre
  <2>6. out[1] = writeUInt64(num) /\ out[2] = writeInt64(-num)
    BY <2>1, <2>5
  <2>7. /\ Reads(writeUInt64(num), num) <=> Exact(num)
        /\ Reads(writeInt64(-num), -num) <=> Exact(num)
    BY Zenon, <2>3, LongReads
  <2>. QED BY Zenon, <2>6, <2>7 DEF num
<1>2. ASSUME IInv, After("real"), ~Large(job.num)
      PROVE  LET n == IF job.num[1] < 0 THEN -job.num[1] ELSE job.num[1]
                 text == IF job.num[1] < 0 THEN Tail(out) ELSE out
                 dot == CHOOSE i \in DOMAIN text : text[i] = "."
                 frac == SubSeq(text, dot + 1, Len(text))
             IN /\ (job.num[1] < 0) <=> (out[1] = "-")
                /\ Reads(SubSeq(text, 1, dot - 1), n \div job.num[2])
                   <=> Exact(n \div job.num[2])
                /\ ValueOf(frac, 10) * job.num[2]
                   = (n % job.num[2]) * Power(10, Len(frac))
  <2>. DEFINE num == job.num
  <2>1. out = directive("f", num)
    BY <1>2 DEF IInv, Answered
  <2>2. num \in Reals
    BY <1>2 DEF IInv, Asked, After
  <2>3. Written(num) /\ ~Large(num)
    <3>1. Written(num)
      <4>. HIDE DEF num
      <4>. QED BY Zenon, <2>2, NumbersAssumption
    <3>. QED BY Zenon, <1>2, <3>1
  <2>. HIDE DEF num
  <2>4. Fits(num) /\ writeReal(num) = writeReal_component(num)
    BY Zenon, <2>3, FullIs
  <2>5. out = writeReal_component(num)
    BY Zenon, <2>1, <2>4, DirectivesAre
  <2>6. LET line == writeReal_component(num)
            n == Magnitude(num)
            text == IF num[1] < 0 THEN Tail(line) ELSE line
            frac == SubSeq(text, Dot(text) + 1, Len(text))
        IN /\ num[1] < 0 <=> line[1] = "-"
           /\ Reads(SubSeq(text, 1, Dot(text) - 1), n \div num[2]) <=> Exact(n \div num[2])
           /\ ValueOf(frac, 10) * num[2] = (n % num[2]) * Power(10, Len(frac))
    BY Zenon, <2>4, RealReads
  <2>. QED BY Zenon, <2>5, <2>6 DEF num, Magnitude, Dot
<1>3. ASSUME IInv, After("real"), Large(job.num)
      PROVE  \E i \in DOMAIN out, e \in 0..MaxExponent :
                LET one == Power(2, MantissaBits)
                    m == (job.num[1] * one) \div (job.num[2] * Power(2, e)) - one
                IN /\ Between(job.num, e) /\ m \in 0..(one - 1)
                   /\ SubSeq(out, 1, 2) = <<"1", ".">>
                   /\ Reads(SubSeq(out, 3, i), m % U32) <=> Exact(m % U32)
                   /\ SubSeq(out, i + 1, i + 5) = <<" ", "*", " ", "2", "^">>
                   /\ Reads(SubSeq(out, i + 6, Len(out)), e)
  <2>. DEFINE num == job.num
  <2>1. out = directive("f", num)
    BY <1>3 DEF IInv, Answered
  <2>2. num \in Reals
    BY <1>3 DEF IInv, Asked, After
  <2>3. Written(num) /\ Large(num) /\ \E e \in 0..MaxExponent : Between(num, e)
    <3>1. Large(num)
      BY <1>3
    <3>. HIDE DEF num
    <3>. QED BY Zenon, <2>2, <3>1, NumbersAssumption
  <2>4. out = writeReal(num)
    BY Zenon, <2>1, DirectivesAre
  <2>. HIDE DEF num
  <2>. DEFINE one == Power(2, MantissaBits)
              w == Exponent(num)
              m == (num[1] * one) \div (num[2] * Power(2, w)) - one
  <2>5. \E i \in DOMAIN out :
           /\ w \in 0..MaxExponent /\ Between(num, w) /\ m \in 0..(one - 1)
           /\ SubSeq(out, 1, 2) = <<"1", ".">>
           /\ Reads(SubSeq(out, 3, i), m % U32) <=> Exact(m % U32)
           /\ SubSeq(out, i + 1, i + 5) = <<" ", "*", " ", "2", "^">>
           /\ Reads(SubSeq(out, i + 6, Len(out)), w)
    BY Zenon, <2>3, <2>4, LargeReads
  <2>. QED BY Zenon, <2>5 DEF num
<1>. QED BY Zenon, <1>1, <1>2, <1>3 DEF LongsReadBack

\* Numbers read back: of 32 bits always, of 64 bits and reals exactly when no step of the
\* slow division slips; of reals beyond INT32_MAX the exponent and 32 bits of the
\* mantissa: NumbersReadBack (scrn.c:207-217, 296-503, 506-536, 573-587).
THEOREM NumbersRead == Spec => []NumbersReadBack
<1>1. IInv => LongsReadBack
  BY LongsRead
<1>. QED BY IntegersRead, Inductive, <1>1, PTL DEF NumbersReadBack

=============================================================================
