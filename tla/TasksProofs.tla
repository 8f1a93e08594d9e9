----------------------------- MODULE TasksProofs -----------------------------
(***************************************************************************)
(* switchTask (kernel.s), instruction by instruction: what each kind of    *)
(* instruction does, what its two halves do with the registers of the old  *)
(* and of the new task, and that the tasks' contexts survive k_preempt.    *)
(***************************************************************************)
EXTENDS Tasks, WellFoundedInduction, TLAPS

TaskTable == [Started -> [next : Int, regs : [0..10 -> Int]]]
Machine == [r : [Regs -> Int], s : [StackAddresses -> Int], ts : TaskTable]

-----------------------------------------------------------------------------
(* What the kinds of instructions do: n is m after one of them.            *)

\* All registers but q, and all stack words but a.
OtherRegs(m, n, q) == \A x \in Regs : x # q => n.r[x] = m.r[x]
OtherWords(m, n, a) == \A x \in StackAddresses : x # a => n.s[x] = m.s[x]

Pushed(m, n, v) == /\ n \in Machine /\ n.ts = m.ts
                   /\ n.r["esp"] = m.r["esp"] - 1 /\ OtherRegs(m, n, "esp")
                   /\ n.s[m.r["esp"] - 1] = v /\ OtherWords(m, n, m.r["esp"] - 1)
Popped(m, n, q) == /\ n \in Machine /\ n.ts = m.ts
                   /\ n.r["esp"] = m.r["esp"] + 1 /\ n.r[q] = m.s[m.r["esp"]]
                   /\ \A x \in Regs : x \notin {"esp", q} => n.r[x] = m.r[x]
                   /\ OtherWords(m, n, m.r["esp"])
Sets(m, n, q, v) == /\ n \in Machine /\ n.ts = m.ts /\ n.s = m.s
                   /\ n.r[q] = v /\ OtherRegs(m, n, q)
Stored(m, n, t, i, v) == /\ n \in Machine /\ n.r = m.r /\ n.s = m.s
                         /\ n.ts[t].regs[i] = v /\ n.ts[t].next = m.ts[t].next
                         /\ \A j \in 0..10 : j # i => n.ts[t].regs[j] = m.ts[t].regs[j]
                         /\ \A u \in Started : u # t => n.ts[u] = m.ts[u]
Exchanged(m, n, q) == /\ n \in Machine /\ n.ts = m.ts
                      /\ n.r[q] = m.s[m.r["esp"]] /\ OtherRegs(m, n, q)
                      /\ n.s[m.r["esp"]] = m.r[q] /\ OtherWords(m, n, m.r["esp"])

LEMMA Push ==
    ASSUME NEW m \in Machine, NEW q \in Regs, m.r["esp"] - 1 \in StackAddresses
    PROVE  Pushed(m, Execute(m, <<"push", q>>), m.r[q])
<1>1. Execute(m, <<"push", q>>)
      = [r |-> [m.r EXCEPT !["esp"] = m.r["esp"] - 1],
         s |-> [m.s EXCEPT ![m.r["esp"] - 1] = m.r[q]], ts |-> m.ts]
  BY DEF Execute, Machine, Regs
<1> QED
  BY <1>1 DEF Pushed, OtherRegs, OtherWords, Machine, Regs

LEMMA PushSp ==
    ASSUME NEW m \in Machine, m.r["esp"] - 1 \in StackAddresses
    PROVE  Pushed(m, Execute(m, <<"pushsp", "esp">>), m.r["esp"] + 4)
<1>1. Execute(m, <<"pushsp", "esp">>)
      = [r |-> [m.r EXCEPT !["esp"] = m.r["esp"] - 1],
         s |-> [m.s EXCEPT ![m.r["esp"] - 1] = m.r["esp"] + 4], ts |-> m.ts]
  BY DEF Execute, Machine, Regs
<1> QED
  BY <1>1 DEF Pushed, OtherRegs, OtherWords, Machine, Regs

LEMMA Pop ==
    ASSUME NEW m \in Machine, NEW q \in Regs \ {"esp"},
           m.r["esp"] \in StackAddresses
    PROVE  Popped(m, Execute(m, <<"pop", q>>), q)
<1>1. Execute(m, <<"pop", q>>)
      = [r |-> [m.r EXCEPT ![q] = m.s[m.r["esp"]], !["esp"] = m.r["esp"] + 1],
         s |-> [m.s EXCEPT ![m.r["esp"]] = Junk], ts |-> m.ts]
  BY DEF Execute, Machine, Regs
<1> QED
  BY <1>1 DEF Popped, OtherWords, Machine, Regs, Junk

LEMMA Peek ==
    ASSUME NEW m \in Machine, NEW q \in Regs, NEW i \in Nat,
           m.r["esp"] + i \in StackAddresses
    PROVE  Sets(m, Execute(m, <<"peek", q, i>>), q, m.s[m.r["esp"] + i])
<1>1. Execute(m, <<"peek", q, i>>)
      = [r |-> [m.r EXCEPT ![q] = m.s[m.r["esp"] + i]], s |-> m.s, ts |-> m.ts]
  BY DEF Execute, Machine, Regs
<1> QED
  BY <1>1 DEF Sets, OtherRegs, Machine, Regs

LEMMA Move ==
    ASSUME NEW m \in Machine, NEW q \in Regs, NEW p \in Regs
    PROVE  Sets(m, Execute(m, <<"move", q, p>>), q, m.r[p])
<1>1. Execute(m, <<"move", q, p>>)
      = [r |-> [m.r EXCEPT ![q] = m.r[p]], s |-> m.s, ts |-> m.ts]
  BY DEF Execute, Machine, Regs
<1> QED
  BY <1>1 DEF Sets, OtherRegs, Machine, Regs

LEMMA Add ==
    ASSUME NEW m \in Machine, NEW q \in Regs
    PROVE  Sets(m, Execute(m, <<"add", q>>), q, m.r[q] + 1)
<1>1. Execute(m, <<"add", q>>)
      = [r |-> [m.r EXCEPT ![q] = m.r[q] + 1], s |-> m.s, ts |-> m.ts]
  BY DEF Execute, Machine, Regs
<1> QED
  BY <1>1 DEF Sets, OtherRegs, Machine, Regs

LEMMA Load ==
    ASSUME NEW m \in Machine, NEW q \in Regs, NEW i \in 0..10,
           m.r["eax"] \in Started
    PROVE  Sets(m, Execute(m, <<"load", q, i>>), q, m.ts[m.r["eax"]].regs[i])
<1>1. Execute(m, <<"load", q, i>>)
      = [r |-> [m.r EXCEPT ![q] = m.ts[m.r["eax"]].regs[i]],
         s |-> m.s, ts |-> m.ts]
  BY DEF Execute, Machine, Regs
<1> QED
  BY <1>1 DEF Sets, OtherRegs, Machine, Regs, TaskTable

LEMMA Store ==
    ASSUME NEW m \in Machine, NEW q \in Regs, NEW i \in 0..10,
           m.r["eax"] \in Started
    PROVE  Stored(m, Execute(m, <<"store", q, i>>), m.r["eax"], i, m.r[q])
<1>1. Execute(m, <<"store", q, i>>)
      = [r |-> m.r, s |-> m.s,
         ts |-> [m.ts EXCEPT ![m.r["eax"]].regs[i] = m.r[q]]]
  BY DEF Execute, Machine, Regs
<1>2. m.r[q] \in Int
  BY DEF Machine, Regs
<1>3. [m.ts EXCEPT ![m.r["eax"]].regs[i] = m.r[q]] \in TaskTable
  BY <1>2 DEF Machine, TaskTable
<1> DEFINE u == [m.ts EXCEPT ![m.r["eax"]].regs[i] = m.r[q]]
<1>4. /\ u[m.r["eax"]].regs[i] = m.r[q]
      /\ u[m.r["eax"]].next = m.ts[m.r["eax"]].next
      /\ \A j \in 0..10 : j # i => u[m.r["eax"]].regs[j] = m.ts[m.r["eax"]].regs[j]
      /\ \A t \in Started : t # m.r["eax"] => u[t] = m.ts[t]
  BY DEF Machine, TaskTable
<1> HIDE DEF u
<1> QED
  <2> DEFINE n == Execute(m, <<"store", q, i>>)
  <2>1. n = [r |-> m.r, s |-> m.s, ts |-> u]
    BY <1>1 DEF u
  <2>2. u \in TaskTable
    BY <1>3 DEF u
  <2> HIDE DEF n
  <2>3. n \in Machine /\ n.r = m.r /\ n.s = m.s /\ n.ts = u
    BY <2>1, <2>2 DEF Machine
  <2>4. Stored(m, n, m.r["eax"], i, m.r[q])
    BY <2>3, <1>4 DEF Stored
  <2> QED
    BY <2>4 DEF n

LEMMA Exchange ==
    ASSUME NEW m \in Machine, NEW q \in Regs \ {"esp"},
           m.r["esp"] \in StackAddresses
    PROVE  Exchanged(m, Execute(m, <<"xchg", q>>), q)
<1>1. Execute(m, <<"xchg", q>>)
      = [r |-> [m.r EXCEPT ![q] = m.s[m.r["esp"]]],
         s |-> [m.s EXCEPT ![m.r["esp"]] = m.r[q]], ts |-> m.ts]
  BY DEF Execute, Machine, Regs
<1> QED
  BY <1>1 DEF Exchanged, OtherRegs, OtherWords, Machine, Regs

-----------------------------------------------------------------------------
(* Steps is the recursive function it is meant to be.                      *)

LEMMA Smallest ==
    ASSUME NEW T, T \subseteq Nat, T # {}
    PROVE  \E x \in T : \A y \in T : x <= y
<1> DEFINE R == {ss \in Nat \X Nat : ss[1] < ss[2]}
<1>1. IsWellFoundedOn(R, Nat)
  BY NatLessThanWellFounded DEF OpToRel
<1>2. PICK x \in T : \A y \in T : ~ (<<y, x>> \in R)
  <2> HIDE DEF R
  <2> QED
    BY <1>1, WFMin
<1>3. \A y \in T : <<y, x>> \in Nat \X Nat
  OBVIOUS
<1>4. \A y \in T : ~(<<y, x>>[1] < <<y, x>>[2])
  BY <1>2, <1>3
<1>5. \A y \in T : ~(y < x)
  BY <1>4
<1> QED
  BY <1>5

\* Induction over a set, which the provers can instantiate.
LEMMA Induction ==
    ASSUME NEW T, 0 \in T, \A n \in Nat : n \in T => n + 1 \in T
    PROVE  Nat \subseteq T
<1> DEFINE Out == Nat \ T
<1>1. SUFFICES ASSUME Out # {}
               PROVE  FALSE
  OBVIOUS
<1>2. PICK x \in Out : \A y \in Out : x <= y
  <2> HIDE DEF Out
  <2>1. Out \subseteq Nat
    BY DEF Out
  <2> QED
    BY <1>1, <2>1, Smallest
<1>3. x # 0 /\ x - 1 \in Nat
  OBVIOUS
<1>4. x - 1 \in T
  BY <1>2, <1>3
<1>5. (x - 1) + 1 \in T
  BY <1>3, <1>4
<1> QED
  BY <1>3, <1>5

\* f is m and what follows it up to instruction k.
Follows(f, m, code, k) ==
    f = [n \in 0..k |-> IF n = 0 THEN m ELSE Execute(f[n - 1], code[n])]

LEMMA Extended ==
    ASSUME NEW m, NEW code, NEW k \in Nat, NEW f, Follows(f, m, code, k)
    PROVE  \E g : Follows(g, m, code, k + 1)
<1> DEFINE g == [n \in 0..(k + 1) |->
                    IF n = k + 1 THEN Execute(f[k], code[k + 1]) ELSE f[n]]
           h == [n \in 0..(k + 1) |->
                    IF n = 0 THEN m ELSE Execute(g[n - 1], code[n])]
<1>1. \A n \in 0..(k + 1) : g[n] = h[n]
  <2> SUFFICES ASSUME NEW n \in 0..(k + 1)
               PROVE  g[n] = h[n]
    OBVIOUS
  <2>1. CASE n = k + 1
    <3>1. n # 0 /\ n - 1 \in 0..(k + 1) /\ n - 1 # k + 1 /\ n - 1 = k
      BY <2>1
    <3>2. g[n - 1] = f[k]
      BY <3>1
    <3> QED
      BY <2>1, <3>1, <3>2
  <2>2. CASE n # k + 1 /\ n = 0
    BY <2>2 DEF Follows
  <2>3. CASE n # k + 1 /\ n # 0
    <3>1. n \in 0..k /\ n - 1 \in 0..(k + 1) /\ n - 1 # k + 1
      BY <2>3
    <3>2. g[n - 1] = f[n - 1] /\ g[n] = f[n]
      BY <2>3, <3>1
    <3>3. f[n] = Execute(f[n - 1], code[n])
      BY <2>3, <3>1 DEF Follows
    <3> QED
      BY <2>3, <3>1, <3>2, <3>3
  <2> QED
    BY <2>1, <2>2, <2>3
<1>2. g = h
  BY <1>1
<1> QED
  BY <1>2 DEF Follows

LEMMA FollowsExists ==
    ASSUME NEW m, NEW code, NEW k \in Nat
    PROVE  \E f : Follows(f, m, code, k)
<1> DEFINE T == {n \in Nat : \E f : Follows(f, m, code, n)}
<1>1. 0 \in T
  <2> DEFINE f == [n \in 0..0 |-> m]
  <2>1. f = [n \in 0..0 |-> IF n = 0 THEN m ELSE Execute(f[n - 1], code[n])]
    OBVIOUS
  <2> QED
    BY <2>1 DEF Follows
<1>2. ASSUME NEW n \in Nat, n \in T
      PROVE  n + 1 \in T
  BY <1>2, Extended
<1> HIDE DEF T
<1>3. k \in T
  BY <1>1, <1>2, Induction
<1> QED
  BY <1>3 DEF T

LEMMA StepsFollow ==
    ASSUME NEW m, NEW code, Len(code) \in Nat
    PROVE  Follows(Steps(m, code), m, code, Len(code))
<1> DEFINE G(f) == [n \in 0..Len(code) |-> IF n = 0 THEN m
                       ELSE CHOOSE b \in {Execute(a, code[n]) : a \in {f[n - 1]}} : TRUE]
           H(f) == [n \in 0..Len(code) |-> IF n = 0 THEN m
                       ELSE Execute(f[n - 1], code[n])]
<1>1. ASSUME NEW f
      PROVE  G(f) = H(f)
  <2>1. ASSUME NEW n
        PROVE  (CHOOSE b \in {Execute(a, code[n]) : a \in {f[n - 1]}} : TRUE)
               = Execute(f[n - 1], code[n])
    <3> DEFINE e == Execute(f[n - 1], code[n])
    <3>1. {Execute(a, code[n]) : a \in {f[n - 1]}} = {e}
      OBVIOUS
    <3> HIDE DEF e
    <3>2. (CHOOSE b \in {e} : TRUE) = e
      OBVIOUS
    <3> QED
      BY <3>1, <3>2 DEF e
  <2> QED
    BY <2>1
<1>2. \E f : f = G(f)
  <2>1. PICK f : Follows(f, m, code, Len(code))
    BY FollowsExists
  <2>2. f = H(f)
    BY <2>1 DEF Follows
  <2> QED
    BY <1>1, <2>2
<1>3. Steps(m, code) = CHOOSE g : g = G(g)
  BY DEF Steps
<1> HIDE DEF G
<1>4. Steps(m, code) = G(Steps(m, code))
  BY <1>2, <1>3
<1> QED
  BY <1>4, <1>1 DEF Follows

-----------------------------------------------------------------------------
(* The code of switchTask                                                  *)

LEMMA KeptCode ==
    /\ Len(Kept) = 53
    /\ Kept[1] = <<"push", "eax">> /\ Kept[2] = <<"push", "ecx">>
    /\ Kept[3] = <<"push", "edx">> /\ Kept[4] = <<"push", "ebx">>
    /\ Kept[5] = <<"pushsp", "esp">> /\ Kept[6] = <<"push", "ebp">>
    /\ Kept[7] = <<"push", "esi">> /\ Kept[8] = <<"push", "edi">>
    /\ Kept[9] = <<"push", "eflags">> /\ Kept[10] = <<"move", "eax", "cr3">>
    /\ Kept[11] = <<"push", "eax">> /\ Kept[12] = <<"peek", "eax", 11>>
    /\ Kept[13] = <<"store", "ebx", 1>> /\ Kept[14] = <<"store", "ecx", 2>>
    /\ Kept[15] = <<"store", "edx", 3>> /\ Kept[16] = <<"store", "esi", 4>>
    /\ Kept[17] = <<"store", "edi", 5>> /\ Kept[18] = <<"peek", "ebx", 9>>
    /\ Kept[19] = <<"peek", "ecx", 10>> /\ Kept[20] = <<"peek", "esi", 4>>
    /\ Kept[21] = <<"peek", "edi", 1>> /\ Kept[22] = <<"peek", "edx", 5>>
    /\ Kept[23] = <<"add", "edx">> /\ Kept[24] = <<"store", "ebx", 0>>
    /\ Kept[25] = <<"store", "edx", 6>> /\ Kept[26] = <<"store", "esi", 7>>
    /\ Kept[27] = <<"store", "ecx", 8>> /\ Kept[28] = <<"store", "edi", 9>>
    /\ Kept[29] = <<"pop", "ebx">> /\ Kept[30] = <<"store", "ebx", 10>>
    /\ Kept[31] = <<"push", "ebx">> /\ Kept[32] = <<"peek", "eax", 12>>
    /\ Kept[33] = <<"load", "ebx", 1>> /\ Kept[34] = <<"load", "ecx", 2>>
    /\ Kept[35] = <<"load", "edx", 3>> /\ Kept[36] = <<"load", "esi", 4>>
    /\ Kept[37] = <<"load", "edi", 5>> /\ Kept[38] = <<"load", "ebp", 7>>
    /\ Kept[39] = <<"push", "eax">> /\ Kept[40] = <<"load", "eax", 9>>
    /\ Kept[41] = <<"push", "eax">> /\ Kept[42] = <<"pop", "eflags">>
    /\ Kept[43] = <<"pop", "eax">> /\ Kept[44] = <<"load", "esp", 6>>
    /\ Kept[45] = <<"push", "eax">> /\ Kept[46] = <<"load", "eax", 10>>
    /\ Kept[47] = <<"move", "cr3", "eax">> /\ Kept[48] = <<"pop", "eax">>
    /\ Kept[49] = <<"push", "eax">> /\ Kept[50] = <<"load", "eax", 8>>
    /\ Kept[51] = <<"xchg", "eax">> /\ Kept[52] = <<"load", "eax", 0>>
    /\ Kept[53] = <<"pop", "eip">>
BY DEF Kept, SaveOld, LoadNew, pusha

\* A push in a row of them: only the stack pointer has changed since m.
LEMMA PushAgain ==
    ASSUME NEW m, NEW b \in Machine, OtherRegs(m, b, "esp"),
           NEW q \in Regs \ {"esp"}, NEW e \in Int, b.r["esp"] = e,
           e - 1 \in StackAddresses, NEW n, n = Execute(b, <<"push", q>>)
    PROVE  /\ n \in Machine /\ Pushed(b, n, m.r[q]) /\ n.r["esp"] = e - 1
           /\ OtherRegs(m, n, "esp")
<1>1. Pushed(b, n, b.r[q]) /\ b.r[q] = m.r[q]
  BY Push DEF OtherRegs
<1> QED
  BY <1>1 DEF Pushed, OtherRegs

-----------------------------------------------------------------------------
(* What switchTask does up to each of its milestones.                      *)

State(m, k) == Steps(m, Kept)[k]


LEMMA EachInstruction ==
    ASSUME NEW m
    PROVE  /\ State(m, 0) = m
           /\ \A k \in 1..53 : State(m, k) = Execute(State(m, k - 1), Kept[k])
<1>1. Len(Kept) \in Nat
  BY KeptCode
<1>2. Follows(Steps(m, Kept), m, Kept, Len(Kept))
  BY <1>1, StepsFollow
<1>3. Len(Kept) = 53
  BY KeptCode
<1>4. Follows(Steps(m, Kept), m, Kept, 53)
  BY <1>2, <1>3
<1> QED
  BY <1>4 DEF Follows, State

\* switchTask is entered in m to switch from t to u: the return address is at e.
Entered(m, e, t, u) ==
    /\ m \in Machine /\ e \in Int /\ m.r["esp"] = e
    /\ e - 13 \in StackAddresses /\ e + 2 \in StackAddresses
    /\ m.s[e + 1] = t /\ m.s[e + 2] = u
    /\ t \in Started /\ u \in Started /\ t # u

LEMMA Addresses ==
    ASSUME NEW m, NEW e, NEW t, NEW u, Entered(m, e, t, u)
    PROVE  \A x \in Int : x >= e - 13 /\ x <= e + 2 => x \in StackAddresses
BY TasksAssumption DEF Entered, StackAddresses

LEMMA PushaCode ==
    ASSUME NEW m
    PROVE  /\ State(m, 1) = Execute(State(m, 0), <<"push", "eax">>)
           /\ State(m, 2) = Execute(State(m, 1), <<"push", "ecx">>)
           /\ State(m, 3) = Execute(State(m, 2), <<"push", "edx">>)
           /\ State(m, 4) = Execute(State(m, 3), <<"push", "ebx">>)
           /\ State(m, 5) = Execute(State(m, 4), <<"pushsp", "esp">>)
           /\ State(m, 6) = Execute(State(m, 5), <<"push", "ebp">>)
           /\ State(m, 7) = Execute(State(m, 6), <<"push", "esi">>)
           /\ State(m, 8) = Execute(State(m, 7), <<"push", "edi">>)
<1>1. /\ State(m, 1) = Execute(State(m, 0), Kept[1])
      /\ State(m, 2) = Execute(State(m, 1), Kept[2])
      /\ State(m, 3) = Execute(State(m, 2), Kept[3])
      /\ State(m, 4) = Execute(State(m, 3), Kept[4])
      /\ State(m, 5) = Execute(State(m, 4), Kept[5])
      /\ State(m, 6) = Execute(State(m, 5), Kept[6])
      /\ State(m, 7) = Execute(State(m, 6), Kept[7])
      /\ State(m, 8) = Execute(State(m, 7), Kept[8])
  BY EachInstruction
<1> QED
  BY <1>1, KeptCode

LEMMA AfterPusha ==
    ASSUME NEW m, NEW e, NEW t, NEW u, Entered(m, e, t, u)
    PROVE  LET n == State(m, 8)
           IN /\ n \in Machine /\ n.ts = m.ts
              /\ n.r["esp"] = e - 8 /\ OtherRegs(m, n, "esp")
              /\ n.s[e - 1] = m.r["eax"] /\ n.s[e - 5] = e
              /\ n.s[e - 6] = m.r["ebp"]
              /\ \A x \in StackAddresses : x >= e => n.s[x] = m.s[x]
<1> DEFINE n(k) == State(m, k)
<1>a. n(0) = m
  BY EachInstruction
<1>b. /\ e - 1 \in StackAddresses /\ e - 2 \in StackAddresses
      /\ e - 3 \in StackAddresses /\ e - 4 \in StackAddresses
      /\ e - 5 \in StackAddresses /\ e - 6 \in StackAddresses
      /\ e - 7 \in StackAddresses /\ e - 8 \in StackAddresses
      /\ e \in Int /\ m \in Machine /\ m.r["esp"] = e
  BY Addresses DEF Entered
<1>0. n(0) \in Machine /\ n(0).r["esp"] = e /\ OtherRegs(m, n(0), "esp")
  BY <1>a, <1>b DEF OtherRegs
<1>1. /\ n(1) \in Machine /\ Pushed(n(0), n(1), m.r["eax"])
      /\ n(1).r["esp"] = e - 1 /\ OtherRegs(m, n(1), "esp")
  BY <1>0, <1>b, PushaCode, PushAgain DEF Regs
<1>2. /\ n(2) \in Machine /\ Pushed(n(1), n(2), m.r["ecx"])
      /\ n(2).r["esp"] = e - 2 /\ OtherRegs(m, n(2), "esp")
  BY <1>1, <1>b, PushaCode, PushAgain DEF Regs
<1>3. /\ n(3) \in Machine /\ Pushed(n(2), n(3), m.r["edx"])
      /\ n(3).r["esp"] = e - 3 /\ OtherRegs(m, n(3), "esp")
  BY <1>2, <1>b, PushaCode, PushAgain DEF Regs
<1>4. /\ n(4) \in Machine /\ Pushed(n(3), n(4), m.r["ebx"])
      /\ n(4).r["esp"] = e - 4 /\ OtherRegs(m, n(4), "esp")
  BY <1>3, <1>b, PushaCode, PushAgain DEF Regs
<1>5. /\ n(5) \in Machine /\ Pushed(n(4), n(5), e)
      /\ n(5).r["esp"] = e - 5 /\ OtherRegs(m, n(5), "esp")
  <2>1. Pushed(n(4), n(5), e)
    BY <1>4, <1>b, PushaCode, PushSp
  <2> QED
    BY <1>b, <1>4, <2>1 DEF Pushed, OtherRegs
<1>6. /\ n(6) \in Machine /\ Pushed(n(5), n(6), m.r["ebp"])
      /\ n(6).r["esp"] = e - 6 /\ OtherRegs(m, n(6), "esp")
  BY <1>5, <1>b, PushaCode, PushAgain DEF Regs
<1>7. /\ n(7) \in Machine /\ Pushed(n(6), n(7), m.r["esi"])
      /\ n(7).r["esp"] = e - 7 /\ OtherRegs(m, n(7), "esp")
  BY <1>6, <1>b, PushaCode, PushAgain DEF Regs
<1>8. /\ n(8) \in Machine /\ Pushed(n(7), n(8), m.r["edi"])
      /\ n(8).r["esp"] = e - 8 /\ OtherRegs(m, n(8), "esp")
  BY <1>7, <1>b, PushaCode, PushAgain DEF Regs
<1> HIDE DEF n
<1>9. n(8).ts = m.ts
  BY <1>a, <1>1, <1>2, <1>3, <1>4, <1>5, <1>6, <1>7, <1>8 DEF Pushed
<1>10. n(8).s[e - 1] = m.r["eax"] /\ n(8).s[e - 5] = e /\ n(8).s[e - 6] = m.r["ebp"]
  BY <1>a, <1>b, <1>0, <1>1, <1>2, <1>3, <1>4, <1>5, <1>6, <1>7, <1>8
     DEF Pushed, OtherWords
<1>11. \A x \in StackAddresses : x >= e => n(8).s[x] = m.s[x]
  BY <1>a, <1>b, <1>0, <1>1, <1>2, <1>3, <1>4, <1>5, <1>6, <1>7, <1>8
     DEF Pushed, OtherWords, StackAddresses
<1> QED
  BY <1>8, <1>9, <1>10, <1>11 DEF n, Pushed

LEMMA FrameCode ==
    ASSUME NEW m
    PROVE  /\ State(m, 9) = Execute(State(m, 8), <<"push", "eflags">>)
           /\ State(m, 10) = Execute(State(m, 9), <<"move", "eax", "cr3">>)
           /\ State(m, 11) = Execute(State(m, 10), <<"push", "eax">>)
           /\ State(m, 12) = Execute(State(m, 11), <<"peek", "eax", 11>>)
<1>1. /\ State(m, 9) = Execute(State(m, 8), Kept[9])
      /\ State(m, 10) = Execute(State(m, 9), Kept[10])
      /\ State(m, 11) = Execute(State(m, 10), Kept[11])
      /\ State(m, 12) = Execute(State(m, 11), Kept[12])
  BY EachInstruction
<1> QED
  BY <1>1, KeptCode

\* With flags and cr3 on the stack, eax is the old task's struct.
LEMMA AfterFrame ==
    ASSUME NEW m, NEW e, NEW t, NEW u, Entered(m, e, t, u)
    PROVE  LET n == State(m, 12)
           IN /\ n \in Machine /\ n.ts = m.ts
              /\ n.r["esp"] = e - 10 /\ n.r["eax"] = t
              /\ \A x \in Regs : x \notin {"esp", "eax"} => n.r[x] = m.r[x]
              /\ n.s[e - 1] = m.r["eax"] /\ n.s[e - 5] = e
              /\ n.s[e - 6] = m.r["ebp"] /\ n.s[e - 9] = m.r["eflags"]
              /\ n.s[e - 10] = m.r["cr3"]
              /\ \A x \in StackAddresses : x >= e => n.s[x] = m.s[x]
<1> DEFINE n(k) == State(m, k)
<1>0. /\ e \in Int /\ e - 9 \in StackAddresses /\ e - 10 \in StackAddresses
      /\ e + 1 \in StackAddresses /\ m.s[e + 1] = t
      /\ (e - 10) + 11 \in StackAddresses /\ (e - 10) + 11 = e + 1
      /\ e - 1 \in StackAddresses /\ e - 5 \in StackAddresses
      /\ e - 6 \in StackAddresses
  BY Addresses DEF Entered
<1>8. /\ n(8) \in Machine /\ n(8).ts = m.ts
      /\ n(8).r["esp"] = e - 8 /\ OtherRegs(m, n(8), "esp")
      /\ n(8).s[e - 1] = m.r["eax"] /\ n(8).s[e - 5] = e
      /\ n(8).s[e - 6] = m.r["ebp"]
      /\ \A x \in StackAddresses : x >= e => n(8).s[x] = m.s[x]
  BY AfterPusha
<1>c. /\ n(9) = Execute(n(8), <<"push", "eflags">>)
      /\ n(10) = Execute(n(9), <<"move", "eax", "cr3">>)
      /\ n(11) = Execute(n(10), <<"push", "eax">>)
      /\ n(12) = Execute(n(11), <<"peek", "eax", 11>>)
  BY FrameCode
<1> HIDE DEF n
<1>9. /\ n(9) \in Machine /\ Pushed(n(8), n(9), m.r["eflags"])
      /\ n(9).r["esp"] = e - 9 /\ OtherRegs(m, n(9), "esp")
  BY <1>0, <1>8, <1>c, PushAgain DEF Regs
<1>10. /\ n(10) \in Machine /\ Sets(n(9), n(10), "eax", m.r["cr3"])
       /\ n(10).r["esp"] = e - 9 /\ n(10).r["eax"] = m.r["cr3"]
  <2>1. Sets(n(9), n(10), "eax", n(9).r["cr3"])
    BY <1>9, <1>c, Move DEF Regs
  <2>2. n(9).r["cr3"] = m.r["cr3"]
    BY <1>9 DEF OtherRegs, Regs
  <2> QED
    BY <1>9, <2>1, <2>2 DEF Sets, OtherRegs, Regs
<1>11. /\ n(11) \in Machine /\ Pushed(n(10), n(11), m.r["cr3"])
       /\ n(11).r["esp"] = e - 10
  <2>1. Pushed(n(10), n(11), n(10).r["eax"])
    BY <1>0, <1>10, <1>c, Push DEF Regs
  <2> QED
    BY <1>0, <1>10, <2>1 DEF Pushed
<1>d. n(11).s[e + 1] = t
  BY <1>0, <1>8, <1>9, <1>10, <1>11 DEF Pushed, Sets, OtherWords
<1>12. Sets(n(11), n(12), "eax", t)
  <2>1. Sets(n(11), n(12), "eax", n(11).s[n(11).r["esp"] + 11])
    BY <1>0, <1>11, <1>c, Peek DEF Regs
  <2> QED
    BY <1>0, <1>11, <1>d, <2>1
<1>13. n(12) \in Machine /\ n(12).ts = m.ts /\ n(12).s = n(11).s
  BY <1>8, <1>9, <1>10, <1>11, <1>12 DEF Pushed, Sets
<1>14. /\ n(12).r["esp"] = e - 10 /\ n(12).r["eax"] = t
       /\ \A x \in Regs : x \notin {"esp", "eax"} => n(12).r[x] = m.r[x]
  BY <1>9, <1>10, <1>11, <1>12 DEF Pushed, Sets, OtherRegs, Regs
<1>15. /\ n(12).s[e - 1] = m.r["eax"] /\ n(12).s[e - 5] = e
       /\ n(12).s[e - 6] = m.r["ebp"] /\ n(12).s[e - 9] = m.r["eflags"]
       /\ n(12).s[e - 10] = m.r["cr3"]
  BY <1>0, <1>8, <1>9, <1>10, <1>11, <1>13 DEF Pushed, Sets, OtherWords
<1>16. \A x \in StackAddresses : x >= e => n(12).s[x] = m.s[x]
  BY <1>0, <1>8, <1>9, <1>10, <1>11, <1>13
     DEF Pushed, Sets, OtherWords, StackAddresses
<1> QED
  BY <1>13, <1>14, <1>15, <1>16 DEF n

\* What the old task's struct will hold: the caller's registers, its return
\* address and the stack pointer behind that.
Left(m, e) == [m.r EXCEPT !["esp"] = e + 1, !["eip"] = m.s[e]]

\* n is a but for the struct of t, which already holds the registers in D.
Holds(m, a, n, t, D, w) ==
    /\ n \in Machine /\ n.r = a.r /\ n.s = a.s
    /\ n.ts[t].next = m.ts[t].next
    /\ \A u \in Started : u # t => n.ts[u] = m.ts[u]
    /\ \A q \in D : n.ts[t].regs[Offset[q]] = w[q]

LEMMA StoreAgain ==
    ASSUME NEW m, NEW a, NEW b, NEW t \in Started, NEW D, NEW w,
           Holds(m, a, b, t, D, w), D \subseteq Regs, a.r["eax"] = t,
           NEW q \in Regs \ D, NEW p \in Regs, a.r[p] = w[q],
           NEW n, n = Execute(b, <<"store", p, Offset[q]>>)
    PROVE  Holds(m, a, n, t, D \cup {q}, w)
<1>1. /\ Offset[q] \in 0..10
      /\ \A x \in D : Offset[x] \in 0..10 /\ Offset[x] # Offset[q]
  BY DEF Offset, Regs
<1>2. b \in Machine /\ b.r["eax"] = t /\ b.r[p] = w[q]
  BY DEF Holds
<1>3. Stored(b, n, t, Offset[q], w[q])
  BY <1>1, <1>2, Store
<1> QED
  BY ZenonT(30), <1>1, <1>3 DEF Stored, Holds

LEMMA StoresCode ==
    ASSUME NEW m
    PROVE  /\ State(m, 13) = Execute(State(m, 12), <<"store", "ebx", 1>>)
           /\ State(m, 14) = Execute(State(m, 13), <<"store", "ecx", 2>>)
           /\ State(m, 15) = Execute(State(m, 14), <<"store", "edx", 3>>)
           /\ State(m, 16) = Execute(State(m, 15), <<"store", "esi", 4>>)
           /\ State(m, 17) = Execute(State(m, 16), <<"store", "edi", 5>>)
<1>1. /\ State(m, 13) = Execute(State(m, 12), Kept[13])
      /\ State(m, 14) = Execute(State(m, 13), Kept[14])
      /\ State(m, 15) = Execute(State(m, 14), Kept[15])
      /\ State(m, 16) = Execute(State(m, 15), Kept[16])
      /\ State(m, 17) = Execute(State(m, 16), Kept[17])
  BY EachInstruction
<1> QED
  BY <1>1, KeptCode

LEMMA AfterFirstStores ==
    ASSUME NEW m, NEW e, NEW t, NEW u, Entered(m, e, t, u)
    PROVE  Holds(m, State(m, 12), State(m, 17), t,
                 {"ebx", "ecx", "edx", "esi", "edi"}, Left(m, e))
<1> DEFINE n(k) == State(m, k)
           w == Left(m, e)
<1>0. t \in Started
  BY DEF Entered
<1>12. n(12).r["eax"] = t /\ Holds(m, n(12), n(12), t, {}, w)
  BY AfterFrame DEF Holds
<1>a. \A x \in {"ebx", "ecx", "edx", "esi", "edi"} : n(12).r[x] = w[x]
  BY AfterFrame DEF Entered, Left, Machine, Regs
<1>b. /\ n(12).r["ebx"] = w["ebx"] /\ n(12).r["ecx"] = w["ecx"]
      /\ n(12).r["edx"] = w["edx"] /\ n(12).r["esi"] = w["esi"]
      /\ n(12).r["edi"] = w["edi"] /\ n(12).r["eax"] = t
  BY <1>a, <1>12
<1>c. /\ n(13) = Execute(n(12), <<"store", "ebx", Offset["ebx"]>>)
      /\ n(14) = Execute(n(13), <<"store", "ecx", Offset["ecx"]>>)
      /\ n(15) = Execute(n(14), <<"store", "edx", Offset["edx"]>>)
      /\ n(16) = Execute(n(15), <<"store", "esi", Offset["esi"]>>)
      /\ n(17) = Execute(n(16), <<"store", "edi", Offset["edi"]>>)
  BY StoresCode DEF Offset
<1> HIDE DEF n, w
<1>13. Holds(m, n(12), n(13), t, {"ebx"}, w)
  <2>0. {} \subseteq Regs /\ "ebx" \in Regs \ {} /\ "ebx" \in Regs
    BY DEF Regs
  <2>1. Holds(m, n(12), n(13), t, {} \cup {"ebx"}, w)
    BY <1>0, <1>12, <1>c, <1>b, <2>0, StoreAgain
  <2>2. {} \cup {"ebx"} = {"ebx"}
    OBVIOUS
  <2> QED
    BY <2>1, <2>2
<1>14. Holds(m, n(12), n(14), t, {"ebx", "ecx"}, w)
  <2>0. {"ebx"} \subseteq Regs /\ "ecx" \in Regs \ {"ebx"} /\ "ecx" \in Regs
    BY DEF Regs
  <2>1. Holds(m, n(12), n(14), t, {"ebx"} \cup {"ecx"}, w)
    BY <1>0, <1>13, <1>c, <1>b, <2>0, StoreAgain
  <2>2. {"ebx"} \cup {"ecx"} = {"ebx", "ecx"}
    OBVIOUS
  <2> QED
    BY <2>1, <2>2
<1>15. Holds(m, n(12), n(15), t, {"ebx", "ecx", "edx"}, w)
  <2>0. /\ {"ebx", "ecx"} \subseteq Regs
        /\ "edx" \in Regs \ {"ebx", "ecx"}
        /\ "edx" \in Regs
    BY DEF Regs
  <2>1. Holds(m, n(12), n(15), t, {"ebx", "ecx"} \cup {"edx"}, w)
    BY <1>0, <1>14, <1>c, <1>b, <2>0, StoreAgain
  <2>2. {"ebx", "ecx"} \cup {"edx"} = {"ebx", "ecx", "edx"}
    OBVIOUS
  <2> QED
    BY <2>1, <2>2
<1>16. Holds(m, n(12), n(16), t, {"ebx", "ecx", "edx", "esi"}, w)
  <2>0. /\ {"ebx", "ecx", "edx"} \subseteq Regs
        /\ "esi" \in Regs \ {"ebx", "ecx", "edx"}
        /\ "esi" \in Regs
    BY DEF Regs
  <2>1. Holds(m, n(12), n(16), t, {"ebx", "ecx", "edx"} \cup {"esi"}, w)
    BY <1>0, <1>15, <1>c, <1>b, <2>0, StoreAgain
  <2>2. {"ebx", "ecx", "edx"} \cup {"esi"} = {"ebx", "ecx", "edx", "esi"}
    OBVIOUS
  <2> QED
    BY <2>1, <2>2
<1>17. Holds(m, n(12), n(17), t, {"ebx", "ecx", "edx", "esi", "edi"}, w)
  <2>0. /\ {"ebx", "ecx", "edx", "esi"} \subseteq Regs
        /\ "edi" \in Regs \ {"ebx", "ecx", "edx", "esi"}
        /\ "edi" \in Regs
    BY DEF Regs
  <2>1. Holds(m, n(12), n(17), t, {"ebx", "ecx", "edx", "esi"} \cup {"edi"}, w)
    BY <1>0, <1>16, <1>c, <1>b, <2>0, StoreAgain
  <2>2. {"ebx", "ecx", "edx", "esi"} \cup {"edi"} = {"ebx", "ecx", "edx", "esi", "edi"}
    OBVIOUS
  <2> QED
    BY <2>1, <2>2
<1> QED
  BY <1>17 DEF n, w

LEMMA PeeksCode ==
    ASSUME NEW m
    PROVE  /\ State(m, 18) = Execute(State(m, 17), <<"peek", "ebx", 9>>)
           /\ State(m, 19) = Execute(State(m, 18), <<"peek", "ecx", 10>>)
           /\ State(m, 20) = Execute(State(m, 19), <<"peek", "esi", 4>>)
           /\ State(m, 21) = Execute(State(m, 20), <<"peek", "edi", 1>>)
           /\ State(m, 22) = Execute(State(m, 21), <<"peek", "edx", 5>>)
           /\ State(m, 23) = Execute(State(m, 22), <<"add", "edx">>)
<1>1. /\ State(m, 18) = Execute(State(m, 17), Kept[18])
      /\ State(m, 19) = Execute(State(m, 18), Kept[19])
      /\ State(m, 20) = Execute(State(m, 19), Kept[20])
      /\ State(m, 21) = Execute(State(m, 20), Kept[21])
      /\ State(m, 22) = Execute(State(m, 21), Kept[22])
      /\ State(m, 23) = Execute(State(m, 22), Kept[23])
  BY EachInstruction
<1> QED
  BY <1>1, KeptCode

\* The registers that were not stored yet, collected from the stack.
LEMMA AfterPeeks ==
    ASSUME NEW m, NEW e, NEW t, NEW u, Entered(m, e, t, u)
    PROVE  LET n == State(m, 23)
               w == Left(m, e)
           IN /\ n.s = State(m, 12).s /\ n.r["esp"] = e - 10 /\ n.r["eax"] = t
              /\ n.r["ebx"] = w["eax"] /\ n.r["ecx"] = w["eip"]
              /\ n.r["esi"] = w["ebp"] /\ n.r["edi"] = w["eflags"]
              /\ n.r["edx"] = w["esp"]
              /\ Holds(m, n, n, t, {"ebx", "ecx", "edx", "esi", "edi"}, w)
<1> DEFINE n(k) == State(m, k)
           w == Left(m, e)
           D == {"ebx", "ecx", "edx", "esi", "edi"}
<1>0. /\ e \in Int /\ e - 1 \in StackAddresses /\ e - 5 \in StackAddresses
      /\ e \in StackAddresses
      /\ e - 6 \in StackAddresses /\ e - 9 \in StackAddresses
      /\ (e - 10) + 9 = e - 1 /\ (e - 10) + 10 = e /\ (e - 10) + 4 = e - 6
      /\ (e - 10) + 1 = e - 9 /\ (e - 10) + 5 = e - 5
  BY Addresses DEF Entered
<1>w. /\ w["eax"] = m.r["eax"] /\ w["eip"] = m.s[e] /\ w["ebp"] = m.r["ebp"]
      /\ w["eflags"] = m.r["eflags"] /\ w["esp"] = e + 1
  BY DEF Entered, Left, Machine, Regs
<1>s. /\ n(12).s[e - 1] = w["eax"] /\ n(12).s[e] = w["eip"]
      /\ n(12).s[e - 6] = w["ebp"] /\ n(12).s[e - 9] = w["eflags"]
      /\ n(12).s[e - 5] = e
  BY <1>0, <1>w, AfterFrame
<1>17. /\ n(17) \in Machine /\ n(17).s = n(12).s /\ n(17).r["esp"] = e - 10
       /\ n(17).r["eax"] = t /\ Holds(m, n(12), n(17), t, D, w)
  BY AfterFirstStores, AfterFrame DEF Holds
<1>c. /\ n(18) = Execute(n(17), <<"peek", "ebx", 9>>)
      /\ n(19) = Execute(n(18), <<"peek", "ecx", 10>>)
      /\ n(20) = Execute(n(19), <<"peek", "esi", 4>>)
      /\ n(21) = Execute(n(20), <<"peek", "edi", 1>>)
      /\ n(22) = Execute(n(21), <<"peek", "edx", 5>>)
      /\ n(23) = Execute(n(22), <<"add", "edx">>)
  BY PeeksCode
<1> HIDE DEF n, w, D
<1>18. /\ Sets(n(17), n(18), "ebx", w["eax"]) /\ n(18) \in Machine
       /\ n(18).s = n(12).s /\ n(18).r["esp"] = e - 10
  <2>1. Sets(n(17), n(18), "ebx", n(17).s[n(17).r["esp"] + 9])
    BY <1>0, <1>17, <1>c, Peek DEF Regs
  <2>2. n(17).s[n(17).r["esp"] + 9] = w["eax"]
    BY <1>0, <1>s, <1>17
  <2> QED
    BY <1>17, <2>1, <2>2 DEF Sets, OtherRegs, Regs
<1>19. /\ Sets(n(18), n(19), "ecx", w["eip"]) /\ n(19) \in Machine
       /\ n(19).s = n(12).s /\ n(19).r["esp"] = e - 10
  <2>1. Sets(n(18), n(19), "ecx", n(18).s[n(18).r["esp"] + 10])
    BY <1>0, <1>18, <1>c, Peek DEF Regs
  <2>2. n(18).s[n(18).r["esp"] + 10] = w["eip"]
    BY <1>0, <1>s, <1>18
  <2> QED
    BY <1>18, <2>1, <2>2 DEF Sets, OtherRegs, Regs
<1>20. /\ Sets(n(19), n(20), "esi", w["ebp"]) /\ n(20) \in Machine
       /\ n(20).s = n(12).s /\ n(20).r["esp"] = e - 10
  <2>1. Sets(n(19), n(20), "esi", n(19).s[n(19).r["esp"] + 4])
    BY <1>0, <1>19, <1>c, Peek DEF Regs
  <2>2. n(19).s[n(19).r["esp"] + 4] = w["ebp"]
    BY <1>0, <1>s, <1>19
  <2> QED
    BY <1>19, <2>1, <2>2 DEF Sets, OtherRegs, Regs
<1>21. /\ Sets(n(20), n(21), "edi", w["eflags"]) /\ n(21) \in Machine
       /\ n(21).s = n(12).s /\ n(21).r["esp"] = e - 10
  <2>1. Sets(n(20), n(21), "edi", n(20).s[n(20).r["esp"] + 1])
    BY <1>0, <1>20, <1>c, Peek DEF Regs
  <2>2. n(20).s[n(20).r["esp"] + 1] = w["eflags"]
    BY <1>0, <1>s, <1>20
  <2> QED
    BY <1>20, <2>1, <2>2 DEF Sets, OtherRegs, Regs
<1>22. /\ Sets(n(21), n(22), "edx", e) /\ n(22) \in Machine
       /\ n(22).s = n(12).s /\ n(22).r["esp"] = e - 10
  <2>1. Sets(n(21), n(22), "edx", n(21).s[n(21).r["esp"] + 5])
    BY <1>0, <1>21, <1>c, Peek DEF Regs
  <2>2. n(21).s[n(21).r["esp"] + 5] = e
    BY <1>0, <1>s, <1>21
  <2> QED
    BY <1>21, <2>1, <2>2 DEF Sets, OtherRegs, Regs
<1>23. Sets(n(22), n(23), "edx", w["esp"])
  <2>1. Sets(n(22), n(23), "edx", n(22).r["edx"] + 1)
    BY <1>22, <1>c, Add DEF Regs
  <2> QED
    BY <1>22, <1>w, <2>1 DEF Sets
<1>a. /\ n(23) \in Machine /\ n(23).ts = n(17).ts /\ n(23).s = n(12).s
  BY <1>17, <1>18, <1>19, <1>20, <1>21, <1>22, <1>23 DEF Sets
<1>b. /\ n(23).r["esp"] = e - 10 /\ n(23).r["eax"] = t
      /\ n(23).r["ebx"] = w["eax"] /\ n(23).r["ecx"] = w["eip"]
      /\ n(23).r["esi"] = w["ebp"] /\ n(23).r["edi"] = w["eflags"]
      /\ n(23).r["edx"] = w["esp"]
  BY <1>17, <1>18, <1>19, <1>20, <1>21, <1>22, <1>23 DEF Sets, OtherRegs, Regs
<1>d. Holds(m, n(23), n(23), t, D, w)
  BY <1>17, <1>a DEF Holds
<1> QED
  BY <1>a, <1>b, <1>d DEF n, w, D

LEMMA LastStoresCode ==
    ASSUME NEW m
    PROVE  /\ State(m, 24) = Execute(State(m, 23), <<"store", "ebx", 0>>)
           /\ State(m, 25) = Execute(State(m, 24), <<"store", "edx", 6>>)
           /\ State(m, 26) = Execute(State(m, 25), <<"store", "esi", 7>>)
           /\ State(m, 27) = Execute(State(m, 26), <<"store", "ecx", 8>>)
           /\ State(m, 28) = Execute(State(m, 27), <<"store", "edi", 9>>)
           /\ State(m, 29) = Execute(State(m, 28), <<"pop", "ebx">>)
           /\ State(m, 30) = Execute(State(m, 29), <<"store", "ebx", 10>>)
           /\ State(m, 31) = Execute(State(m, 30), <<"push", "ebx">>)
<1>1. /\ State(m, 24) = Execute(State(m, 23), Kept[24])
      /\ State(m, 25) = Execute(State(m, 24), Kept[25])
      /\ State(m, 26) = Execute(State(m, 25), Kept[26])
      /\ State(m, 27) = Execute(State(m, 26), Kept[27])
      /\ State(m, 28) = Execute(State(m, 27), Kept[28])
      /\ State(m, 29) = Execute(State(m, 28), Kept[29])
      /\ State(m, 30) = Execute(State(m, 29), Kept[30])
      /\ State(m, 31) = Execute(State(m, 30), Kept[31])
  BY EachInstruction
<1> QED
  BY <1>1, KeptCode

LEMMA AfterLastStores ==
    ASSUME NEW m, NEW e, NEW t, NEW u, Entered(m, e, t, u)
    PROVE  Holds(m, State(m, 23), State(m, 28), t, Regs \ {"cr3"}, Left(m, e))
<1> DEFINE n(k) == State(m, k)
           w == Left(m, e)
           Plain == {"ebx", "ecx", "edx", "esi", "edi"}
           A == Plain \cup {"eax"}
           B == A \cup {"esp"}
           C == B \cup {"ebp"}
           D == C \cup {"eip"}
           E == D \cup {"eflags"}
<1>0. t \in Started
  BY DEF Entered
<1>23. /\ n(23).r["eax"] = t
       /\ Holds(m, n(23), n(23), t, Plain, w)
       /\ n(23).r["ebx"] = w["eax"] /\ n(23).r["ecx"] = w["eip"]
       /\ n(23).r["esi"] = w["ebp"] /\ n(23).r["edi"] = w["eflags"]
       /\ n(23).r["edx"] = w["esp"]
  BY AfterPeeks
<1>c. /\ n(24) = Execute(n(23), <<"store", "ebx", Offset["eax"]>>)
      /\ n(25) = Execute(n(24), <<"store", "edx", Offset["esp"]>>)
      /\ n(26) = Execute(n(25), <<"store", "esi", Offset["ebp"]>>)
      /\ n(27) = Execute(n(26), <<"store", "ecx", Offset["eip"]>>)
      /\ n(28) = Execute(n(27), <<"store", "edi", Offset["eflags"]>>)
  BY LastStoresCode DEF Offset
<1> HIDE DEF n, w
<1>24. Holds(m, n(23), n(24), t, A, w)
  <2>1. Plain \subseteq Regs /\ "eax" \in Regs \ Plain /\ "ebx" \in Regs
    BY DEF Regs
  <2> QED
    BY <1>0, <1>23, <1>c, <2>1, StoreAgain
<1>25. Holds(m, n(23), n(25), t, B, w)
  <2>1. A \subseteq Regs /\ "esp" \in Regs \ A /\ "edx" \in Regs
    BY DEF Regs
  <2> QED
    BY <1>0, <1>24, <1>c, <1>23, <2>1, StoreAgain
<1>26. Holds(m, n(23), n(26), t, C, w)
  <2>1. B \subseteq Regs /\ "ebp" \in Regs \ B /\ "esi" \in Regs
    BY DEF Regs
  <2> QED
    BY <1>0, <1>25, <1>c, <1>23, <2>1, StoreAgain
<1>27. Holds(m, n(23), n(27), t, D, w)
  <2>1. C \subseteq Regs /\ "eip" \in Regs \ C /\ "ecx" \in Regs
    BY DEF Regs
  <2> QED
    BY <1>0, <1>26, <1>c, <1>23, <2>1, StoreAgain
<1>28. Holds(m, n(23), n(28), t, E, w)
  <2>1. D \subseteq Regs /\ "eflags" \in Regs \ D /\ "edi" \in Regs
    BY DEF Regs
  <2> QED
    BY <1>0, <1>27, <1>c, <1>23, <2>1, StoreAgain
<1>29. E = Regs \ {"cr3"}
  BY DEF Regs
<1> QED
  BY <1>28, <1>29 DEF n, w

\* The old task's struct holds all of its registers.
LEMMA AfterSaving ==
    ASSUME NEW m, NEW e, NEW t, NEW u, Entered(m, e, t, u)
    PROVE  LET n == State(m, 31)
           IN /\ Holds(m, n, n, t, Regs, Left(m, e))
              /\ n.r["esp"] = e - 10 /\ n.s[e + 2] = u
<1> DEFINE n(k) == State(m, k)
           w == Left(m, e)
<1>0. /\ t \in Started /\ e \in Int /\ e + 2 \in StackAddresses
      /\ e + 2 >= e /\ e + 2 # e - 10 /\ e - 10 # e + 2
      /\ e - 10 \in StackAddresses /\ (e - 10) + 1 = e - 9 /\ (e - 9) - 1 = e - 10
      /\ m.s[e + 2] = u
  BY Addresses DEF Entered
<1>w. w["cr3"] = m.r["cr3"]
  BY DEF Entered, Left, Machine, Regs
<1>12. n(12).s[e - 10] = w["cr3"] /\ n(12).s[e + 2] = u
  BY <1>0, <1>w, AfterFrame
<1>23. n(23).s = n(12).s /\ n(23).r["esp"] = e - 10 /\ n(23).r["eax"] = t
  BY AfterPeeks
<1>28. /\ Holds(m, n(28), n(28), t, Regs \ {"cr3"}, w) /\ n(28) \in Machine
       /\ n(28).r["esp"] = e - 10 /\ n(28).r["eax"] = t
       /\ n(28).s[e - 10] = w["cr3"] /\ n(28).s[e + 2] = u
  BY <1>12, <1>23, AfterLastStores DEF Holds
<1>c. /\ n(29) = Execute(n(28), <<"pop", "ebx">>)
      /\ n(30) = Execute(n(29), <<"store", "ebx", Offset["cr3"]>>)
      /\ n(31) = Execute(n(30), <<"push", "ebx">>)
  BY LastStoresCode DEF Offset
<1> HIDE DEF n, w
<1>29. /\ Holds(m, n(29), n(29), t, Regs \ {"cr3"}, w)
       /\ n(29).r["esp"] = e - 9 /\ n(29).r["eax"] = t
       /\ n(29).r["ebx"] = w["cr3"] /\ n(29).s[e + 2] = u
  <2>1. Popped(n(28), n(29), "ebx")
    BY <1>0, <1>28, <1>c, Pop DEF Regs
  <2>2. n(29).r["eax"] = t /\ n(29).r["esp"] = e - 9 /\ n(29).r["ebx"] = w["cr3"]
    BY <1>0, <1>28, <2>1 DEF Popped, Regs
  <2>3. n(29).s[e + 2] = u
    BY <1>0, <1>28, <2>1 DEF Popped, OtherWords
  <2>4. Holds(m, n(29), n(29), t, Regs \ {"cr3"}, w)
    BY <1>28, <2>1 DEF Popped, Holds
  <2> QED
    BY <2>2, <2>3, <2>4
<1>30. Holds(m, n(29), n(30), t, Regs, w)
  <2>1. /\ Regs \ {"cr3"} \subseteq Regs /\ "cr3" \in Regs \ (Regs \ {"cr3"})
        /\ "ebx" \in Regs /\ (Regs \ {"cr3"}) \cup {"cr3"} = Regs
    BY DEF Regs
  <2>2. Holds(m, n(29), n(30), t, (Regs \ {"cr3"}) \cup {"cr3"}, w)
    BY <1>0, <1>29, <1>c, <2>1, StoreAgain
  <2> QED
    BY <2>1, <2>2
<1>31. Pushed(n(30), n(31), n(30).r["ebx"])
  BY SMTT(30), <1>0, <1>29, <1>30, <1>c, Push DEF Holds, Regs
<1>a. n(31).r["esp"] = e - 10 /\ n(31).s[e + 2] = u
  BY <1>0, <1>29, <1>30, <1>31 DEF Pushed, Holds, OtherWords
<1>b. Holds(m, n(31), n(31), t, Regs, w)
  BY <1>30, <1>31 DEF Pushed, Holds
<1> QED
  BY <1>a, <1>b DEF n, w

-----------------------------------------------------------------------------
(* The second half: everything out of the new task's struct.               *)

\* n runs the second half with u's struct in eax and the registers in D loaded.
Loading(n, e, u, ts, D) ==
    /\ n \in Machine /\ n.ts = ts /\ u \in Started
    /\ n.r["eax"] = u /\ n.r["esp"] = e
    /\ \A q \in D : n.r[q] = ts[u].regs[Offset[q]]

LEMMA LoadAgain ==
    ASSUME NEW b, NEW e, NEW u, NEW ts, NEW D, Loading(b, e, u, ts, D),
           D \subseteq Regs, NEW q \in Regs \ {"eax", "esp"},
           NEW n, n = Execute(b, <<"load", q, Offset[q]>>)
    PROVE  Loading(n, e, u, ts, D \cup {q})
<1>1. Offset[q] \in 0..10
  BY DEF Offset, Regs
<1>2. Sets(b, n, q, ts[u].regs[Offset[q]])
  BY <1>1, Load DEF Loading
<1> QED
  BY <1>2 DEF Loading, Sets, OtherRegs, Regs

LEMMA LoadsCode ==
    ASSUME NEW m
    PROVE  /\ State(m, 32) = Execute(State(m, 31), <<"peek", "eax", 12>>)
           /\ State(m, 33) = Execute(State(m, 32), <<"load", "ebx", 1>>)
           /\ State(m, 34) = Execute(State(m, 33), <<"load", "ecx", 2>>)
           /\ State(m, 35) = Execute(State(m, 34), <<"load", "edx", 3>>)
           /\ State(m, 36) = Execute(State(m, 35), <<"load", "esi", 4>>)
           /\ State(m, 37) = Execute(State(m, 36), <<"load", "edi", 5>>)
           /\ State(m, 38) = Execute(State(m, 37), <<"load", "ebp", 7>>)
<1>1. /\ State(m, 32) = Execute(State(m, 31), Kept[32])
      /\ State(m, 33) = Execute(State(m, 32), Kept[33])
      /\ State(m, 34) = Execute(State(m, 33), Kept[34])
      /\ State(m, 35) = Execute(State(m, 34), Kept[35])
      /\ State(m, 36) = Execute(State(m, 35), Kept[36])
      /\ State(m, 37) = Execute(State(m, 36), Kept[37])
      /\ State(m, 38) = Execute(State(m, 37), Kept[38])
  BY EachInstruction
<1> QED
  BY <1>1, KeptCode

LEMMA FlagsCode ==
    ASSUME NEW m
    PROVE  /\ State(m, 39) = Execute(State(m, 38), <<"push", "eax">>)
           /\ State(m, 40) = Execute(State(m, 39), <<"load", "eax", 9>>)
           /\ State(m, 41) = Execute(State(m, 40), <<"push", "eax">>)
           /\ State(m, 42) = Execute(State(m, 41), <<"pop", "eflags">>)
           /\ State(m, 43) = Execute(State(m, 42), <<"pop", "eax">>)
<1>1. /\ State(m, 39) = Execute(State(m, 38), Kept[39])
      /\ State(m, 40) = Execute(State(m, 39), Kept[40])
      /\ State(m, 41) = Execute(State(m, 40), Kept[41])
      /\ State(m, 42) = Execute(State(m, 41), Kept[42])
      /\ State(m, 43) = Execute(State(m, 42), Kept[43])
  BY EachInstruction
<1> QED
  BY <1>1, KeptCode

LEMMA StackCode ==
    ASSUME NEW m
    PROVE  /\ State(m, 44) = Execute(State(m, 43), <<"load", "esp", 6>>)
           /\ State(m, 45) = Execute(State(m, 44), <<"push", "eax">>)
           /\ State(m, 46) = Execute(State(m, 45), <<"load", "eax", 10>>)
           /\ State(m, 47) = Execute(State(m, 46), <<"move", "cr3", "eax">>)
           /\ State(m, 48) = Execute(State(m, 47), <<"pop", "eax">>)
<1>1. /\ State(m, 44) = Execute(State(m, 43), Kept[44])
      /\ State(m, 45) = Execute(State(m, 44), Kept[45])
      /\ State(m, 46) = Execute(State(m, 45), Kept[46])
      /\ State(m, 47) = Execute(State(m, 46), Kept[47])
      /\ State(m, 48) = Execute(State(m, 47), Kept[48])
  BY EachInstruction
<1> QED
  BY <1>1, KeptCode

LEMMA ReturnCode ==
    ASSUME NEW m
    PROVE  /\ State(m, 49) = Execute(State(m, 48), <<"push", "eax">>)
           /\ State(m, 50) = Execute(State(m, 49), <<"load", "eax", 8>>)
           /\ State(m, 51) = Execute(State(m, 50), <<"xchg", "eax">>)
           /\ State(m, 52) = Execute(State(m, 51), <<"load", "eax", 0>>)
           /\ State(m, 53) = Execute(State(m, 52), <<"pop", "eip">>)
<1>1. /\ State(m, 49) = Execute(State(m, 48), Kept[49])
      /\ State(m, 50) = Execute(State(m, 49), Kept[50])
      /\ State(m, 51) = Execute(State(m, 50), Kept[51])
      /\ State(m, 52) = Execute(State(m, 51), Kept[52])
      /\ State(m, 53) = Execute(State(m, 52), Kept[53])
  BY EachInstruction
<1> QED
  BY <1>1, KeptCode

LEMMA AfterLoads ==
    ASSUME NEW m, NEW e, NEW t, NEW u, Entered(m, e, t, u)
    PROVE  Loading(State(m, 38), e - 10, u, State(m, 31).ts,
                   {"ebx", "ecx", "edx", "esi", "edi", "ebp"})
<1> DEFINE n(k) == State(m, k)
           ts == n(31).ts
<1>0. /\ u \in Started /\ e \in Int /\ e + 2 \in StackAddresses
      /\ (e - 10) + 12 = e + 2
  BY Addresses DEF Entered
<1>31. /\ n(31) \in Machine /\ n(31).r["esp"] = e - 10 /\ n(31).s[e + 2] = u
  BY AfterSaving DEF Holds
<1>c. /\ n(32) = Execute(n(31), <<"peek", "eax", 12>>)
      /\ n(33) = Execute(n(32), <<"load", "ebx", Offset["ebx"]>>)
      /\ n(34) = Execute(n(33), <<"load", "ecx", Offset["ecx"]>>)
      /\ n(35) = Execute(n(34), <<"load", "edx", Offset["edx"]>>)
      /\ n(36) = Execute(n(35), <<"load", "esi", Offset["esi"]>>)
      /\ n(37) = Execute(n(36), <<"load", "edi", Offset["edi"]>>)
      /\ n(38) = Execute(n(37), <<"load", "ebp", Offset["ebp"]>>)
  BY LoadsCode DEF Offset
<1> HIDE DEF n
<1>32. Loading(n(32), e - 10, u, ts, {})
  <2>1. Sets(n(31), n(32), "eax", n(31).s[n(31).r["esp"] + 12])
    BY <1>0, <1>31, <1>c, Peek DEF Regs
  <2> QED
    BY <1>0, <1>31, <2>1 DEF Loading, Sets, OtherRegs, Regs
<1> HIDE DEF ts
<1>33. Loading(n(33), e - 10, u, ts, {"ebx"})
  <2>1. {} \subseteq Regs /\ "ebx" \in Regs \ {"eax", "esp"}
        /\ {} \cup {"ebx"} = {"ebx"}
    BY DEF Regs
  <2>2. Loading(n(33), e - 10, u, ts, {} \cup {"ebx"})
    BY <1>32, <1>c, <2>1, LoadAgain
  <2> QED
    BY <2>1, <2>2
<1>34. Loading(n(34), e - 10, u, ts, {"ebx", "ecx"})
  <2>1. {"ebx"} \subseteq Regs /\ "ecx" \in Regs \ {"eax", "esp"}
        /\ {"ebx"} \cup {"ecx"} = {"ebx", "ecx"}
    BY DEF Regs
  <2>2. Loading(n(34), e - 10, u, ts, {"ebx"} \cup {"ecx"})
    BY <1>33, <1>c, <2>1, LoadAgain
  <2> QED
    BY <2>1, <2>2
<1>35. Loading(n(35), e - 10, u, ts, {"ebx", "ecx", "edx"})
  <2>1. {"ebx", "ecx"} \subseteq Regs /\ "edx" \in Regs \ {"eax", "esp"}
        /\ {"ebx", "ecx"} \cup {"edx"} = {"ebx", "ecx", "edx"}
    BY DEF Regs
  <2>2. Loading(n(35), e - 10, u, ts, {"ebx", "ecx"} \cup {"edx"})
    BY <1>34, <1>c, <2>1, LoadAgain
  <2> QED
    BY <2>1, <2>2
<1>36. Loading(n(36), e - 10, u, ts, {"ebx", "ecx", "edx", "esi"})
  <2>1. {"ebx", "ecx", "edx"} \subseteq Regs /\ "esi" \in Regs \ {"eax", "esp"}
        /\ {"ebx", "ecx", "edx"} \cup {"esi"} = {"ebx", "ecx", "edx", "esi"}
    BY DEF Regs
  <2>2. Loading(n(36), e - 10, u, ts, {"ebx", "ecx", "edx"} \cup {"esi"})
    BY <1>35, <1>c, <2>1, LoadAgain
  <2> QED
    BY <2>1, <2>2
<1>37. Loading(n(37), e - 10, u, ts, {"ebx", "ecx", "edx", "esi", "edi"})
  <2>1. /\ {"ebx", "ecx", "edx", "esi"} \subseteq Regs
        /\ "edi" \in Regs \ {"eax", "esp"}
        /\ {"ebx", "ecx", "edx", "esi"} \cup {"edi"} = {"ebx", "ecx", "edx", "esi", "edi"}
    BY DEF Regs
  <2>2. Loading(n(37), e - 10, u, ts, {"ebx", "ecx", "edx", "esi"} \cup {"edi"})
    BY <1>36, <1>c, <2>1, LoadAgain
  <2> QED
    BY <2>1, <2>2
<1>38. Loading(n(38), e - 10, u, ts, {"ebx", "ecx", "edx", "esi", "edi", "ebp"})
  <2>1. /\ {"ebx", "ecx", "edx", "esi", "edi"} \subseteq Regs
        /\ "ebp" \in Regs \ {"eax", "esp"}
        /\ {"ebx", "ecx", "edx", "esi", "edi"} \cup {"ebp"} = {"ebx", "ecx", "edx", "esi", "edi", "ebp"}
    BY DEF Regs
  <2>2. Loading(n(38), e - 10, u, ts, {"ebx", "ecx", "edx", "esi", "edi"} \cup {"ebp"})
    BY <1>37, <1>c, <2>1, LoadAgain
  <2> QED
    BY <2>1, <2>2
<1> QED
  BY <1>38 DEF n, ts

LEMMA LoadFrom ==
    ASSUME NEW b \in Machine, NEW ts, b.ts = ts, NEW u \in Started,
           b.r["eax"] = u, NEW q \in Regs, NEW p \in Regs,
           NEW n, n = Execute(b, <<"load", q, Offset[p]>>)
    PROVE  Sets(b, n, q, ts[u].regs[Offset[p]])
<1>1. Offset[p] \in 0..10
  BY DEF Offset, Regs
<1> QED
  BY <1>1, Load

\* The flags go through the stack, and eax with them.
LEMMA AfterFlags ==
    ASSUME NEW m, NEW e, NEW t, NEW u, Entered(m, e, t, u)
    PROVE  Loading(State(m, 43), e - 10, u, State(m, 31).ts,
                   {"ebx", "ecx", "edx", "esi", "edi", "ebp", "eflags"})
<1> DEFINE n(k) == State(m, k)
           ts == n(31).ts
           flags == ts[u].regs[Offset["eflags"]]
<1>0. /\ e \in Int /\ e - 11 \in StackAddresses /\ e - 12 \in StackAddresses
      /\ (e - 10) - 1 = e - 11 /\ (e - 11) - 1 = e - 12 /\ (e - 12) + 1 = e - 11
      /\ (e - 11) + 1 = e - 10 /\ e - 11 # e - 12 /\ u \in Started
  BY Addresses DEF Entered, Offset
<1>38. Loading(n(38), e - 10, u, ts, {"ebx", "ecx", "edx", "esi", "edi", "ebp"})
  BY AfterLoads
<1>c. /\ n(39) = Execute(n(38), <<"push", "eax">>)
      /\ n(40) = Execute(n(39), <<"load", "eax", Offset["eflags"]>>)
      /\ n(41) = Execute(n(40), <<"push", "eax">>)
      /\ n(42) = Execute(n(41), <<"pop", "eflags">>)
      /\ n(43) = Execute(n(42), <<"pop", "eax">>)
  BY FlagsCode DEF Offset
<1> HIDE DEF n
<1>39. /\ Loading(n(39), e - 11, u, ts, {"ebx", "ecx", "edx", "esi", "edi", "ebp"})
       /\ n(39).s[e - 11] = u
  <2>1. Pushed(n(38), n(39), u)
    BY <1>0, <1>38, <1>c, Push DEF Loading, Regs
  <2> QED
    BY <1>0, <1>38, <2>1 DEF Pushed, Loading, OtherRegs, Regs
<1>40. Sets(n(39), n(40), "eax", flags)
  BY ZenonT(30), <1>0, <1>39, <1>c, LoadFrom DEF Loading, Regs
<1> HIDE DEF ts, flags
<1>41. Pushed(n(40), n(41), flags) /\ n(41).r["esp"] = e - 12
  <2>1. n(40) \in Machine /\ n(40).r["esp"] = e - 11 /\ n(40).r["eax"] = flags
    BY <1>39, <1>40 DEF Sets, Loading, OtherRegs, Regs
  <2>2. Pushed(n(40), n(41), n(40).r["eax"])
    BY <1>0, <1>c, <2>1, Push DEF Regs
  <2> QED
    BY <1>0, <2>1, <2>2 DEF Pushed
<1>42. Popped(n(41), n(42), "eflags")
  BY <1>0, <1>41, <1>c, Pop DEF Pushed, Regs
<1>d. /\ n(42) \in Machine /\ n(42).r["esp"] = e - 11
      /\ n(42).r["eflags"] = flags /\ n(42).s[e - 11] = u
  <2>1. n(40).s[e - 11] = u /\ n(40).r["esp"] = e - 11
    BY <1>39, <1>40 DEF Sets, Loading, OtherRegs, Regs
  <2>2. n(41).s[e - 11] = u /\ n(41).s[e - 12] = flags
    BY <1>0, <1>41, <2>1 DEF Pushed, OtherWords
  <2> QED
    BY <1>0, <1>41, <1>42, <2>2 DEF Popped, OtherWords
<1>43. Popped(n(42), n(43), "eax")
  BY <1>0, <1>d, <1>c, Pop DEF Regs
<1>a. /\ n(43) \in Machine /\ n(43).ts = ts /\ n(43).r["eax"] = u
      /\ n(43).r["esp"] = e - 10 /\ n(43).r["eflags"] = flags
  <2>1. n(43).ts = ts
    BY <1>39, <1>40, <1>41, <1>42, <1>43 DEF Popped, Pushed, Sets, Loading
  <2> QED
    BY <1>0, <1>d, <1>43, <2>1 DEF Popped, Regs
<1>b. \A x \in {"ebx", "ecx", "edx", "esi", "edi", "ebp"} : n(43).r[x] = n(39).r[x]
  BY <1>40, <1>41, <1>42, <1>43 DEF Popped, Pushed, Sets, OtherRegs, Regs
<1>e. \A x \in {"ebx", "ecx", "edx", "esi", "edi", "ebp"} : n(43).r[x] = ts[u].regs[Offset[x]]
  BY <1>39, <1>b DEF Loading
<1> QED
  BY <1>0, <1>a, <1>e DEF Loading, n, ts, flags

\* The new stack; eax is kept there while cr3 goes through it.
LEMMA AfterStack ==
    ASSUME NEW m, NEW e, NEW t, NEW u, Entered(m, e, t, u),
           NEW f \in StackAddresses, f - 1 \in StackAddresses,
           f = State(m, 31).ts[u].regs[Offset["esp"]]
    PROVE  Loading(State(m, 48), f, u, State(m, 31).ts,
                   {"ebx", "ecx", "edx", "esi", "edi", "ebp", "eflags", "esp", "cr3"})
<1> DEFINE n(k) == State(m, k)
           ts == n(31).ts
           cr3 == ts[u].regs[Offset["cr3"]]
<1>0. /\ f \in Int /\ (f - 1) + 1 = f /\ u \in Started
  BY DEF Entered, Offset, StackAddresses
<1>43. Loading(n(43), e - 10, u, ts, {"ebx", "ecx", "edx", "esi", "edi", "ebp", "eflags"})
  BY AfterFlags
<1>c. /\ n(44) = Execute(n(43), <<"load", "esp", Offset["esp"]>>)
      /\ n(45) = Execute(n(44), <<"push", "eax">>)
      /\ n(46) = Execute(n(45), <<"load", "eax", Offset["cr3"]>>)
      /\ n(47) = Execute(n(46), <<"move", "cr3", "eax">>)
      /\ n(48) = Execute(n(47), <<"pop", "eax">>)
  BY StackCode DEF Offset
<1> HIDE DEF n
<1>44. Sets(n(43), n(44), "esp", f)
  <2>1. n(43) \in Machine /\ n(43).ts = ts /\ n(43).r["eax"] = u /\ "esp" \in Regs
    BY <1>43 DEF Loading, Regs
  <2>2. f = ts[u].regs[Offset["esp"]]
    BY DEF n
  <2> HIDE DEF ts
  <2>3. Sets(n(43), n(44), "esp", ts[u].regs[Offset["esp"]])
    BY <1>0, <1>c, <2>1, LoadFrom
  <2> QED
    BY <2>2, <2>3
<1>d. /\ n(44) \in Machine /\ n(44).r["esp"] = f /\ n(44).r["eax"] = u
  BY <1>43, <1>44 DEF Sets, Loading, OtherRegs, Regs
<1>45. Pushed(n(44), n(45), u)
  BY <1>0, <1>d, <1>c, Push DEF Regs
<1>e. /\ n(45) \in Machine /\ n(45).ts = ts /\ n(45).r["esp"] = f - 1
      /\ n(45).r["eax"] = u /\ n(45).s[f - 1] = u
  BY <1>43, <1>44, <1>45, <1>d DEF Pushed, Sets, Loading, OtherRegs, Regs
<1>46. Sets(n(45), n(46), "eax", cr3)
  <2>1. "eax" \in Regs /\ "cr3" \in Regs
    BY DEF Regs
  <2> HIDE DEF ts
  <2> QED
    BY <1>0, <1>e, <1>c, <2>1, LoadFrom
<1> HIDE DEF ts, cr3
<1>47. Sets(n(46), n(47), "cr3", cr3)
  <2>1. n(46) \in Machine /\ n(46).r["eax"] = cr3
    BY <1>46 DEF Sets
  <2> QED
    BY <1>c, <2>1, Move DEF Regs
<1>g. /\ n(47) \in Machine /\ n(47).ts = ts /\ n(47).r["esp"] = f - 1
      /\ n(47).r["cr3"] = cr3 /\ n(47).s[f - 1] = u
  BY <1>46, <1>47, <1>e DEF Sets, OtherRegs, Regs
<1>48. Popped(n(47), n(48), "eax")
  BY <1>0, <1>g, <1>c, Pop DEF Regs
<1>a. /\ n(48) \in Machine /\ n(48).ts = ts /\ n(48).r["eax"] = u
      /\ n(48).r["esp"] = f /\ n(48).r["cr3"] = cr3
  BY <1>0, <1>g, <1>48 DEF Popped, Regs
<1>b. \A x \in {"ebx", "ecx", "edx", "esi", "edi", "ebp", "eflags"} : n(48).r[x] = n(43).r[x]
  BY <1>44, <1>45, <1>46, <1>47, <1>48 DEF Popped, Pushed, Sets, OtherRegs, Regs
<1>h. \A x \in {"ebx", "ecx", "edx", "esi", "edi", "ebp", "eflags"} : n(48).r[x] = ts[u].regs[Offset[x]]
  BY <1>43, <1>b DEF Loading
<1> QED
  BY <1>0, <1>a, <1>h DEF Loading, n, ts, cr3

\* And eax, and the return address.
LEMMA AfterReturn ==
    ASSUME NEW m, NEW e, NEW t, NEW u, Entered(m, e, t, u),
           NEW f \in StackAddresses, f - 1 \in StackAddresses,
           f = State(m, 31).ts[u].regs[Offset["esp"]]
    PROVE  /\ State(m, 53) \in Machine /\ State(m, 53).ts = State(m, 31).ts
           /\ State(m, 53).r = Struct(State(m, 31).ts[u].regs)
<1> DEFINE n(k) == State(m, k)
           ts == n(31).ts
           back == ts[u].regs[Offset["eip"]]
           eax == ts[u].regs[Offset["eax"]]
<1>0. /\ f \in Int /\ (f - 1) + 1 = f /\ u \in Started
  BY DEF Entered, Offset, StackAddresses
<1>48. Loading(n(48), f, u, ts, {"ebx", "ecx", "edx", "esi", "edi", "ebp", "eflags", "esp", "cr3"})
  BY AfterStack
<1>c. /\ n(49) = Execute(n(48), <<"push", "eax">>)
      /\ n(50) = Execute(n(49), <<"load", "eax", Offset["eip"]>>)
      /\ n(51) = Execute(n(50), <<"xchg", "eax">>)
      /\ n(52) = Execute(n(51), <<"load", "eax", Offset["eax"]>>)
      /\ n(53) = Execute(n(52), <<"pop", "eip">>)
  BY ReturnCode DEF Offset
<1> HIDE DEF n
<1>49. Pushed(n(48), n(49), u)
  BY <1>0, <1>48, <1>c, Push DEF Loading, Regs
<1>d. /\ n(49) \in Machine /\ n(49).ts = ts /\ n(49).r["esp"] = f - 1
      /\ n(49).r["eax"] = u /\ n(49).s[f - 1] = u
  BY <1>0, <1>48, <1>49 DEF Pushed, Loading, OtherRegs, Regs
<1>50. Sets(n(49), n(50), "eax", back)
  BY ZenonT(30), <1>0, <1>d, <1>c, LoadFrom DEF Regs
<1>e. /\ n(50) \in Machine /\ n(50).ts = ts /\ n(50).r["esp"] = f - 1
      /\ n(50).r["eax"] = back /\ n(50).s[f - 1] = u
  BY <1>d, <1>50 DEF Sets, OtherRegs, Regs
<1>51. Exchanged(n(50), n(51), "eax")
  BY <1>0, <1>e, <1>c, Exchange DEF Regs
<1>g. /\ n(51) \in Machine /\ n(51).ts = ts /\ n(51).r["esp"] = f - 1
      /\ n(51).r["eax"] = u /\ n(51).s[f - 1] = back
  BY <1>e, <1>51 DEF Exchanged, OtherRegs, Regs
<1>52. Sets(n(51), n(52), "eax", eax)
  BY ZenonT(30), <1>0, <1>g, <1>c, LoadFrom DEF Regs
<1> HIDE DEF back, eax
<1>h. /\ n(52) \in Machine /\ n(52).ts = ts /\ n(52).r["esp"] = f - 1
      /\ n(52).r["eax"] = eax /\ n(52).s[f - 1] = back
  BY <1>g, <1>52 DEF Sets, OtherRegs, Regs
<1>53. Popped(n(52), n(53), "eip")
  BY <1>0, <1>h, <1>c, Pop DEF Regs
<1>a. /\ n(53) \in Machine /\ n(53).ts = ts /\ n(53).r["eax"] = eax
      /\ n(53).r["esp"] = f /\ n(53).r["eip"] = back
  BY <1>0, <1>h, <1>53 DEF Popped, Regs
<1>b. \A x \in Regs \ {"eax", "eip", "esp"} : n(53).r[x] = n(48).r[x]
  BY <1>49, <1>50, <1>51, <1>52, <1>53
     DEF Popped, Pushed, Exchanged, Sets, OtherRegs, Regs
<1>i. \A x \in Regs : n(53).r[x] = ts[u].regs[Offset[x]]
  BY <1>48, <1>a, <1>b DEF Loading, Regs, back, eax, n, ts
<1>j. n(53).r = [x \in Regs |-> ts[u].regs[Offset[x]]]
  BY <1>a, <1>i DEF Machine
<1> QED
  BY <1>a, <1>j DEF n, ts, Struct

-----------------------------------------------------------------------------
(* The tasks                                                               *)

\* Where a running task's stack pointer is: it keeps none of its own words.
Top(t) == IF t = 0 THEN Base ELSE StackWords * t

\* What a struct holds of a task that left with these registers: the return
\* address and the two arguments are still on its stack.
Saved(regs) == IF regs["eip"] = Return
               THEN [regs EXCEPT !["esp"] = regs["esp"] - 2] ELSE regs

TasksTyped == /\ tasks \in TaskTable /\ stack \in [StackAddresses -> Int]
              /\ runningTask \in Started
              /\ curProcessIndex \in 0..(MAX_PROCESSES - 1)
              /\ cpu \in [Regs -> Int] /\ cpu["esp"] = Top(runningTask)

\* From initTasking on the tasks are in a ring, and each but the running one can
\* be resumed from its struct alone.
Resumable(t) == /\ t \in DOMAIN left /\ left[t] \in [Regs -> Int]
                /\ left[t]["esp"] = Top(t)
                /\ Struct(tasks[t].regs) = Saved(left[t])
Switching == /\ \A t \in Started : tasks[t].next = IF t < 3 THEN t + 1 ELSE NULL
             /\ \A t \in Started \ {runningTask} : Resumable(t)

LEMMA Tops ==
    ASSUME NEW t \in Started
    PROVE  /\ Top(t) \in StackAddresses /\ Top(t) - 16 \in StackAddresses
           /\ \A x \in Int : x >= Top(t) - 16 /\ x <= Top(t) => x \in StackAddresses
<1>1. StackWords \in Nat /\ StackWords >= 16
  BY TasksAssumption
<1>2. t = 0 \/ t = 1 \/ t = 2 \/ t = 3
  BY DEF Started
<1>3. Top(t) \in Int /\ Top(t) >= 16 /\ Top(t) <= 5 * StackWords - 1
  <2>1. CASE t = 0
    BY <1>1, <2>1 DEF Top, Base
  <2>2. CASE t = 1
    BY <1>1, <2>2 DEF Top
  <2>3. CASE t = 2
    BY <1>1, <2>3 DEF Top
  <2>4. CASE t = 3
    BY <1>1, <2>4 DEF Top
  <2> QED
    BY <1>2, <2>1, <2>2, <2>3, <2>4
<1> QED
  BY <1>1, <1>3 DEF StackAddresses

LEMMA CalledEnters ==
    ASSUME TasksTyped, NEW u \in Started, u # runningTask
    PROVE  LET m == Called(runningTask, u)
               e == cpu["esp"] - 3
           IN /\ Entered(m, e, runningTask, u) /\ m.ts = tasks
              /\ Left(m, e) = [cpu EXCEPT !["esp"] = cpu["esp"] - 2,
                                          !["eip"] = Return]
<1> DEFINE m == Called(runningTask, u)
           top == cpu["esp"]
           e == top - 3
           s == [stack EXCEPT ![top - 1] = u, ![top - 2] = runningTask,
                              ![top - 3] = Return]
           r == [cpu EXCEPT !["esp"] = top - 3]
<1>1. m = [r |-> r, ts |-> tasks, s |-> s]
  BY DEF Called
<1>2. /\ top \in Int /\ top - 1 \in StackAddresses /\ top - 2 \in StackAddresses
      /\ top - 3 \in StackAddresses /\ top - 16 \in StackAddresses
  <2>1. top = Top(runningTask) /\ runningTask \in Started
    BY DEF TasksTyped
  <2>2. top \in StackAddresses /\ top - 16 \in StackAddresses
    BY <2>1, Tops
  <2>3. top \in Int
    BY <2>2 DEF StackAddresses
  <2> QED
    BY <2>1, <2>2, <2>3, Tops
<1>3. runningTask \in Int /\ u \in Int /\ Return \in Int
  BY DEF TasksTyped, Started, Return
<1>4. /\ s \in [StackAddresses -> Int] /\ s[top - 1] = u
      /\ s[top - 2] = runningTask /\ s[top - 3] = Return
  BY <1>2, <1>3 DEF TasksTyped
<1>5. r \in [Regs -> Int] /\ r["esp"] = top - 3
  BY <1>2 DEF TasksTyped, Regs
<1>6. m \in Machine /\ m.ts = tasks /\ m.r = r /\ m.s = s
  BY <1>1, <1>4, <1>5 DEF Machine, TasksTyped
<1>7. Entered(m, e, runningTask, u)
  BY <1>2, <1>4, <1>5, <1>6 DEF Entered, TasksTyped
<1>8. Left(m, e) = [cpu EXCEPT !["esp"] = top - 2, !["eip"] = Return]
  <2>1. [r EXCEPT !["esp"] = top - 2, !["eip"] = Return]
        = [cpu EXCEPT !["esp"] = top - 2, !["eip"] = Return]
    BY DEF TasksTyped, Regs
  <2>2. (top - 3) + 1 = top - 2
    BY <1>2
  <2> HIDE DEF r, s
  <2> QED
    BY <1>4, <1>6, <2>1, <2>2 DEF Left
<1> QED
  BY <1>6, <1>7, <1>8

\* k_preempt hands the processor to the next task in the ring, which comes back
\* to what it left with, and leaves every other task as it was.
LEMMA PreemptKeeps ==
    ASSUME TasksTyped, Switching, k_preempt, armed,
           NEW t, t = runningTask, NEW u, u = Successor(t)
    PROVE  TasksTyped' /\ Switching' /\ ContextKept'
<1> DEFINE m == Called(t, u)
           e == cpu["esp"] - 3
           b == State(m, 53)
           w == [cpu EXCEPT !["esp"] = cpu["esp"] - 2, !["eip"] = Return]
<1>1. t \in Started /\ u \in Started /\ t # u
  <2>1. t \in Started /\ tasks[t].next = IF t < 3 THEN t + 1 ELSE NULL
    BY DEF TasksTyped, Switching
  <2> QED
    BY <2>1 DEF Successor, Started, NULL
<1>2. Entered(m, e, t, u) /\ m.ts = tasks /\ Left(m, e) = w
  BY <1>1, CalledEnters
<1>3. Resumable(u)
  BY <1>1 DEF Switching
<1>4. /\ runningTask' = u /\ resumed' = TRUE
      /\ curProcessIndex' = (curProcessIndex + 1) % MAX_PROCESSES
      /\ switchTask(t, u)
  BY DEF k_preempt
<1>5. /\ cpu' = IF b.r.eip = Return THEN [b.r EXCEPT !.esp = @ + 2] ELSE b.r
      /\ stack' = b.s /\ tasks' = b.ts
      /\ left' = [x \in DOMAIN left \cup {t} |->
                      IF x = t THEN [cpu EXCEPT !.eip = Return] ELSE left[x]]
  <2>1. Len(Kept) = 53
    BY KeptCode
  <2> QED
    BY <1>4, <2>1 DEF switchTask, State
<1> HIDE DEF m, e, b, w
<1> DEFINE c == State(m, 31)
<1>6. /\ Struct(c.ts[t].regs) = w /\ c.ts[t].next = tasks[t].next
      /\ \A x \in Started : x # t => c.ts[x] = tasks[x]
  <2>1. Holds(m, c, c, t, Regs, w)
    BY <1>2, AfterSaving
  <2>2. \A x \in Regs : c.ts[t].regs[Offset[x]] = w[x]
    BY <2>1 DEF Holds
  <2>3. w = [x \in Regs |-> w[x]]
    BY DEF w, TasksTyped
  <2>4. Struct(c.ts[t].regs) = w
    BY <2>2, <2>3 DEF Struct
  <2> QED
    BY <1>2, <2>1, <2>4 DEF Holds
<1> HIDE DEF c
<1> DEFINE f == Saved(left[u])["esp"]
<1>7. /\ left[u] \in [Regs -> Int] /\ left[u]["esp"] = Top(u) /\ Top(u) \in Int
      /\ Struct(c.ts[u].regs) = Saved(left[u])
  <2>1. Top(u) \in Int
    BY <1>1, Tops DEF StackAddresses
  <2>2. c.ts[u] = tasks[u]
    BY <1>1, <1>6
  <2> QED
    BY <1>3, <2>1, <2>2 DEF Resumable
<1>8. /\ f \in StackAddresses /\ f - 1 \in StackAddresses
      /\ f = c.ts[u].regs[Offset["esp"]]
  <2>1. f = Top(u) \/ f = Top(u) - 2
    BY <1>7 DEF Saved, Regs
  <2>2. f \in StackAddresses /\ f - 1 \in StackAddresses
    BY <1>1, <1>7, <2>1, Tops
  <2>3. Struct(c.ts[u].regs)["esp"] = c.ts[u].regs[Offset["esp"]]
    BY DEF Struct, Regs
  <2> QED
    BY <1>7, <2>2, <2>3
<1> HIDE DEF f
<1>9. b \in Machine /\ b.ts = c.ts /\ b.r = Saved(left[u])
  BY <1>2, <1>7, <1>8, AfterReturn DEF b, c
<1>10. cpu' = left[u]
  <2>1. CASE left[u]["eip"] = Return
    <3>1. Saved(left[u]) = [left[u] EXCEPT !["esp"] = left[u]["esp"] - 2]
      BY <2>1 DEF Saved
    <3>2. b.r["eip"] = Return /\ b.r["esp"] = Top(u) - 2
      BY <1>7, <1>9, <2>1, <3>1 DEF Regs
    <3>3. cpu' = [b.r EXCEPT !["esp"] = Top(u)]
      BY <1>5, <1>7, <3>2
    <3>4. [[left[u] EXCEPT !["esp"] = left[u]["esp"] - 2] EXCEPT !["esp"] = Top(u)]
          = left[u]
      BY <1>7
    <3> QED
      BY <1>9, <3>1, <3>3, <3>4
  <2>2. CASE left[u]["eip"] # Return
    BY <1>5, <1>9, <2>2 DEF Saved
  <2> QED
    BY <2>1, <2>2
<1>11. left'[u] = left[u] /\ left'[t] = [cpu EXCEPT !["eip"] = Return]
  BY <1>1, <1>3, <1>5 DEF Resumable
<1>12. ContextKept'
  BY <1>4, <1>10, <1>11 DEF ContextKept
<1>13. TasksTyped'
  <2>1. tasks' \in TaskTable /\ stack' \in [StackAddresses -> Int]
    BY <1>5, <1>9 DEF Machine
  <2>2. curProcessIndex' \in 0..(MAX_PROCESSES - 1)
    BY <1>4, TasksAssumption DEF TasksTyped
  <2>3. cpu' \in [Regs -> Int] /\ cpu'["esp"] = Top(u)
    BY <1>7, <1>10
  <2> QED
    BY <1>1, <1>4, <2>1, <2>2, <2>3 DEF TasksTyped, Top
<1>14. \A x \in Started : tasks'[x].next = tasks[x].next
  BY <1>5, <1>6, <1>9
<1>15. Resumable(t)'
  <2>1. t \in DOMAIN left'
    BY <1>5
  <2>2. /\ left'[t] \in [Regs -> Int] /\ left'[t]["esp"] = Top(t)
        /\ left'[t]["eip"] = Return
    BY <1>11 DEF TasksTyped, Regs, Return
  <2>3. Saved(left'[t]) = w
    <3>1. Saved(left'[t]) = [left'[t] EXCEPT !["esp"] = left'[t]["esp"] - 2]
      BY <2>2 DEF Saved
    <3>2. left'[t]["esp"] = cpu["esp"]
      BY <1>11 DEF TasksTyped, Regs
    <3>3. [[cpu EXCEPT !["eip"] = Return] EXCEPT !["esp"] = cpu["esp"] - 2]
          = [cpu EXCEPT !["esp"] = cpu["esp"] - 2, !["eip"] = Return]
      BY DEF TasksTyped, Regs
    <3> QED
      BY <1>11, <3>1, <3>2, <3>3 DEF w
  <2>4. Struct(tasks'[t].regs) = w
    BY <1>5, <1>6, <1>9
  <2> QED
    BY <2>1, <2>2, <2>3, <2>4 DEF Resumable, Top, Saved, Struct
<1>16. ASSUME NEW x \in Started, x # t, x # u
       PROVE  Resumable(x)'
  <2>1. Resumable(x)
    BY <1>16 DEF Switching
  <2>2. x \in DOMAIN left' /\ left'[x] = left[x]
    BY <1>5, <1>16, <2>1 DEF Resumable
  <2>3. tasks'[x] = tasks[x]
    BY <1>5, <1>6, <1>9, <1>16
  <2> QED
    BY <2>1, <2>2, <2>3 DEF Resumable
<1>17. Switching'
  <2>1. \A x \in Started : tasks'[x].next = IF x < 3 THEN x + 1 ELSE NULL
    BY <1>14 DEF Switching
  <2>2. \A x \in Started \ {u} : Resumable(x)'
    BY <1>15, <1>16
  <2> QED
    BY <1>4, <2>1, <2>2 DEF Switching
<1> QED
  BY <1>12, <1>13, <1>17

LEMMA TasksStart ==
    ASSUME TasksInit
    PROVE  TasksTyped /\ runningTask = 0 /\ resumed = FALSE
<1>1. tasks \in TaskTable
  BY DEF TasksInit, TaskTable, NULL
<1>2. stack \in [StackAddresses -> Int]
  BY DEF TasksInit
<1>3. Base \in Int
  BY TasksAssumption DEF Base
<1>4. Own(0) \in [Regs -> Int]
  BY DEF Own, Regs, Offset
<1>5. cpu \in [Regs -> Int] /\ cpu["esp"] = Base
  BY <1>3, <1>4 DEF TasksInit, Regs
<1>6. runningTask \in Started /\ curProcessIndex \in 0..(MAX_PROCESSES - 1)
  BY TasksAssumption DEF TasksInit, Started
<1> QED
  BY <1>1, <1>2, <1>5, <1>6 DEF TasksTyped, TasksInit, Top

LEMMA FreshRegs ==
    ASSUME NEW t \in 1..3
    PROVE  /\ Fresh(t, t) \in [0..10 -> Int]
           /\ Struct(Fresh(t, t)) \in [Regs -> Int]
           /\ Struct(Fresh(t, t))["esp"] = Top(t)
           /\ Struct(Fresh(t, t))["eip"] = 500 + t
<1> DEFINE f == Fresh(t, t)
<1>1. StackWords \in Int /\ StackWords * t \in Int
  BY TasksAssumption
<1>2. f = [i \in 0..10 |-> IF i = 8 THEN 500 + t
                           ELSE IF i = 6 THEN StackWords * t
                           ELSE IF i \in {9, 10} THEN 7 ELSE 0]
  BY DEF Fresh, Entry, Offset
<1> HIDE DEF f
<1>3. f \in [0..10 -> Int] /\ f[6] = StackWords * t /\ f[8] = 500 + t
  BY <1>1, <1>2
<1>4. \A q \in Regs : Offset[q] \in 0..10
  BY DEF Offset, Regs
<1>5. Offset["esp"] = 6 /\ Offset["eip"] = 8 /\ "esp" \in Regs /\ "eip" \in Regs
  BY DEF Offset, Regs
<1>6. Struct(f) \in [Regs -> Int]
  BY <1>3, <1>4 DEF Struct
<1>7. Struct(f)["esp"] = Top(t) /\ Struct(f)["eip"] = 500 + t
  BY <1>3, <1>5 DEF Struct, Top
<1> QED
  BY <1>3, <1>6, <1>7 DEF f

\* initTasking makes the ring and three tasks that begin at their entries.
LEMMA InitTaskingStarts ==
    ASSUME TasksTyped, runningTask = 0, resumed = FALSE, initTasking
    PROVE  TasksTyped' /\ Switching' /\ runningTask' = 0 /\ resumed' = FALSE
<1>1. /\ tasks' = createTask(createTask(createTask(tasks, 1), 2), 3)
      /\ runningTask' = 0 /\ left' = [t \in 1..3 |-> Struct(tasks'[t].regs)]
      /\ UNCHANGED <<armed, curProcessIndex, cpu, stack, resumed>>
  BY DEF initTasking
<1>2. /\ Fresh(1, 1) \in [0..10 -> Int] /\ Fresh(2, 2) \in [0..10 -> Int]
      /\ Fresh(3, 3) \in [0..10 -> Int]
  BY FreshRegs
<1> DEFINE a == createTask(tasks, 1)
           b == createTask(a, 2)
<1>3. /\ a \in TaskTable /\ a[0].next = 1 /\ a[1].next = NULL
      /\ a[1].regs = Fresh(1, 1)
  BY <1>2 DEF createTask, TasksTyped, TaskTable, Started, NULL
<1> HIDE DEF a
<1>4. /\ b \in TaskTable /\ b[0].next = 1 /\ b[1].next = 2 /\ b[2].next = NULL
      /\ b[1].regs = Fresh(1, 1) /\ b[2].regs = Fresh(2, 2)
  BY <1>2, <1>3 DEF createTask, TaskTable, Started, NULL
<1> HIDE DEF b
<1>5. tasks' = createTask(b, 3)
  BY <1>1 DEF a, b
<1>6. /\ tasks' \in TaskTable /\ tasks'[0].next = 1 /\ tasks'[1].next = 2
      /\ tasks'[2].next = 3 /\ tasks'[3].next = NULL
      /\ tasks'[1].regs = Fresh(1, 1) /\ tasks'[2].regs = Fresh(2, 2)
      /\ tasks'[3].regs = Fresh(3, 3)
  BY <1>2, <1>4, <1>5 DEF createTask, TaskTable, Started, NULL
<1>7. TasksTyped'
  BY <1>1, <1>6 DEF TasksTyped, Top
<1>8. \A t \in Started : tasks'[t].next = IF t < 3 THEN t + 1 ELSE NULL
  BY <1>6 DEF Started
<1>9. ASSUME NEW t \in 1..3
      PROVE  Resumable(t)'
  <2>1. tasks'[t].regs = Fresh(t, t)
    <3>1. t = 1 \/ t = 2 \/ t = 3
      OBVIOUS
    <3> QED
      BY <1>6, <3>1
  <2>2. left'[t] = Struct(Fresh(t, t)) /\ t \in DOMAIN left'
    BY <1>1, <2>1
  <2>3. 500 + t # Return
    BY DEF Return
  <2>4. Saved(left'[t]) = left'[t]
    BY <2>2, <2>3, FreshRegs DEF Saved
  <2> QED
    BY <2>1, <2>2, <2>4, FreshRegs DEF Resumable, Top, Saved, Struct
<1>10. Switching'
  <2>1. \A t \in Started \ {0} : t \in 1..3
    BY DEF Started
  <2> QED
    BY <1>1, <1>8, <1>9, <2>1 DEF Switching
<1> QED
  BY <1>1, <1>7, <1>10

\* A task's own work is on its own stack and in the registers.
LEMMA WorkKeeps ==
    ASSUME TasksTyped, Switching, Work
    PROVE  TasksTyped' /\ Switching' /\ ContextKept'
<1>1. /\ cpu' = [Own(runningTask) EXCEPT !.esp = cpu.esp, !.eip = cpu.eip]
      /\ resumed' = FALSE
      /\ UNCHANGED <<armed, tasks, runningTask, curProcessIndex, processesCount,
                     stack, left>>
  BY DEF Work
<1>2. Own(runningTask) \in [Regs -> Int]
  <2>1. runningTask \in Int
    BY DEF TasksTyped, Started
  <2>2. \A q \in Regs : Offset[q] \in Int
    BY DEF Offset, Regs
  <2> QED
    BY <2>1, <2>2 DEF Own
<1>3. cpu' \in [Regs -> Int] /\ cpu'["esp"] = cpu["esp"]
  BY <1>1, <1>2 DEF TasksTyped, Regs
<1>4. TasksTyped'
  BY <1>1, <1>3 DEF TasksTyped, Top
<1>5. \A t : Resumable(t) => Resumable(t)'
  BY <1>1 DEF Resumable, Struct, Saved, Top
<1>6. Switching'
  BY <1>1, <1>5 DEF Switching
<1> QED
  BY <1>1, <1>4, <1>6 DEF ContextKept

LEMMA TasksStutter ==
    ASSUME UNCHANGED taskvars
    PROVE  /\ TasksTyped => TasksTyped'
           /\ Switching => Switching'
           /\ ContextKept => ContextKept'
<1>1. UNCHANGED <<armed, tasks, runningTask, curProcessIndex, processesCount, cpu,
                  stack, left, resumed>>
  BY DEF taskvars
<1>2. \A t : Resumable(t) => Resumable(t)'
  BY <1>1 DEF Resumable, Struct, Saved, Top
<1> QED
  BY <1>1, <1>2 DEF TasksTyped, Switching, ContextKept, Top
=============================================================================
