---------------------------- MODULE KmainProofs ----------------------------
(***************************************************************************)
(* kmain from sti to its last loop, for any number and length of delays,   *)
(* any sizes of blocks, any sector and any counter.                        *)
(*                                                                         *)
(* The invariants say what has become of each component when a certain     *)
(* part of kmain's code is done; so the first half is about where in the   *)
(* code each instruction is, and that what is left of it is always a       *)
(* suffix of it.                                                           *)
(***************************************************************************)
EXTENDS Kmain, TasksProofs, SequenceTheorems, TLAPS

Names == {"reset", "identify", "write", "read", "BSY", "RDY", "DRQ"}
Ops == {"alloc", "if", "delay", "cmd", "wait", "skip", "outw", "idle", "inw",
        "paging", "tasks"}
Args == Nat \cup BOOLEAN \cup Names
Step == {s \in [op : Ops, arg : Args] : s.op = "if" => s.arg \in BOOLEAN}
Code(s, n) == s \in Seq(Step) /\ Len(s) = n

\* Positions in kmain's code: of sti, of the last delay, of the write and of the
\* read command, and of the last word read.
StiAt == Len(BootSizes) + 1
DelaysEnd == StiAt + Len(Delays)
WriteAt == DelaysEnd + Words + 20
ReadAt == WriteAt + Words + 3
DiskEnd == ReadAt + Words + 1
CodeEnd == DiskEnd + Len(Sizes) + 2

-----------------------------------------------------------------------------
(* Where each instruction is *)

LEMMA Naturals ==
    /\ Words \in Nat \ {0} /\ Len(BootSizes) \in Nat /\ Len(Delays) \in Nat
    /\ Len(Sizes) \in Nat
    /\ StiAt \in Nat /\ DelaysEnd \in Nat /\ WriteAt \in Nat /\ ReadAt \in Nat
    /\ DiskEnd \in Nat /\ CodeEnd \in Nat
<1>1. /\ Words \in Nat \ {0} /\ Len(BootSizes) \in Nat /\ Len(Delays) \in Nat
      /\ Len(Sizes) \in Nat
  BY AtaAssumption, KmainAssumption DEF AtaAssumption, KmainAssumption
<1>. QED BY <1>1 DEF StiAt, DelaysEnd, WriteAt, ReadAt, DiskEnd, CodeEnd

LEMMA StepTypes ==
    /\ \A n \in Nat : /\ O("alloc", n) \in Step /\ O("delay", n) \in Step
                      /\ O("skip", n) \in Step /\ O("outw", n) \in Step
                      /\ O("inw", n) \in Step
    /\ \A n \in Names : O("cmd", n) \in Step /\ O("wait", n) \in Step
    /\ \A b \in BOOLEAN : O("if", b) \in Step
    /\ \A z \in {0} : /\ O("idle", z) \in Step /\ O("paging", z) \in Step
                      /\ O("tasks", z) \in Step
BY DEF O, Step, Args, Ops

LEMMA Tuples ==
    ASSUME NEW S, NEW a \in S, NEW b \in S, NEW c \in S
    PROVE  /\ <<a>> \in Seq(S) /\ Len(<<a>>) = 1
           /\ <<a, b>> \in Seq(S) /\ Len(<<a, b>>) = 2
           /\ <<a, b, c>> \in Seq(S) /\ Len(<<a, b, c>>) = 3
OBVIOUS

LEMMA FunctionIsSeq ==
    ASSUME NEW S, NEW n \in Nat, NEW f \in [1..n -> S]
    PROVE  f \in Seq(S) /\ Len(f) = n
<1>1. f \in Seq(S)
  BY SeqDef
<1>2. Len(f) \in Nat /\ DOMAIN f = 1..Len(f)
  BY <1>1, LenProperties
<1>3. DOMAIN f = 1..n
  OBVIOUS
<1>. QED BY <1>1, <1>2, <1>3

\* u is s, of length m, and then t, of length n.
Joins(u, s, m, t, n) == /\ Code(u, m + n)
                        /\ \A i \in 1..m : u[i] = s[i]
                        /\ \A i \in 1..n : u[m + i] = t[i]

LEMMA Joined ==
    ASSUME NEW m \in Nat, NEW n \in Nat, NEW s, NEW t, Code(s, m), Code(t, n)
    PROVE  Joins(s \o t, s, m, t, n)
<1>0. s \in Seq(Step) /\ t \in Seq(Step) /\ Len(s) = m /\ Len(t) = n
  BY DEF Code
<1>. DEFINE u == s \o t
<1>1. /\ u \in Seq(Step) /\ Len(u) = m + n
      /\ \A i \in 1..m + n : u[i] = IF i <= m THEN s[i] ELSE t[i - m]
  BY <1>0, ConcatProperties
<1>. HIDE DEF u
<1>2. \A i \in 1..m : u[i] = s[i]
  BY <1>1
<1>3. \A i \in 1..n : u[m + i] = t[i]
  <2>1. \A i \in 1..n : /\ m + i \in 1..m + n /\ ~(m + i <= m) /\ (m + i) - m = i
    OBVIOUS
  <2>. QED BY <1>1, <2>1
<1>4. Joins(u, s, m, t, n)
  BY <1>1, <1>2, <1>3 DEF Joins, Code
<1>. QED BY <1>4 DEF u

\* An operation for each element of a sequence.
LEMMA SequenceOf ==
    ASSUME NEW op \in {"alloc", "delay"}, NEW args \in Seq(Nat)
    PROVE  /\ Code(Sequence(op, args), Len(args))
           /\ \A i \in 1..Len(args) : Sequence(op, args)[i] = O(op, args[i])
<1>1. Len(args) \in Nat /\ DOMAIN args = 1..Len(args)
  OBVIOUS
<1>2. \A i \in 1..Len(args) : O(op, args[i]) \in Step
  BY StepTypes
<1>3. /\ Sequence(op, args) = [i \in 1..Len(args) |-> O(op, args[i])]
      /\ Sequence(op, args) \in [1..Len(args) -> Step]
  BY <1>1, <1>2 DEF Sequence
<1>. QED BY <1>1, <1>3, FunctionIsSeq DEF Code

LEMMA EachOf ==
    ASSUME NEW op \in {"skip", "outw", "inw"}
    PROVE  /\ Code(Each(op), Words)
           /\ \A i \in 1..Words : Each(op)[i] = O(op, i)
<1>1. \A i \in 1..Words : O(op, i) \in Step
  BY StepTypes, Naturals
<1>2. Each(op) \in [1..Words -> Step]
  BY <1>1 DEF Each
<1>. QED BY <1>2, Naturals, FunctionIsSeq DEF Code, Each

\* Identifying the drive and asking for it: nothing in it moves the data.
Identifying == ata_soft_reset \o identify \o ata_present \o ata_present
Harmless(s) == \A i \in 1..Len(s) : s[i].op \in {"cmd", "wait", "if", "skip"}

LEMMA JoinedHarmless ==
    ASSUME NEW m \in Nat, NEW n \in Nat, NEW s, NEW t, Code(s, m), Code(t, n),
           Harmless(s), Harmless(t)
    PROVE  Code(s \o t, m + n) /\ Harmless(s \o t)
<1>. DEFINE u == s \o t
<1>0. s \in Seq(Step) /\ t \in Seq(Step) /\ Len(s) = m /\ Len(t) = n
  BY DEF Code
<1>1. /\ u \in Seq(Step) /\ Len(u) = m + n
      /\ \A i \in 1..m + n : u[i] = IF i <= m THEN s[i] ELSE t[i - m]
  BY <1>0, ConcatProperties
<1>. HIDE DEF u
<1>2. ASSUME NEW i \in 1..m + n
      PROVE  u[i].op \in {"cmd", "wait", "if", "skip"}
  <2>1. CASE i <= m
    BY <1>0, <1>1, <2>1 DEF Harmless
  <2>2. CASE ~(i <= m)
    <3>1. i - m \in 1..n
      BY <2>2
    <3>2. u[i] = t[i - m]
      BY <1>1, <2>2
    <3>. QED BY <1>0, <3>1, <3>2 DEF Harmless
  <2>. QED BY <2>1, <2>2
<1>3. Code(u, m + n) /\ Harmless(u)
  BY <1>1, <1>2 DEF Harmless, Code
<1>. QED BY <1>3 DEF u

LEMMA IdentifyingCode == Code(Identifying, Words + 19) /\ Harmless(Identifying)
<1>0. /\ O("if", FALSE) \in Step /\ O("if", TRUE) \in Step
      /\ O("cmd", "reset") \in Step /\ O("cmd", "identify") \in Step
      /\ O("wait", "BSY") \in Step /\ O("wait", "RDY") \in Step
      /\ O("wait", "DRQ") \in Step
  BY StepTypes DEF Names
<1>1. Code(ata_soft_reset, 2) /\ Harmless(ata_soft_reset)
  <2>1. Code(ata_soft_reset, 2)
    BY <1>0, Tuples DEF ata_soft_reset, Code
  <2>. QED BY <2>1 DEF ata_soft_reset, Harmless, O, Code
<1>2. Code(Cli, 1) /\ Harmless(Cli) /\ Code(Sti, 1) /\ Harmless(Sti)
  <2>1. Code(Cli, 1) /\ Code(Sti, 1)
    BY <1>0, Tuples DEF Cli, Sti, Code
  <2>. QED BY <2>1 DEF Cli, Sti, Harmless, O, Code
<1>. DEFINE ask == <<O("wait", "RDY"), O("cmd", "identify"), O("wait", "DRQ")>>
<1>3. Code(ask, 3) /\ Harmless(ask)
  <2>1. Code(ask, 3)
    BY <1>0, Tuples DEF Code
  <2>. QED BY <2>1 DEF Harmless, O, Code
<1>. HIDE DEF ask
<1>4. Code(Each("skip"), Words) /\ Harmless(Each("skip"))
  <2>. DEFINE e == Each("skip")
  <2>. HIDE DEF e
  <2>1. Code(e, Words) /\ \A i \in 1..Words : e[i] = O("skip", i)
    BY EachOf DEF e
  <2>2. \A i \in 1..Words : O("skip", i).op = "skip"
    BY DEF O
  <2>3. \A i \in 1..Words : e[i].op = "skip"
    BY <2>1, <2>2
  <2>. QED BY <2>1, <2>3 DEF Harmless, Code, e
<1>5. Code(Cli \o ask, 4) /\ Harmless(Cli \o ask)
  BY <1>2, <1>3, JoinedHarmless
<1>6. /\ Code(Cli \o ask \o Each("skip"), 4 + Words)
      /\ Harmless(Cli \o ask \o Each("skip"))
  BY <1>4, <1>5, JoinedHarmless, Naturals
<1>7. Code(identify, Words + 5) /\ Harmless(identify)
  <2>1. identify = (Cli \o ask \o Each("skip")) \o Sti
    BY DEF identify, ask
  <2>2. Code(identify, (4 + Words) + 1) /\ Harmless(identify)
    BY <1>2, <1>6, <2>1, JoinedHarmless, Naturals
  <2>. QED BY <2>2, Naturals
<1>8. Code(ata_present, 6) /\ Harmless(ata_present)
  <2>1. Code(Cli \o Sti, 2) /\ Harmless(Cli \o Sti)
    BY <1>2, JoinedHarmless
  <2>2. Code(Cli \o Sti \o Cli, 3) /\ Harmless(Cli \o Sti \o Cli)
    BY <1>2, <2>1, JoinedHarmless
  <2>3. Code(Cli \o Sti \o Cli \o Sti, 4) /\ Harmless(Cli \o Sti \o Cli \o Sti)
    BY <1>2, <2>2, JoinedHarmless
  <2>4. /\ Code(Cli \o Sti \o Cli \o Sti \o Cli, 5)
        /\ Harmless(Cli \o Sti \o Cli \o Sti \o Cli)
    BY <1>2, <2>3, JoinedHarmless
  <2>. QED BY <1>2, <2>4, JoinedHarmless DEF ata_present
<1>9. /\ Code(ata_soft_reset \o identify, Words + 7)
      /\ Harmless(ata_soft_reset \o identify)
  <2>1. /\ Code(ata_soft_reset \o identify, 2 + (Words + 5))
        /\ Harmless(ata_soft_reset \o identify)
    BY <1>1, <1>7, JoinedHarmless, Naturals
  <2>. QED BY <2>1, Naturals
<1>10. /\ Code(ata_soft_reset \o identify \o ata_present, Words + 13)
       /\ Harmless(ata_soft_reset \o identify \o ata_present)
  <2>1. /\ Code(ata_soft_reset \o identify \o ata_present, (Words + 7) + 6)
        /\ Harmless(ata_soft_reset \o identify \o ata_present)
    BY <1>8, <1>9, JoinedHarmless, Naturals
  <2>. QED BY <2>1, Naturals
<1>11. Code(Identifying, (Words + 13) + 6) /\ Harmless(Identifying)
  BY <1>8, <1>10, JoinedHarmless, Naturals DEF Identifying
<1>. QED BY <1>11, Naturals


\* The code, cut where one part ends and the next begins.
LEMMA CodeAt ==
    /\ KmainCode \in Seq(Step) /\ Len(KmainCode) = CodeEnd
    /\ \A i \in 1..Len(BootSizes) : KmainCode[i] = O("alloc", BootSizes[i])
    /\ KmainCode[StiAt] = O("if", TRUE)
    /\ \A i \in 1..Len(Delays) : KmainCode[StiAt + i] = O("delay", Delays[i])
    /\ \A i \in DelaysEnd + 1..WriteAt - 1 :
          KmainCode[i].op \in {"cmd", "wait", "if", "skip"}
    /\ KmainCode[WriteAt] = O("cmd", "write")
    /\ KmainCode[WriteAt + 1] = O("wait", "DRQ")
    /\ \A i \in 1..Words : KmainCode[WriteAt + 1 + i] = O("outw", i)
    /\ KmainCode[ReadAt - 1] = O("idle", 0)
    /\ KmainCode[ReadAt] = O("cmd", "read")
    /\ KmainCode[ReadAt + 1] = O("wait", "DRQ")
    /\ \A i \in 1..Words : KmainCode[ReadAt + 1 + i] = O("inw", i)
    /\ \A i \in 1..Len(Sizes) : KmainCode[DiskEnd + i] = O("alloc", Sizes[i])
    /\ KmainCode[CodeEnd - 1] = O("paging", 0)
    /\ KmainCode[CodeEnd] = O("tasks", 0)
<1>. DEFINE c1 == Sequence("alloc", BootSizes)
            c2 == c1 \o Sti
            ds == Sequence("delay", Delays)
            c3 == c2 \o ds
            cw == <<O("cmd", "write"), O("wait", "DRQ")>>
            ow == Each("outw")
            w  == cw \o ow
            cr == <<O("cmd", "read"), O("wait", "DRQ")>>
            iw == Each("inw")
            r  == cr \o iw
            id == <<O("idle", 0)>>
            t1 == Identifying
            t2 == t1 \o w
            t3 == t2 \o id
            t  == t3 \o r
            c4 == c3 \o t
            as == Sequence("alloc", Sizes)
            c5 == c4 \o as
            pt == <<O("paging", 0), O("tasks", 0)>>
            c  == c5 \o pt
<1>0. KmainCode = c
  BY DEF KmainCode, test_harddisk, ata_pio_write_w, ata_pio_read_w, Identifying
<1>n. /\ Words \in Nat \ {0} /\ Len(BootSizes) \in Nat /\ Len(Delays) \in Nat
      /\ Len(Sizes) \in Nat
  BY Naturals
<1>a. BootSizes \in Seq(Nat) /\ Sizes \in Seq(Nat) /\ Delays \in Seq(Nat)
  BY KmainAssumption DEF KmainAssumption
<1>b. /\ Code(c1, Len(BootSizes))
      /\ \A i \in 1..Len(BootSizes) : c1[i] = O("alloc", BootSizes[i])
  BY <1>a, SequenceOf
<1>c. /\ Code(ds, Len(Delays))
      /\ \A i \in 1..Len(Delays) : ds[i] = O("delay", Delays[i])
  BY <1>a, SequenceOf
<1>d. /\ Code(as, Len(Sizes))
      /\ \A i \in 1..Len(Sizes) : as[i] = O("alloc", Sizes[i])
  BY <1>a, SequenceOf
<1>e. Code(ow, Words) /\ \A i \in 1..Words : ow[i] = O("outw", i)
  BY EachOf
<1>f. Code(iw, Words) /\ \A i \in 1..Words : iw[i] = O("inw", i)
  BY EachOf
<1>g. /\ Code(t1, Words + 19)
      /\ \A i \in 1..Words + 19 : t1[i].op \in {"cmd", "wait", "if", "skip"}
  BY IdentifyingCode DEF Code, Harmless
<1>h. /\ Code(Sti, 1) /\ Sti[1] = O("if", TRUE)
      /\ Code(id, 1) /\ id[1] = O("idle", 0)
  <2>1. O("if", TRUE) \in Step /\ O("idle", 0) \in Step
    BY StepTypes
  <2>. QED BY <2>1, Tuples DEF Sti, Code
<1>i. /\ Code(cw, 2) /\ cw[1] = O("cmd", "write") /\ cw[2] = O("wait", "DRQ")
      /\ Code(cr, 2) /\ cr[1] = O("cmd", "read") /\ cr[2] = O("wait", "DRQ")
  <2>1. /\ O("cmd", "write") \in Step /\ O("cmd", "read") \in Step
        /\ O("wait", "DRQ") \in Step
    BY StepTypes DEF Names
  <2>. QED BY <2>1, Tuples DEF Code
<1>j. Code(pt, 2) /\ pt[1] = O("paging", 0) /\ pt[2] = O("tasks", 0)
  <2>1. O("paging", 0) \in Step /\ O("tasks", 0) \in Step
    BY StepTypes
  <2>. QED BY <2>1, Tuples DEF Code
<1>. HIDE DEF c1, ds, cw, ow, cr, iw, id, t1, as, pt
<1>2. Joins(c2, c1, Len(BootSizes), Sti, 1) /\ Code(c2, StiAt)
  <2>1. Joins(c2, c1, Len(BootSizes), Sti, 1)
    BY <1>n, <1>b, <1>h, Joined
  <2>. QED BY <2>1 DEF Joins, StiAt
<1>3. Joins(c3, c2, StiAt, ds, Len(Delays)) /\ Code(c3, DelaysEnd)
  <2>. HIDE DEF c2
  <2>1. Joins(c3, c2, StiAt, ds, Len(Delays))
    BY Naturals, <1>2, <1>c, Joined
  <2>. QED BY <2>1 DEF Joins, DelaysEnd
<1>4. Joins(w, cw, 2, ow, Words)
  BY <1>n, <1>i, <1>e, Joined
<1>5. Joins(r, cr, 2, iw, Words)
  BY <1>n, <1>i, <1>f, Joined
<1>. HIDE DEF c2, c3, w, r
<1>6. Joins(t2, t1, Words + 19, w, 2 + Words) /\ Code(t2, 2 * Words + 21)
  <2>1. Code(w, 2 + Words)
    BY <1>4 DEF Joins
  <2>2. Words + 19 \in Nat /\ 2 + Words \in Nat
    BY <1>n
  <2>3. Joins(t2, t1, Words + 19, w, 2 + Words)
    BY <2>1, <2>2, <1>g, Joined
  <2>4. (Words + 19) + (2 + Words) = 2 * Words + 21
    BY <1>n
  <2>. QED BY <2>3, <2>4 DEF Joins
<1>. HIDE DEF t2
<1>7. Joins(t3, t2, 2 * Words + 21, id, 1) /\ Code(t3, 2 * Words + 22)
  <2>1. 2 * Words + 21 \in Nat /\ (2 * Words + 21) + 1 = 2 * Words + 22
    BY <1>n
  <2>2. Joins(t3, t2, 2 * Words + 21, id, 1)
    BY <2>1, <1>6, <1>h, Joined
  <2>. QED BY <2>1, <2>2 DEF Joins
<1>. HIDE DEF t3
<1>8. Joins(t, t3, 2 * Words + 22, r, 2 + Words) /\ Code(t, 3 * Words + 24)
  <2>1. Code(r, 2 + Words)
    BY <1>5 DEF Joins
  <2>2. /\ 2 * Words + 22 \in Nat /\ 2 + Words \in Nat
        /\ (2 * Words + 22) + (2 + Words) = 3 * Words + 24
    BY <1>n
  <2>3. Joins(t, t3, 2 * Words + 22, r, 2 + Words)
    BY <2>1, <2>2, <1>7, Joined
  <2>. QED BY <2>2, <2>3 DEF Joins
<1>. HIDE DEF t
<1>9. Joins(c4, c3, DelaysEnd, t, 3 * Words + 24) /\ Code(c4, DiskEnd)
  <2>1. 3 * Words + 24 \in Nat /\ DelaysEnd + (3 * Words + 24) = DiskEnd
    BY Naturals DEF DiskEnd, ReadAt, WriteAt
  <2>2. Joins(c4, c3, DelaysEnd, t, 3 * Words + 24)
    BY <2>1, Naturals, <1>3, <1>8, Joined
  <2>. QED BY <2>1, <2>2 DEF Joins
<1>. HIDE DEF c4
<1>10. /\ Joins(c5, c4, DiskEnd, as, Len(Sizes))
       /\ Code(c5, DiskEnd + Len(Sizes))
  <2>1. Joins(c5, c4, DiskEnd, as, Len(Sizes))
    BY Naturals, <1>9, <1>d, Joined
  <2>. QED BY <2>1 DEF Joins
<1>. HIDE DEF c5
<1>11. Joins(c, c5, DiskEnd + Len(Sizes), pt, 2) /\ Code(c, CodeEnd)
  <2>1. DiskEnd + Len(Sizes) \in Nat
    BY Naturals
  <2>2. Joins(c, c5, DiskEnd + Len(Sizes), pt, 2)
    BY <2>1, <1>10, <1>j, Joined
  <2>. QED BY <2>2 DEF Joins, CodeEnd
<1>. HIDE DEF c
<1>21. c[CodeEnd - 1] = O("paging", 0) /\ c[CodeEnd] = O("tasks", 0)
  <2>1. /\ 1 \in 1..2 /\ (DiskEnd + Len(Sizes)) + 1 = CodeEnd - 1
        /\ 2 \in 1..2 /\ (DiskEnd + Len(Sizes)) + 2 = CodeEnd
    BY Naturals DEF CodeEnd
  <2>2. \A i \in 1..2 : c[(DiskEnd + Len(Sizes)) + i] = pt[i]
    BY <1>11 DEF Joins
  <2>. QED BY <2>1, <2>2, <1>j
<1>12. \A i \in 1..DiskEnd : c[i] = c4[i]
  BY <1>10, <1>11, Naturals DEF Joins
<1>13. \A i \in 1..DelaysEnd : c[i] = c3[i]
  BY <1>12, <1>9, Naturals DEF DiskEnd, ReadAt, WriteAt, Joins
<1>14. \A i \in 1..3 * Words + 24 : c[DelaysEnd + i] = t[i]
  <2>1. \A i \in 1..3 * Words + 24 : DelaysEnd + i \in 1..DiskEnd
    BY Naturals DEF DiskEnd, ReadAt, WriteAt
  <2>. QED BY <2>1, <1>12, <1>9 DEF Joins
<1>15. /\ \A i \in 1..Len(BootSizes) : c[i] = O("alloc", BootSizes[i])
       /\ c[StiAt] = O("if", TRUE)
       /\ \A i \in 1..Len(Delays) : c[StiAt + i] = O("delay", Delays[i])
  <2>1. \A i \in 1..StiAt : c[i] = c2[i]
    BY <1>13, <1>3, Naturals DEF DelaysEnd, Joins
  <2>2. \A i \in 1..Len(BootSizes) : c[i] = O("alloc", BootSizes[i])
    BY <2>1, <1>2, <1>b, <1>n DEF StiAt, Joins
  <2>4. c[StiAt] = O("if", TRUE)
    <3>1. 1 \in 1..1 /\ Len(BootSizes) + 1 = StiAt /\ StiAt \in 1..StiAt
      BY Naturals DEF StiAt
    <3>2. c2[StiAt] = Sti[1]
      BY <3>1, <1>2 DEF Joins
    <3>. QED BY <3>1, <3>2, <2>1, <1>h
  <2>3. \A i \in 1..Len(Delays) : c[StiAt + i] = c3[StiAt + i]
    BY <1>13, Naturals DEF DelaysEnd
  <2>. QED BY <2>2, <2>3, <2>4, <1>3, <1>c DEF Joins
<1>16. \A i \in DelaysEnd + 1..WriteAt - 1 : c[i].op \in {"cmd", "wait", "if", "skip"}
  <2>. SUFFICES ASSUME NEW i \in DelaysEnd + 1..WriteAt - 1
                PROVE  c[i].op \in {"cmd", "wait", "if", "skip"}
    OBVIOUS
  <2>. DEFINE j == i - DelaysEnd
  <2>1. j \in 1..Words + 19 /\ DelaysEnd + j = i
    BY Naturals DEF WriteAt
  <2>. HIDE DEF j
  <2>2. c[i] = t1[j]
    BY <2>1, <1>14, <1>8, <1>7, <1>6, <1>n DEF Joins
  <2>. QED BY <2>1, <2>2, <1>g
<1>17. /\ c[WriteAt] = O("cmd", "write") /\ c[WriteAt + 1] = O("wait", "DRQ")
       /\ \A i \in 1..Words : c[WriteAt + 1 + i] = O("outw", i)
  <2>1. \A i \in 1..2 + Words : c[WriteAt - 1 + i] = w[i]
    <3>. SUFFICES ASSUME NEW i \in 1..2 + Words
                  PROVE  c[WriteAt - 1 + i] = w[i]
      OBVIOUS
    <3>. DEFINE j == Words + 19 + i
    <3>1. /\ j \in 1..3 * Words + 24 /\ j \in 1..2 * Words + 22
          /\ j \in 1..2 * Words + 21 /\ DelaysEnd + j = WriteAt - 1 + i
      BY Naturals DEF WriteAt
    <3>2. t2[j] = w[i]
      BY <1>6 DEF Joins
    <3>. HIDE DEF j
    <3>. QED BY <3>1, <3>2, <1>14, <1>8, <1>7 DEF Joins
  <2>2. /\ 1 \in 1..2 + Words /\ WriteAt - 1 + 1 = WriteAt
        /\ 2 \in 1..2 + Words /\ WriteAt - 1 + 2 = WriteAt + 1
    BY Naturals
  <2>3. \A i \in 1..Words : /\ 2 + i \in 1..2 + Words
                            /\ WriteAt - 1 + (2 + i) = WriteAt + 1 + i
    BY Naturals
  <2>4. c[WriteAt] = O("cmd", "write") /\ c[WriteAt + 1] = O("wait", "DRQ")
    <3>1. w[1] = cw[1] /\ w[2] = cw[2]
      BY <1>4 DEF Joins
    <3>. QED BY <2>1, <2>2, <3>1, <1>i
  <2>5. \A i \in 1..Words : c[WriteAt + 1 + i] = w[2 + i]
    BY <2>1, <2>3
  <2>. QED BY <2>4, <2>5, <1>4, <1>e DEF Joins
<1>18. c[ReadAt - 1] = O("idle", 0)
  <2>1. /\ 2 * Words + 22 \in 1..3 * Words + 24 /\ 2 * Words + 22 \in 1..2 * Words + 22
        /\ DelaysEnd + (2 * Words + 22) = ReadAt - 1
        /\ 1 \in 1..1 /\ (2 * Words + 21) + 1 = 2 * Words + 22
    BY Naturals DEF WriteAt, ReadAt
  <2>2. t3[2 * Words + 22] = O("idle", 0)
    BY <2>1, <1>7, <1>h DEF Joins
  <2>3. c[ReadAt - 1] = t[2 * Words + 22]
    BY <2>1, <1>14
  <2>. QED BY <2>1, <2>2, <2>3, <1>8 DEF Joins
<1>19. /\ c[ReadAt] = O("cmd", "read") /\ c[ReadAt + 1] = O("wait", "DRQ")
       /\ \A i \in 1..Words : c[ReadAt + 1 + i] = O("inw", i)
  <2>1. \A i \in 1..2 + Words : c[ReadAt - 1 + i] = r[i]
    <3>. SUFFICES ASSUME NEW i \in 1..2 + Words
                  PROVE  c[ReadAt - 1 + i] = r[i]
      OBVIOUS
    <3>. DEFINE j == 2 * Words + 22 + i
    <3>1. j \in 1..3 * Words + 24 /\ DelaysEnd + j = ReadAt - 1 + i
      BY Naturals DEF WriteAt, ReadAt
    <3>2. t[j] = r[i]
      BY <1>8 DEF Joins
    <3>. HIDE DEF j
    <3>. QED BY <3>1, <3>2, <1>14
  <2>2. /\ 1 \in 1..2 + Words /\ ReadAt - 1 + 1 = ReadAt
        /\ 2 \in 1..2 + Words /\ ReadAt - 1 + 2 = ReadAt + 1
    BY Naturals
  <2>3. \A i \in 1..Words : /\ 2 + i \in 1..2 + Words
                            /\ ReadAt - 1 + (2 + i) = ReadAt + 1 + i
    BY Naturals
  <2>4. c[ReadAt] = O("cmd", "read") /\ c[ReadAt + 1] = O("wait", "DRQ")
    <3>1. r[1] = cr[1] /\ r[2] = cr[2]
      BY <1>5 DEF Joins
    <3>. QED BY <2>1, <2>2, <3>1, <1>i
  <2>5. \A i \in 1..Words : c[ReadAt + 1 + i] = r[2 + i]
    BY <2>1, <2>3
  <2>. QED BY <2>4, <2>5, <1>5, <1>f DEF Joins
<1>20. \A i \in 1..Len(Sizes) : c[DiskEnd + i] = O("alloc", Sizes[i])
  <2>1. \A i \in 1..Len(Sizes) : DiskEnd + i \in 1..DiskEnd + Len(Sizes)
    BY Naturals
  <2>. QED BY <2>1, <1>10, <1>11, <1>d DEF Joins
<1>22. c \in Seq(Step) /\ Len(c) = CodeEnd
  BY <1>11 DEF Code
<1>. QED BY <1>0, <1>15, <1>16, <1>17, <1>18, <1>19, <1>20, <1>21, <1>22

-----------------------------------------------------------------------------
(* What is left of the code is always a suffix of it *)

pos == CodeEnd - Len(todo)

Suffix == /\ todo \in Seq(Step) /\ Len(todo) <= CodeEnd
          /\ \A i \in 1..Len(todo) : todo[i] = KmainCode[pos + i]

\* What the p-th instruction can be.
Is(p, op) == KmainCode[p].op = op
Takes(p, a) == KmainCode[p].arg = a
Instruction(p) ==
    \/ Is(p, "alloc") /\ KmainCode[p].arg \in Nat \ {0} /\ (p < StiAt \/ p > DiskEnd)
    \/ Is(p, "if") /\ p = StiAt /\ Takes(p, TRUE)
    \/ Is(p, "delay") /\ p \in StiAt + 1..DelaysEnd /\ KmainCode[p].arg \in Nat
    \/ /\ p \in DelaysEnd + 1..WriteAt - 1
       /\ Is(p, "if") \/ Is(p, "cmd") \/ Is(p, "wait") \/ Is(p, "skip")
    \/ Is(p, "cmd") /\ p = WriteAt /\ Takes(p, "write")
    \/ Is(p, "wait") /\ p = WriteAt + 1
    \/ Is(p, "outw") /\ p \in WriteAt + 2..ReadAt - 2 /\ Takes(p, p - WriteAt - 1)
    \/ Is(p, "idle") /\ p = ReadAt - 1
    \/ Is(p, "cmd") /\ p = ReadAt /\ Takes(p, "read")
    \/ Is(p, "wait") /\ p = ReadAt + 1
    \/ Is(p, "inw") /\ p \in ReadAt + 2..DiskEnd /\ Takes(p, p - ReadAt - 1)
    \/ Is(p, "paging") /\ p = CodeEnd - 1
    \/ Is(p, "tasks") /\ p = CodeEnd

LEMMA Sites ==
    /\ StiAt \in Nat /\ DelaysEnd \in Nat /\ WriteAt \in Nat /\ ReadAt \in Nat
    /\ DiskEnd \in Nat /\ CodeEnd \in Nat
    /\ 0 < StiAt /\ StiAt <= DelaysEnd /\ DelaysEnd < WriteAt - 1
    /\ ReadAt = WriteAt + Words + 3 /\ DiskEnd = ReadAt + Words + 1
    /\ DiskEnd <= CodeEnd - 2
BY Naturals DEF StiAt, DelaysEnd, WriteAt, ReadAt, DiskEnd, CodeEnd

LEMMA Instructions ==
    ASSUME NEW p \in 1..CodeEnd
    PROVE  Instruction(p)
<1>n. /\ Words \in Nat \ {0} /\ Len(BootSizes) \in Nat /\ Len(Delays) \in Nat
      /\ Len(Sizes) \in Nat
  BY Naturals
<1>o. \A n \in Nat : /\ O("alloc", n).op = "alloc" /\ O("alloc", n).arg = n
                     /\ O("delay", n).op = "delay" /\ O("delay", n).arg = n
                     /\ O("outw", n).op = "outw" /\ O("outw", n).arg = n
                     /\ O("inw", n).op = "inw" /\ O("inw", n).arg = n
  BY DEF O
<1>s. /\ \A i \in 1..Len(BootSizes) : BootSizes[i] \in Nat \ {0}
      /\ \A i \in 1..Len(Sizes) : Sizes[i] \in Nat \ {0}
      /\ \A i \in 1..Len(Delays) : Delays[i] \in Nat
  BY KmainAssumption DEF KmainAssumption
<1>1. CASE p < StiAt
  <2>1. p \in 1..Len(BootSizes)
    BY <1>1, <1>n DEF StiAt
  <2>2. KmainCode[p] = O("alloc", BootSizes[p]) /\ BootSizes[p] \in Nat \ {0}
    BY <2>1, <1>s, CodeAt
  <2>4. Is(p, "alloc") /\ KmainCode[p].arg \in Nat \ {0}
    <3>. DEFINE n == BootSizes[p]
    <3>1. n \in Nat \ {0} /\ KmainCode[p] = O("alloc", n)
      BY <2>2
    <3>. HIDE DEF n
    <3>. QED BY <3>1, <1>o DEF Is
  <2>. QED BY <1>1, <2>4 DEF Instruction
<1>2. CASE p = StiAt
  <2>1. KmainCode[StiAt] = O("if", TRUE)
    BY CodeAt
  <2>2. O("if", TRUE).op = "if" /\ O("if", TRUE).arg = TRUE
    BY DEF O
  <2>3. Is(StiAt, "if") /\ Takes(StiAt, TRUE)
    BY <2>1, <2>2 DEF Is, Takes
  <2>. QED BY <1>2, <2>3 DEF Instruction
<1>3. CASE p \in StiAt + 1..DelaysEnd
  <2>1. p - StiAt \in 1..Len(Delays) /\ StiAt + (p - StiAt) = p
    BY <1>3, <1>n, Sites DEF DelaysEnd
  <2>2. /\ KmainCode[p] = O("delay", Delays[p - StiAt])
        /\ Delays[p - StiAt] \in Nat
    BY <2>1, <1>s, CodeAt
  <2>4. Is(p, "delay") /\ KmainCode[p].arg \in Nat
    <3>. DEFINE n == Delays[p - StiAt]
    <3>1. n \in Nat /\ KmainCode[p] = O("delay", n)
      BY <2>2
    <3>. HIDE DEF n
    <3>. QED BY <3>1, <1>o DEF Is
  <2>. QED BY <1>3, <2>4 DEF Instruction
<1>4. CASE p \in DelaysEnd + 1..WriteAt - 1
  <2>1. KmainCode[p].op \in {"cmd", "wait", "if", "skip"}
    BY <1>4, CodeAt
  <2>. QED BY <1>4, <2>1 DEF Instruction, Is
<1>5. CASE p \in {WriteAt, WriteAt + 1, ReadAt - 1, ReadAt, ReadAt + 1}
  <2>1. /\ KmainCode[WriteAt] = O("cmd", "write")
        /\ KmainCode[WriteAt + 1] = O("wait", "DRQ")
        /\ KmainCode[ReadAt - 1] = O("idle", 0)
        /\ KmainCode[ReadAt] = O("cmd", "read")
        /\ KmainCode[ReadAt + 1] = O("wait", "DRQ")
    BY CodeAt
  <2>2. /\ O("cmd", "write").op = "cmd" /\ O("cmd", "write").arg = "write"
        /\ O("cmd", "read").op = "cmd" /\ O("cmd", "read").arg = "read"
        /\ O("wait", "DRQ").op = "wait" /\ O("idle", 0).op = "idle"
    BY DEF O
  <2>3. /\ Is(WriteAt, "cmd") /\ Takes(WriteAt, "write")
        /\ Is(WriteAt + 1, "wait") /\ Is(ReadAt - 1, "idle")
        /\ Is(ReadAt, "cmd") /\ Takes(ReadAt, "read") /\ Is(ReadAt + 1, "wait")
    BY <2>1, <2>2 DEF Is, Takes
  <2>. QED BY <1>5, <2>3 DEF Instruction
<1>6. CASE p \in WriteAt + 2..ReadAt - 2
  <2>1. p - WriteAt - 1 \in 1..Words /\ WriteAt + 1 + (p - WriteAt - 1) = p
    BY <1>6, <1>n, Sites
  <2>2. KmainCode[p] = O("outw", p - WriteAt - 1)
    BY <2>1, CodeAt
  <2>. QED BY <1>6, <2>1, <2>2, <1>o DEF Instruction, Is, Takes
<1>7. CASE p \in ReadAt + 2..DiskEnd
  <2>1. p - ReadAt - 1 \in 1..Words /\ ReadAt + 1 + (p - ReadAt - 1) = p
    BY <1>7, <1>n, Sites
  <2>2. KmainCode[p] = O("inw", p - ReadAt - 1)
    BY <2>1, CodeAt
  <2>. QED BY <1>7, <2>1, <2>2, <1>o DEF Instruction, Is, Takes
<1>8. CASE p \in DiskEnd + 1..CodeEnd - 2
  <2>1. p - DiskEnd \in 1..Len(Sizes) /\ DiskEnd + (p - DiskEnd) = p
    BY <1>8, <1>n, Sites DEF CodeEnd
  <2>2. /\ KmainCode[p] = O("alloc", Sizes[p - DiskEnd])
        /\ Sizes[p - DiskEnd] \in Nat \ {0}
    BY <2>1, <1>s, CodeAt
  <2>3. p > DiskEnd
    BY <1>8, Sites
  <2>4. Is(p, "alloc") /\ KmainCode[p].arg \in Nat \ {0}
    <3>. DEFINE n == Sizes[p - DiskEnd]
    <3>1. n \in Nat \ {0} /\ KmainCode[p] = O("alloc", n)
      BY <2>2
    <3>. HIDE DEF n
    <3>. QED BY <3>1, <1>o DEF Is
  <2>. QED BY <2>4, <2>3 DEF Instruction
<1>9. CASE p \in {CodeEnd - 1, CodeEnd}
  <2>1. /\ KmainCode[CodeEnd - 1] = O("paging", 0)
        /\ KmainCode[CodeEnd] = O("tasks", 0)
    BY CodeAt
  <2>2. O("paging", 0).op = "paging" /\ O("tasks", 0).op = "tasks"
    BY DEF O
  <2>3. Is(CodeEnd - 1, "paging") /\ Is(CodeEnd, "tasks")
    BY <2>1, <2>2 DEF Is
  <2>. QED BY <1>9, <2>3 DEF Instruction
<1>10. \/ p < StiAt \/ p = StiAt \/ p \in StiAt + 1..DelaysEnd
       \/ p \in DelaysEnd + 1..WriteAt - 1
       \/ p \in {WriteAt, WriteAt + 1, ReadAt - 1, ReadAt, ReadAt + 1}
       \/ p \in WriteAt + 2..ReadAt - 2 \/ p \in ReadAt + 2..DiskEnd
       \/ p \in DiskEnd + 1..CodeEnd - 2 \/ p \in {CodeEnd - 1, CodeEnd}
  BY <1>n, Sites
<1>. QED BY <1>1, <1>2, <1>3, <1>4, <1>5, <1>6, <1>7, <1>8, <1>9, <1>10

LEMMA Only ==
    ASSUME NEW p, Instruction(p)
    PROVE  /\ Is(p, "alloc") => /\ KmainCode[p].arg \in Nat \ {0}
                                /\ p < StiAt \/ p > DiskEnd
           /\ Is(p, "if") => \/ p = StiAt /\ Takes(p, TRUE)
                             \/ p \in DelaysEnd + 1..WriteAt - 1
           /\ Is(p, "delay") => /\ p \in StiAt + 1..DelaysEnd
                                /\ KmainCode[p].arg \in Nat
           /\ Is(p, "skip") => p \in DelaysEnd + 1..WriteAt - 1
           /\ Is(p, "cmd") => \/ p \in DelaysEnd + 1..WriteAt - 1
                              \/ p = WriteAt /\ Takes(p, "write")
                              \/ p = ReadAt /\ Takes(p, "read")
           /\ Is(p, "wait") => \/ p \in DelaysEnd + 1..WriteAt - 1
                               \/ p \in {WriteAt + 1, ReadAt + 1}
           /\ Is(p, "outw") => /\ p \in WriteAt + 2..ReadAt - 2
                               /\ Takes(p, p - WriteAt - 1)
           /\ Is(p, "idle") => p = ReadAt - 1
           /\ Is(p, "inw") => /\ p \in ReadAt + 2..DiskEnd
                              /\ Takes(p, p - ReadAt - 1)
           /\ Is(p, "paging") => p = CodeEnd - 1
           /\ Is(p, "tasks") => p = CodeEnd
BY DEF Instruction, Is

LEMMA Positions ==
    ASSUME Suffix
    PROVE  /\ pos \in 0..CodeEnd
           /\ todo = <<>> <=> pos = CodeEnd
           /\ todo # <<>> => /\ pos + 1 \in 1..CodeEnd
                             /\ Head(todo) = KmainCode[pos + 1]
<1>1. todo \in Seq(Step) /\ Len(todo) \in Nat /\ CodeEnd \in Nat
  BY Sites DEF Suffix
<1>2. pos \in 0..CodeEnd
  BY <1>1 DEF Suffix, pos
<1>3. todo = <<>> <=> Len(todo) = 0
  BY <1>1, EmptySeq
<1>4. ASSUME todo # <<>>
      PROVE  pos + 1 \in 1..CodeEnd /\ Head(todo) = KmainCode[pos + 1]
  <2>1. 1 \in 1..Len(todo) /\ Head(todo) = todo[1]
    BY <1>1, <1>3, <1>4
  <2>. QED BY <1>1, <2>1 DEF Suffix, pos
<1>. QED BY <1>1, <1>2, <1>3, <1>4 DEF pos

LEMMA Advance ==
    ASSUME Suffix, todo # <<>>, todo' = Tail(todo)
    PROVE  Suffix' /\ pos' = pos + 1
<1>1. todo \in Seq(Step) /\ Len(todo) \in Nat /\ CodeEnd \in Nat /\ Len(todo) > 0
  BY Sites, EmptySeq DEF Suffix
<1>2. /\ todo' \in Seq(Step) /\ Len(todo') = Len(todo) - 1
      /\ \A i \in 1..Len(todo) - 1 : todo'[i] = todo[i + 1]
  BY <1>1, HeadTailProperties
<1>3. pos' = pos + 1 /\ pos \in Int
  BY <1>1, <1>2 DEF pos, CodeEnd, DiskEnd, ReadAt, WriteAt, DelaysEnd, StiAt
<1>4. KmainCode' = KmainCode /\ CodeEnd' = CodeEnd
  BY DEF KmainCode, CodeEnd, DiskEnd, ReadAt, WriteAt, DelaysEnd, StiAt, Sequence,
     Sti, test_harddisk, ata_soft_reset, identify, ata_present, ata_pio_write_w,
     ata_pio_read_w, Cli, Each, O
<1>5. ASSUME NEW i \in 1..Len(todo) - 1
      PROVE  todo'[i] = KmainCode[pos' + i]
  <2>1. i + 1 \in 1..Len(todo) /\ pos + (i + 1) = pos' + i
    BY <1>1, <1>3
  <2>2. todo[i + 1] = KmainCode[pos + (i + 1)]
    BY <2>1 DEF Suffix
  <2>. QED BY <1>2, <2>1, <2>2
<1>. QED BY <1>1, <1>2, <1>3, <1>4, <1>5 DEF Suffix

LEMMA Stay ==
    ASSUME Suffix, todo' = todo
    PROVE  Suffix' /\ pos' = pos
<1>1. KmainCode' = KmainCode /\ CodeEnd' = CodeEnd
  BY DEF KmainCode, CodeEnd, DiskEnd, ReadAt, WriteAt, DelaysEnd, StiAt, Sequence,
     Sti, test_harddisk, ata_soft_reset, identify, ata_present, ata_pio_write_w,
     ata_pio_read_w, Cli, Each, O
<1>. QED BY <1>1 DEF Suffix, pos

LEMMA SuffixInit == KmainInit => Suffix /\ pos = 0
<1>. SUFFICES ASSUME KmainInit PROVE Suffix /\ pos = 0
  OBVIOUS
<1>1. todo \in Seq(Step) /\ Len(todo) = CodeEnd /\ todo = KmainCode
  BY CodeAt DEF KmainInit
<1>2. pos = 0
  BY <1>1, Sites DEF pos
<1>3. \A i \in 1..CodeEnd : pos + i = i
  BY <1>2, Sites
<1>. QED BY <1>1, <1>2, <1>3, Sites DEF Suffix

\* The instruction at hand, when op is about to be executed.
LEMMA AtHand ==
    ASSUME Suffix, NEW op, At(op)
    PROVE  /\ todo # <<>> /\ pos \in 0..CodeEnd - 1 /\ ~Delaying /\ Runs
           /\ Is(pos + 1, op) /\ arg = KmainCode[pos + 1].arg
           /\ Instruction(pos + 1)
<1>1. /\ todo # <<>> /\ pos + 1 \in 1..CodeEnd /\ Head(todo) = KmainCode[pos + 1]
      /\ ~Delaying /\ Runs /\ Head(todo).op = op /\ pos \in 0..CodeEnd
  BY Positions DEF At
<1>. QED BY <1>1, Instructions, Sites DEF Is, arg

LEMMA SuffixNext == Suffix /\ [Next]_vars => Suffix' /\ (pos' = pos \/ pos' = pos + 1)
<1>. SUFFICES ASSUME Suffix, [Next]_vars
              PROVE  Suffix' /\ (pos' = pos \/ pos' = pos + 1)
  OBVIOUS
<1>1. CASE todo' = todo
  BY <1>1, Stay
<1>2. CASE todo # <<>> /\ todo' = Tail(todo)
  BY <1>2, Advance
<1>3. todo' = todo \/ (todo # <<>> /\ todo' = Tail(todo))
  <2>1. CASE UNCHANGED vars
    BY <2>1 DEF vars
  <2>2. CASE kmain
    BY <2>2 DEF kmain, Flag, BeginDelay, PollDelay, DiskCommand, DiskWait, DiskData,
                DiskIdle, Allocate, EnablePaging, InitTasking, At, Done
  <2>3. CASE TaskWorks \/ Preempt \/ Ticks \/ DriveWorks
    BY <2>3 DEF TaskWorks, Preempt, Ticks, DriveWorks, InLoop, PeriodPasses
  <2>. QED BY <2>1, <2>2, <2>3 DEF Next
<1>. QED BY <1>1, <1>2, <1>3

-----------------------------------------------------------------------------
(* The heap *)

\* The bytes of a block's marks: its size as often as it has bytes, 0 behind.
Marked(p, marks) == \A k \in 0..(4 * p.size - 1) :
                        marks[4 * p.at + k] = IF k < p.size THEN p.size % 256 ELSE 0

HeapInv ==
    /\ free \in Nat /\ free <= MAX_BLOCKS
    /\ blocks_used \in [MarkBytes -> 0..255]
    /\ \A m \in MarkBytes : m >= 4 * free => blocks_used[m] = 0
    /\ allocated \subseteq [at : Nat, size : Nat \ {0}]
    /\ \A p \in allocated : p.at + p.size <= free /\ Marked(p, blocks_used)
    /\ \A p, q \in allocated : p # q => \/ p.at + p.size <= q.at
                                        \/ q.at + q.size <= p.at

LEMMA HeapInitInv == HeapInit => HeapInv
BY HeapAssumption DEF HeapInit, HeapInv, MarkBytes, HeapAssumption

LEMMA HeapKept ==
    ASSUME HeapInv, NEW n \in Nat \ {0}, kmalloc_b(n)
    PROVE  HeapInv'
<1>a. MAX_BLOCKS \in Nat \ {0}
  BY HeapAssumption DEF HeapAssumption
<1>1. CASE ~Fits(n)
  BY <1>1 DEF kmalloc_b, heapvars, HeapInv, MarkBytes
<1>2. CASE Fits(n)
  <2>. DEFINE b == [at |-> free, size |-> n]
  <2>1. /\ free + n <= MAX_BLOCKS /\ free' = free + n /\ free \in Nat
        /\ blocks_used' = kmemset(blocks_used, 4 * free, n, n)
        /\ allocated' = allocated \cup {b}
    BY <1>2 DEF kmalloc_b, Fits, HeapInv
  <2>2. free' \in Nat /\ free' <= MAX_BLOCKS /\ free < free'
    BY <2>1, <1>a DEF HeapInv
  <2>3. n % 256 \in 0..255
    OBVIOUS
  <2>4. \A m \in MarkBytes : blocks_used'[m] = IF m \in 4 * free..4 * free + n - 1
                                               THEN n % 256 ELSE blocks_used[m]
    BY <2>1 DEF kmemset, HeapInv
  <2>5. blocks_used' \in [MarkBytes -> 0..255]
    BY <2>1, <2>3 DEF kmemset, HeapInv
  <2>6. b \in [at : Nat, size : Nat \ {0}] /\ b.at = free /\ b.size = n
    BY DEF HeapInv
  <2>7. ASSUME NEW p \in allocated
        PROVE  p.at + p.size <= free /\ Marked(p, blocks_used')
    <3>1. /\ p.at \in Nat /\ p.size \in Nat \ {0} /\ p.at + p.size <= free
          /\ Marked(p, blocks_used)
      BY DEF HeapInv
    <3>2. ASSUME NEW k \in 0..(4 * p.size - 1)
          PROVE  /\ 4 * p.at + k \in 0..4 * MAX_BLOCKS - 1
                 /\ ~(4 * p.at + k \in 4 * free..4 * free + n - 1)
      BY <3>1, <2>1, <1>a
    <3>3. \A k \in 0..(4 * p.size - 1) : blocks_used'[4 * p.at + k]
                                         = blocks_used[4 * p.at + k]
      BY <2>4, <3>2 DEF MarkBytes
    <3>. QED BY <3>1, <3>3 DEF Marked
  <2>8. Marked(b, blocks_used')
    <3>. SUFFICES ASSUME NEW k \in 0..(4 * n - 1)
                  PROVE  blocks_used'[4 * free + k] = IF k < n THEN n % 256 ELSE 0
      BY <2>6 DEF Marked
    <3>. DEFINE m == 4 * free + k
    <3>1. m \in 0..4 * MAX_BLOCKS - 1 /\ m >= 4 * free
          /\ (m \in 4 * free..4 * free + n - 1 <=> k < n)
      BY <2>1, <1>a
    <3>2. m \in MarkBytes /\ blocks_used[m] = 0
      BY <3>1 DEF HeapInv, MarkBytes
    <3>. HIDE DEF m
    <3>3. blocks_used'[m] = IF k < n THEN n % 256 ELSE 0
      BY <2>4, <3>1, <3>2
    <3>. QED BY <3>3 DEF m
  <2>. HIDE DEF b
  <2>9. \A p \in allocated' : p.at + p.size <= free' /\ Marked(p, blocks_used')
    <3>. SUFFICES ASSUME NEW p \in allocated'
                  PROVE  p.at + p.size <= free' /\ Marked(p, blocks_used')
      OBVIOUS
    <3>1. CASE p = b
      BY <3>1, <2>1, <2>6, <2>8
    <3>2. CASE p \in allocated
      <4>1. p.at \in Nat /\ p.size \in Nat
        BY <3>2 DEF HeapInv
      <4>. QED BY <4>1, <3>2, <2>2, <2>7 DEF HeapInv
    <3>. QED BY <3>1, <3>2, <2>1
  <2>10. \A p, q \in allocated' : p # q => \/ p.at + p.size <= q.at
                                           \/ q.at + q.size <= p.at
    <3>1. \A p \in allocated : p.at + p.size <= b.at
      BY <2>6, <2>7
    <3>. QED BY <3>1, <2>1 DEF HeapInv
  <2>11. allocated' \subseteq [at : Nat, size : Nat \ {0}]
    BY <2>1, <2>6 DEF HeapInv
  <2>12. MarkBytes' = MarkBytes
    BY DEF MarkBytes
  <2>13. \A m \in MarkBytes : m >= 4 * free' => blocks_used'[m] = 0
    <3>. SUFFICES ASSUME NEW m \in MarkBytes, m >= 4 * free' PROVE blocks_used'[m] = 0
      OBVIOUS
    <3>1. m \in Nat /\ m >= 4 * free /\ ~(m \in 4 * free..4 * free + n - 1)
      BY <2>1, <1>a DEF MarkBytes
    <3>. QED BY <2>4, <3>1 DEF HeapInv
  <2>14. \A p \in allocated' : Marked(p, blocks_used)' <=> Marked(p, blocks_used')
    BY DEF Marked
  <2>. QED BY <2>2, <2>5, <2>9, <2>10, <2>11, <2>12, <2>13, <2>14 DEF HeapInv
<1>. QED BY <1>1, <1>2

\* A mark read as a word is made of the four bytes of its block.
LEMMA MarksAre ==
    ASSUME HeapInv, NEW p \in allocated, NEW i \in 0..(p.size - 1)
    PROVE  Mark(p.at + i) = Filled(p.size, i)
<1>. DEFINE n == p.size
            c == n % 256
            B(k) == IF 4 * i + k < n THEN c ELSE 0
<1>1. n \in Nat \ {0} /\ p.at \in Nat /\ c \in 0..255 /\ i \in Nat /\ i < n
  BY DEF HeapInv
<1>2. ASSUME NEW k \in 0..3
      PROVE  blocks_used[4 * (p.at + i) + k] = B(k)
  <2>1. /\ 4 * i + k \in 0..(4 * n - 1)
        /\ 4 * (p.at + i) + k = 4 * p.at + (4 * i + k)
    BY <1>1
  <2>2. blocks_used[4 * p.at + (4 * i + k)] = B(k)
    BY <2>1 DEF HeapInv, Marked
  <2>. QED BY <2>1, <2>2
<1>3. 4 * (p.at + i) + 0 = 4 * (p.at + i)
  BY <1>1
<1>. HIDE DEF B
<1>4. Mark(p.at + i) = B(0) + 256 * B(1) + 65536 * B(2) + 16777216 * B(3)
  BY <1>2, <1>3 DEF Mark
<1>. USE DEF B
<1>. HIDE DEF n, c
<1>5. CASE n <= 4 * i
  BY <1>1, <1>4, <1>5 DEF Filled, n, c
<1>6. CASE n - 4 * i = 1
  BY <1>1, <1>4, <1>6 DEF Filled, n, c
<1>7. CASE n - 4 * i = 2
  BY <1>1, <1>4, <1>7 DEF Filled, n, c
<1>8. CASE n - 4 * i = 3
  BY <1>1, <1>4, <1>8 DEF Filled, n, c
<1>9. CASE n - 4 * i >= 4
  BY <1>1, <1>4, <1>9 DEF Filled, n, c
<1>. QED BY <1>1, <1>5, <1>6, <1>7, <1>8, <1>9

LEMMA HeapNext ==
    ASSUME Suffix, HeapInv, [Next]_vars
    PROVE  HeapInv'
<1>1. CASE Allocate
  <2>1. arg \in Nat \ {0}
    <3>1. At("alloc")
      BY <1>1 DEF Allocate
    <3>2. Is(pos + 1, "alloc") /\ Instruction(pos + 1) /\ arg = KmainCode[pos + 1].arg
      BY <3>1, AtHand
    <3>. QED BY <3>2, Only
  <2>. QED BY <1>1, <2>1, HeapKept DEF Allocate
<1>2. CASE UNCHANGED heapvars
  BY <1>2 DEF heapvars, HeapInv, MarkBytes, Marked
<1>3. Allocate \/ UNCHANGED heapvars
  <2>1. CASE UNCHANGED vars
    BY <2>1 DEF vars
  <2>2. CASE kmain
    BY <2>2 DEF kmain, Flag, BeginDelay, PollDelay, DiskCommand, DiskWait, DiskData,
                DiskIdle, EnablePaging, InitTasking, OnlyTimer, OnlyAta
  <2>3. CASE TaskWorks \/ Preempt \/ Ticks \/ DriveWorks
    BY <2>3 DEF TaskWorks, Preempt, Ticks, DriveWorks, InLoop, PeriodPasses,
                OnlyTimer
  <2>. QED BY <2>1, <2>2, <2>3 DEF Next
<1>. QED BY <1>1, <1>2, <1>3

-----------------------------------------------------------------------------
(* Paging *)

PagingInv ==
    paging => /\ firstPageTable = [i \in Indices |-> [present |-> TRUE, to |-> i]]
              /\ pageDirectory \in [Indices -> [present : BOOLEAN, to : Nat]]
              /\ pageDirectory[0].present

LEMMA PagingKept == init_page_directory => PagingInv'
<1>. SUFFICES ASSUME init_page_directory PROVE PagingInv'
  OBVIOUS
<1>1. 0 \in Indices
  BY PagingAssumption DEF PagingAssumption, Indices
<1>2. Indices' = Indices
  BY DEF Indices
<1>3. /\ firstPageTable' = [i \in Indices |-> [present |-> TRUE, to |-> i]]
      /\ pageDirectory' = [Zeroed EXCEPT ![0] = [present |-> TRUE, to |-> 0]]
  BY DEF init_page_directory, Frame
<1>4. Zeroed \in [Indices -> [present : BOOLEAN, to : Nat]]
  BY DEF Zeroed, Absent
<1>. QED BY <1>1, <1>2, <1>3, <1>4 DEF PagingInv

LEMMA PagingNext ==
    ASSUME PagingInv, [Next]_vars
    PROVE  PagingInv'
<1>1. CASE init_page_directory
  BY <1>1, PagingKept
<1>2. CASE UNCHANGED pagingvars
  BY <1>2 DEF pagingvars, PagingInv, Indices
<1>3. init_page_directory \/ UNCHANGED pagingvars
  <2>1. CASE UNCHANGED vars
    BY <2>1 DEF vars
  <2>2. CASE kmain
    BY <2>2 DEF kmain, Flag, BeginDelay, PollDelay, DiskCommand, DiskWait, DiskData,
                DiskIdle, Allocate, EnablePaging, InitTasking, OnlyTimer, OnlyAta
  <2>3. CASE TaskWorks \/ Preempt \/ Ticks \/ DriveWorks
    BY <2>3 DEF TaskWorks, Preempt, Ticks, DriveWorks, InLoop, PeriodPasses,
                OnlyTimer
  <2>. QED BY <2>1, <2>2, <2>3 DEF Next
<1>. QED BY <1>1, <1>2, <1>3

LEMMA InPlace == PagingInv => PagesInPlace
<1>. SUFFICES ASSUME PagingInv, paging, NEW p \in UsedPages
              PROVE  Translate(p) = p /\ get_physaddr(p) = p
  BY DEF PagesInPlace
<1>1. Entries \in Nat \ {0} /\ p \in 0..Entries - 1
  BY PagingAssumption, KmainAssumption DEF PagingAssumption, KmainAssumption, Indices
<1>2. p \div Entries = 0 /\ p % Entries = p
  BY <1>1
<1>3. /\ firstPageTable[p] = [present |-> TRUE, to |-> p]
      /\ pageDirectory[0].present
  BY <1>1 DEF PagingInv, Indices
<1>. QED BY <1>2, <1>3 DEF Translate, get_physaddr, pdindex, ptindex

-----------------------------------------------------------------------------
(* The delays.  While one runs with its end inside the counter, the counter *)
(* has what was asked for less what is still to come; a request that waits  *)
(* has been counted in since, and not in timer_ticks.  The loop looks       *)
(* between two periods, so the delay is over before since exceeds wanted.   *)

DelayInv ==
    /\ timer_ticks \in 0..U32 - 1
    /\ eticks \in {NoDelay} \cup 0..U32 - 1
    /\ since \in Nat /\ wanted \in Nat /\ overrun = 0
    /\ pending \in BOOLEAN /\ polled \in BOOLEAN
    /\ pos \in StiAt..DelaysEnd => iflag = TRUE
    /\ Delaying => pos \in StiAt + 1..DelaysEnd
    /\ (Delaying /\ wanted > 0) =>
          /\ timer_ticks + (IF pending THEN 1 ELSE 0) = eticks - wanted + since
          /\ since <= wanted
          /\ (polled /\ ~pending) => since < wanted

LEMMA DelayInitInv == KmainInit => DelayInv
<1>. SUFFICES ASSUME KmainInit PROVE DelayInv
  OBVIOUS
<1>1. U32 \in Nat \ {0}
  BY TimerAssumption DEF TimerAssumption
<1>2. pos = 0 /\ pos \notin StiAt..DelaysEnd
  BY SuffixInit, Sites
<1>3. /\ timer_ticks = 0 /\ eticks = NoDelay /\ since = 0 /\ wanted = 0
      /\ overrun = 0 /\ pending = FALSE /\ polled = TRUE
  BY DEF KmainInit, TimerInit
<1>4. ~Delaying /\ pending \in BOOLEAN /\ polled \in BOOLEAN
  BY <1>3 DEF Delaying
<1>5. timer_ticks \in 0..U32 - 1 /\ since \in Nat /\ wanted \in Nat
  BY <1>1, <1>3
<1>. QED BY <1>2, <1>3, <1>4, <1>5 DEF DelayInv

LEMMA Ticks32 == \A ms \in Nat : ticks_from_ms(ms) \in Nat
<1>. SUFFICES ASSUME NEW ms \in Nat PROVE ticks_from_ms(ms) \in Nat
  OBVIOUS
<1>1. U32 \in Nat \ {0} /\ Hz \in Nat \ {0} /\ Second \in Nat \ {0}
  BY TimerAssumption DEF TimerAssumption
<1>2. ms * Hz \in Nat
  BY <1>1
<1>3. \A x \in Nat : x % U32 \in Nat
  BY <1>1
<1>4. \A x \in Nat : x \div Second \in Nat
  BY <1>1
<1>. QED BY <1>2, <1>3, <1>4 DEF ticks_from_ms

LEMMA Elsewhere ==
    ASSUME Suffix, NEW op \in {"alloc", "cmd", "wait", "skip", "outw", "inw", "idle",
                               "paging", "tasks"},
           At(op)
    PROVE  ~Delaying /\ todo # <<>> /\ pos + 1 \notin StiAt..DelaysEnd
<1>. DEFINE p == pos + 1
<1>1. /\ ~Delaying /\ todo # <<>> /\ p \in 1..CodeEnd /\ Is(p, op)
      /\ Instruction(p)
  BY AtHand, Sites
<1>. HIDE DEF p
<1>2. \/ Is(p, "alloc") \/ Is(p, "cmd") \/ Is(p, "wait") \/ Is(p, "skip")
      \/ Is(p, "outw") \/ Is(p, "inw") \/ Is(p, "idle") \/ Is(p, "paging")
      \/ Is(p, "tasks")
  BY <1>1
<1>3. \/ p < StiAt \/ p > DiskEnd \/ p \in DelaysEnd + 1..WriteAt - 1
      \/ p = WriteAt \/ p = ReadAt \/ p \in {WriteAt + 1, ReadAt + 1}
      \/ p \in WriteAt + 2..ReadAt - 2 \/ p = ReadAt - 1
      \/ p \in ReadAt + 2..DiskEnd \/ p = CodeEnd - 1 \/ p = CodeEnd
  BY <1>1, <1>2, Only
<1>4. p \notin StiAt..DelaysEnd
  BY <1>1, <1>3, Sites, Naturals
<1>. QED BY <1>1, <1>4 DEF p

\* What a step does to the timer, and where in kmain.
LEMMA TimerSteps ==
    ASSUME Suffix, [Next]_vars
    PROVE  \/ UNCHANGED timervars /\ pos' = pos
           \/ /\ UNCHANGED timervars /\ ~Delaying /\ pos' = pos + 1
              /\ pos' \notin StiAt..DelaysEnd
           \/ /\ ~Delaying /\ pos' = pos + 1
              /\ \/ pos' = StiAt /\ SetIf(TRUE)
                 \/ pos' > DelaysEnd /\ \E b : SetIf(b)
           \/ /\ pos' = pos + 1 /\ pos' \in StiAt + 1..DelaysEnd /\ Runs
              /\ \E ms \in Nat : DelayBegin(ms)
           \/ pos' = pos /\ Runs /\ DelayPoll
           \/ pos' = pos /\ (Period \/ timer_handler)
<1>a. ASSUME todo # <<>>, todo' = Tail(todo)
      PROVE  pos' = pos + 1
  BY <1>a, Advance
<1>b. ASSUME todo' = todo
      PROVE  pos' = pos
  BY <1>b, Stay
<1>1. CASE UNCHANGED vars
  BY <1>1, <1>b DEF vars
<1>2. CASE Flag
  <2>1. At("if") /\ SetIf(arg) /\ todo' = Tail(todo)
    BY <1>2 DEF Flag, Done
  <2>2. /\ ~Delaying /\ pos' = pos + 1 /\ arg = KmainCode[pos + 1].arg
        /\ \/ pos + 1 = StiAt /\ Takes(pos + 1, TRUE)
           \/ pos + 1 \in DelaysEnd + 1..WriteAt - 1
    BY <2>1, AtHand, Only, <1>a
  <2>3. CASE pos + 1 = StiAt /\ Takes(pos + 1, TRUE)
    <3>1. arg = TRUE
      BY <2>2, <2>3 DEF Takes
    <3>2. SetIf(TRUE)
      BY <2>1, <3>1
    <3>. QED BY <2>2, <2>3, <3>2
  <2>4. CASE pos + 1 \in DelaysEnd + 1..WriteAt - 1
    <3>1. pos' > DelaysEnd
      BY <2>2, <2>4, Sites
    <3>. QED BY <2>1, <2>2, <3>1
  <2>. QED BY <2>2, <2>3, <2>4
<1>3. CASE BeginDelay
  <2>1. At("delay") /\ DelayBegin(arg) /\ todo' = Tail(todo)
    BY <1>3 DEF BeginDelay, Done
  <2>2. /\ Runs /\ pos' = pos + 1 /\ pos + 1 \in StiAt + 1..DelaysEnd
        /\ arg \in Nat
    BY <2>1, AtHand, Only, <1>a
  <2>. QED BY <2>1, <2>2
<1>4. CASE PollDelay
  BY <1>4, <1>b DEF PollDelay
<1>5. CASE DiskCommand
  <2>1. At("cmd") /\ UNCHANGED timervars /\ todo' = Tail(todo)
    BY <1>5 DEF DiskCommand, OnlyAta, Done
  <2>2. ~Delaying /\ pos' = pos + 1 /\ pos + 1 \notin StiAt..DelaysEnd
    BY <2>1, Elsewhere, <1>a
  <2>. QED BY <2>1, <2>2
<1>6. CASE DiskWait
  <2>1. At("wait") /\ UNCHANGED timervars /\ (todo' = Tail(todo) \/ todo' = todo)
    BY <1>6 DEF DiskWait, OnlyAta
  <2>2. ~Delaying /\ todo # <<>> /\ pos + 1 \notin StiAt..DelaysEnd
    BY <2>1, Elsewhere
  <2>. QED BY <2>1, <2>2, <1>a, <1>b
<1>7. CASE DiskData
  <2>1. /\ At("skip") \/ At("outw") \/ At("inw")
        /\ UNCHANGED timervars /\ todo' = Tail(todo)
    BY <1>7 DEF DiskData, OnlyAta, Done
  <2>2. ~Delaying /\ pos' = pos + 1 /\ pos + 1 \notin StiAt..DelaysEnd
    BY <2>1, Elsewhere, <1>a
  <2>. QED BY <2>1, <2>2
<1>8. CASE DiskIdle
  <2>1. At("idle") /\ UNCHANGED timervars /\ todo' = Tail(todo)
    BY <1>8 DEF DiskIdle, OnlyAta, Done
  <2>2. ~Delaying /\ pos' = pos + 1 /\ pos + 1 \notin StiAt..DelaysEnd
    BY <2>1, Elsewhere, <1>a
  <2>. QED BY <2>1, <2>2
<1>9. CASE Allocate
  <2>1. At("alloc") /\ UNCHANGED timervars /\ todo' = Tail(todo)
    BY <1>9 DEF Allocate, Done
  <2>2. ~Delaying /\ pos' = pos + 1 /\ pos + 1 \notin StiAt..DelaysEnd
    BY <2>1, Elsewhere, <1>a
  <2>. QED BY <2>1, <2>2
<1>10. CASE EnablePaging
  <2>1. At("paging") /\ UNCHANGED timervars /\ todo' = Tail(todo)
    BY <1>10 DEF EnablePaging, Done
  <2>2. ~Delaying /\ pos' = pos + 1 /\ pos + 1 \notin StiAt..DelaysEnd
    BY <2>1, Elsewhere, <1>a
  <2>. QED BY <2>1, <2>2
<1>11. CASE InitTasking
  <2>1. At("tasks") /\ UNCHANGED timervars /\ todo' = Tail(todo)
    BY <1>11 DEF InitTasking, Done
  <2>2. ~Delaying /\ pos' = pos + 1 /\ pos + 1 \notin StiAt..DelaysEnd
    BY <2>1, Elsewhere, <1>a
  <2>. QED BY <2>1, <2>2
<1>12. CASE TaskWorks \/ Preempt \/ DriveWorks
  BY <1>12, <1>b DEF TaskWorks, Preempt, DriveWorks, InLoop
<1>13. CASE Ticks
  BY <1>13, <1>b DEF Ticks, PeriodPasses
<1>. QED
  BY <1>1, <1>2, <1>3, <1>4, <1>5, <1>6, <1>7, <1>8, <1>9, <1>10, <1>11, <1>12, <1>13
     DEF Next, kmain

LEMMA DelayNext ==
    ASSUME Suffix, DelayInv, [Next]_vars
    PROVE  DelayInv'
<1>u. U32 \in Nat \ {0} /\ U32' = U32
  BY TimerAssumption DEF TimerAssumption
<1>p. /\ StiAt \in Nat /\ DelaysEnd \in Nat /\ StiAt <= DelaysEnd /\ pos \in Nat
      /\ StiAt' = StiAt /\ DelaysEnd' = DelaysEnd /\ NoDelay = -1
  BY Sites, Positions DEF NoDelay, StiAt, DelaysEnd
<1>1. CASE UNCHANGED timervars /\ pos' = pos
  BY <1>1, <1>p DEF timervars, DelayInv, Delaying
<1>2. CASE UNCHANGED timervars /\ ~Delaying /\ pos' \notin StiAt..DelaysEnd
  BY <1>2, <1>p DEF timervars, DelayInv, Delaying
<1>3. CASE ~Delaying /\ pos' = StiAt /\ SetIf(TRUE)
  BY <1>3, <1>p DEF SetIf, DelayInv, Delaying
<1>4. CASE ~Delaying /\ pos' > DelaysEnd /\ \E b : SetIf(b)
  <2>1. UNCHANGED <<pending, timer_ticks, eticks, polled, since, wanted, overrun>>
    BY <1>4 DEF SetIf
  <2>2. pos' \notin StiAt..DelaysEnd
    BY <1>4, <1>p
  <2>. QED BY <1>4, <2>1, <2>2, <1>p DEF DelayInv, Delaying
<1>5. CASE /\ pos' = pos + 1 /\ pos' \in StiAt + 1..DelaysEnd /\ Runs
           /\ \E ms \in Nat : DelayBegin(ms)
  <2>1. iflag = TRUE /\ pending = FALSE
    BY <1>5, <1>p DEF DelayInv, Runs
  <2>2. PICK ms \in Nat : DelayBegin(ms)
    BY <1>5
  <2>. DEFINE n == ticks_from_ms(ms)
  <2>3. /\ n \in Nat /\ eticks' = (timer_ticks + n) % U32 /\ since' = 0
        /\ wanted' = (IF timer_ticks + n < U32 THEN n ELSE 0)
        /\ UNCHANGED <<iflag, pending, timer_ticks, polled, overrun>>
    BY <2>2, Ticks32 DEF DelayBegin
  <2>. HIDE DEF n
  <2>4. timer_ticks \in 0..U32 - 1
    BY DEF DelayInv
  <2>5. eticks' \in 0..U32 - 1 /\ wanted' \in Nat
    BY <2>3, <2>4, <1>u
  <2>6. wanted' > 0 => eticks' = timer_ticks + wanted'
    BY <2>3, <2>4, <1>u
  <2>. QED BY <1>5, <1>p, <1>u, <2>1, <2>3, <2>4, <2>5, <2>6 DEF DelayInv, Delaying
<1>6. CASE pos' = pos /\ Runs /\ DelayPoll
  <2>1. /\ Delaying /\ iflag = TRUE /\ pending = FALSE
        /\ UNCHANGED <<iflag, pending, timer_ticks>> /\ polled' = TRUE
    BY <1>6, <1>p DEF DelayInv, Runs, DelayPoll
  <2>2. /\ eticks \in 0..U32 - 1 /\ timer_ticks \in 0..U32 - 1
        /\ since \in Nat /\ wanted \in Nat /\ pos \in StiAt + 1..DelaysEnd
    BY <2>1 DEF DelayInv, Delaying
  <2>3. wanted > 0 => timer_ticks = eticks - wanted + since /\ since <= wanted
    BY <2>1, <2>2 DEF DelayInv
  <2>4. CASE Reached
    <3>1. /\ eticks' = NoDelay /\ since' = 0 /\ wanted' = 0
          /\ overrun' = IF wanted = 0 THEN 0 ELSE since - wanted
      BY <2>4, <1>6 DEF DelayPoll
    <3>2. overrun' = 0
      BY <3>1, <2>2, <2>3, <2>4 DEF Reached
    <3>. QED BY <1>6, <1>p, <1>u, <2>1, <2>2, <3>1, <3>2 DEF DelayInv, Delaying
  <2>5. CASE ~Reached
    <3>1. UNCHANGED <<eticks, since, wanted, overrun>>
      BY <2>5, <1>6 DEF DelayPoll
    <3>2. wanted > 0 => since < wanted
      BY <2>2, <2>3, <2>5 DEF Reached
    <3>. QED BY <1>6, <1>p, <1>u, <2>1, <2>2, <2>3, <3>1, <3>2 DEF DelayInv, Delaying
  <2>. QED BY <2>4, <2>5
<1>7. CASE pos' = pos /\ Period
  <2>1. /\ iflag = TRUE => pending = FALSE /\ polled = TRUE
        /\ pending' = TRUE
        /\ since' = (IF Delaying THEN since + 1 ELSE since)
        /\ UNCHANGED <<iflag, timer_ticks, eticks, polled, wanted, overrun>>
    BY <1>7 DEF Period, DelayInv
  <2>2. CASE Delaying
    <3>1. pending = FALSE /\ polled = TRUE
      BY <2>1, <2>2, <1>p DEF DelayInv
    <3>. QED BY <1>7, <1>p, <1>u, <2>1, <2>2, <3>1 DEF DelayInv, Delaying
  <2>3. CASE ~Delaying
    BY <1>7, <1>p, <1>u, <2>1, <2>3 DEF DelayInv, Delaying
  <2>. QED BY <2>2, <2>3
<1>8. CASE pos' = pos /\ timer_handler
  <2>1. /\ pending = TRUE /\ pending' = FALSE /\ polled' = ~Delaying
        /\ timer_ticks' = (timer_ticks + 1) % U32
        /\ UNCHANGED <<iflag, eticks, since, wanted, overrun>>
    BY <1>8 DEF timer_handler, DelayInv
  <2>2. timer_ticks \in 0..U32 - 1 /\ timer_ticks' \in 0..U32 - 1
    BY <2>1, <1>u DEF DelayInv
  <2>3. (Delaying /\ wanted > 0) => timer_ticks' = eticks - wanted + since
    <3>1. ASSUME Delaying, wanted > 0
          PROVE  timer_ticks + 1 = eticks - wanted + since /\ timer_ticks + 1 < U32
      BY <3>1, <2>1, <1>u DEF DelayInv, Delaying
    <3>. QED BY <3>1, <2>1, <2>2, <1>u
  <2>4. CASE Delaying
    <3>1. polled' = FALSE
      BY <2>1, <2>4
    <3>2. wanted > 0 => since <= wanted
      BY <2>4 DEF DelayInv
    <3>3. /\ eticks' \in {NoDelay} \cup 0..U32' - 1 /\ since' \in Nat /\ wanted' \in Nat
          /\ overrun' = 0
          /\ pos' \in StiAt..DelaysEnd => iflag' = TRUE
          /\ pos' \in StiAt + 1..DelaysEnd
      BY <1>8, <1>u, <2>1, <2>4 DEF DelayInv
    <3>4. wanted' > 0 =>
             /\ timer_ticks' + (IF pending' THEN 1 ELSE 0) = eticks' - wanted' + since'
             /\ since' <= wanted' /\ ~(polled' /\ ~pending')
      <4>. SUFFICES ASSUME wanted > 0
                    PROVE  timer_ticks' = eticks - wanted + since
        BY <2>1, <2>2, <3>1, <3>2
      <4>. QED BY <2>3, <2>4
    <3>5. pending' \in BOOLEAN /\ polled' \in BOOLEAN
      BY <2>1, <3>1
    <3>. QED BY <1>p, <1>u, <2>2, <3>3, <3>4, <3>5 DEF DelayInv
  <2>5. CASE ~Delaying
    <3>1. polled' = TRUE /\ ~Delaying'
      BY <2>1, <2>5 DEF Delaying
    <3>. QED BY <1>8, <1>p, <2>1, <2>2, <2>5, <3>1 DEF DelayInv
  <2>. QED BY <2>4, <2>5
<1>9. \/ UNCHANGED timervars /\ pos' = pos
      \/ UNCHANGED timervars /\ ~Delaying /\ pos' \notin StiAt..DelaysEnd
      \/ ~Delaying /\ pos' = StiAt /\ SetIf(TRUE)
      \/ ~Delaying /\ pos' > DelaysEnd /\ \E b : SetIf(b)
      \/ /\ pos' = pos + 1 /\ pos' \in StiAt + 1..DelaysEnd /\ Runs
         /\ \E ms \in Nat : DelayBegin(ms)
      \/ pos' = pos /\ Runs /\ DelayPoll
      \/ pos' = pos /\ Period
      \/ pos' = pos /\ timer_handler
  BY TimerSteps
<1>. QED BY <1>1, <1>2, <1>3, <1>4, <1>5, <1>6, <1>7, <1>8, <1>9

-----------------------------------------------------------------------------
(* The disk.  A fast drive is never busy, so it takes every command and     *)
(* every word; left and the position in the loop say the same.              *)

Contents == {"00", "5A", "old", "stack", "junk"}
Sector == [1..Words -> Contents]
Record(d) == d = [kind |-> d.kind, bsy |-> d.bsy, cmd |-> d.cmd, left |-> d.left]

DiskTypes == /\ Record(drive) /\ drive.left \in 0..Words
             /\ buffer \in Sector /\ sector \in Sector /\ data2 \in Sector

Fast == drive.kind = "fast"
FastInv ==
    Fast =>
      /\ drive.bsy = FALSE
      /\ pos = WriteAt => drive.left = Words
      /\ pos \in WriteAt + 1..ReadAt - 2 =>
            /\ drive.left = Words - (pos - WriteAt - 1)
            /\ \A j \in 1..pos - WriteAt - 1 : buffer[j] = "5A"
      /\ pos >= ReadAt - 2 => sector = data
      /\ pos = ReadAt => drive.left = Words
      /\ pos \in ReadAt + 1..DiskEnd =>
            /\ drive.left = Words - (pos - ReadAt - 1)
            /\ \A j \in 1..pos - ReadAt - 1 : data2[j] = "5A"
      /\ pos >= DiskEnd => data2 = data

DiskInv == DiskTypes /\ FastInv

LEMMA DataIs == data \in Sector /\ \A i \in 1..Words : data[i] = "5A"
BY DEF data, All, Sector, Contents

\* A sector with the test pattern in every word is the test pattern.
LEMMA AllWritten ==
    ASSUME NEW s \in Sector, \A j \in 1..Words : s[j] = "5A"
    PROVE  s = data
BY DEF data, All, Sector

LEMMA DiskInitInv == KmainInit => DiskInv
<1>. SUFFICES ASSUME KmainInit PROVE DiskInv
  OBVIOUS
<1>1. drive \in [kind : Drives, bsy : {FALSE}, cmd : {"none"}, left : {0}]
  BY DEF KmainInit, AtaInit
<1>2. Record(drive) /\ drive.left = 0 /\ drive.bsy = FALSE
  BY <1>1 DEF Record
<1>3. buffer \in Sector /\ sector \in Sector /\ data2 \in Sector
  BY DEF KmainInit, AtaInit, All, Sector, Contents
<1>4. pos = 0 /\ 0 < WriteAt /\ 0 < ReadAt - 2 /\ 0 < DiskEnd
  BY SuffixInit, Sites, Naturals
<1>5. 0 \in 0..Words
  BY Naturals
<1>. QED BY <1>2, <1>3, <1>4, <1>5, Sites DEF DiskInv, DiskTypes, FastInv

\* Positions behind an instruction that moves data or starts a command.
Moving == {WriteAt, ReadAt} \cup WriteAt + 2..ReadAt - 2 \cup ReadAt + 2..DiskEnd

LEMMA Quiet ==
    ASSUME Suffix, NEW op \in {"if", "delay", "alloc", "wait", "idle", "paging", "tasks"},
           At(op)
    PROVE  todo # <<>> /\ pos + 1 \notin Moving
<1>. DEFINE p == pos + 1
<1>1. todo # <<>> /\ p \in 1..CodeEnd /\ Is(p, op) /\ Instruction(p)
  BY AtHand, Sites
<1>. HIDE DEF p
<1>2. \/ Is(p, "if") \/ Is(p, "delay") \/ Is(p, "alloc") \/ Is(p, "wait")
      \/ Is(p, "idle") \/ Is(p, "paging") \/ Is(p, "tasks")
  BY <1>1
<1>3. \/ p < StiAt \/ p > DiskEnd \/ p = StiAt \/ p \in StiAt + 1..DelaysEnd
      \/ p \in DelaysEnd + 1..WriteAt - 1
      \/ p \in {WriteAt + 1, ReadAt + 1} \/ p = ReadAt - 1
      \/ p = CodeEnd - 1 \/ p = CodeEnd
  BY <1>1, <1>2, Only
<1>4. p \notin Moving
  BY <1>1, <1>3, Sites, Naturals DEF Moving
<1>. QED BY <1>1, <1>4 DEF p

diskvars == <<drive, buffer, sector, data2>>

\* What a step does to the disk and to the memory that is read into.
LEMMA DiskSteps ==
    ASSUME Suffix, [Next]_vars
    PROVE  \/ UNCHANGED diskvars /\ (pos' = pos \/ (pos' = pos + 1 /\ pos' \notin Moving))
           \/ /\ pos' = pos + 1 /\ pos' \in DelaysEnd + 1..WriteAt - 1
              /\ (\E c : Command(c)) \/ (\E i : skip(i))
           \/ pos' = pos + 1 /\ pos' = WriteAt /\ Command("write")
           \/ pos' = pos + 1 /\ pos' = ReadAt /\ Command("read")
           \/ /\ pos' = pos + 1 /\ pos' \in WriteAt + 2..ReadAt - 2
              /\ outw(pos' - WriteAt - 1)
           \/ /\ pos' = pos + 1 /\ pos' \in ReadAt + 2..DiskEnd
              /\ inw(pos' - ReadAt - 1)
           \/ pos' = pos /\ DriveStep
<1>a. ASSUME todo # <<>>, todo' = Tail(todo)
      PROVE  pos' = pos + 1
  BY <1>a, Advance
<1>b. ASSUME todo' = todo
      PROVE  pos' = pos
  BY <1>b, Stay
<1>1. CASE UNCHANGED vars
  BY <1>1, <1>b DEF vars, atavars, diskvars
<1>2. CASE Flag
  <2>1. At("if") /\ UNCHANGED diskvars /\ todo' = Tail(todo)
    BY <1>2 DEF Flag, OnlyTimer, Done, atavars, diskvars
  <2>. QED BY <2>1, Quiet, <1>a
<1>3. CASE BeginDelay
  <2>1. At("delay") /\ UNCHANGED diskvars /\ todo' = Tail(todo)
    BY <1>3 DEF BeginDelay, OnlyTimer, Done, atavars, diskvars
  <2>. QED BY <2>1, Quiet, <1>a
<1>4. CASE PollDelay
  BY <1>4, <1>b DEF PollDelay, OnlyTimer, atavars, diskvars
<1>5. CASE DiskCommand
  <2>1. At("cmd") /\ Command(arg) /\ todo' = Tail(todo)
    BY <1>5 DEF DiskCommand, Done
  <2>2. /\ pos' = pos + 1 /\ arg = KmainCode[pos + 1].arg
        /\ \/ pos + 1 \in DelaysEnd + 1..WriteAt - 1
           \/ pos + 1 = WriteAt /\ Takes(pos + 1, "write")
           \/ pos + 1 = ReadAt /\ Takes(pos + 1, "read")
    BY <2>1, AtHand, Only, <1>a
  <2>3. CASE pos + 1 \in DelaysEnd + 1..WriteAt - 1
    BY <2>1, <2>2, <2>3
  <2>4. CASE pos + 1 = WriteAt /\ Takes(pos + 1, "write")
    <3>1. arg = "write"
      BY <2>2, <2>4 DEF Takes
    <3>2. Command("write")
      BY <2>1, <3>1
    <3>. QED BY <2>2, <2>4, <3>2
  <2>5. CASE pos + 1 = ReadAt /\ Takes(pos + 1, "read")
    <3>1. arg = "read"
      BY <2>2, <2>5 DEF Takes
    <3>2. Command("read")
      BY <2>1, <3>1
    <3>. QED BY <2>2, <2>5, <3>2
  <2>. QED BY <2>2, <2>3, <2>4, <2>5
<1>6. CASE DiskWait
  <2>1. At("wait") /\ UNCHANGED diskvars /\ (todo' = Tail(todo) \/ todo' = todo)
    BY <1>6 DEF DiskWait, Wait, diskvars
  <2>. QED BY <2>1, Quiet, <1>a, <1>b
<1>7. CASE DiskData
  <2>1. /\ todo' = Tail(todo)
        /\ \/ At("skip") /\ skip(arg)
           \/ At("outw") /\ outw(arg)
           \/ At("inw") /\ inw(arg)
    BY <1>7 DEF DiskData, Done
  <2>2. CASE At("skip") /\ skip(arg)
    <3>1. pos' = pos + 1 /\ pos + 1 \in DelaysEnd + 1..WriteAt - 1
      BY <2>1, <2>2, AtHand, Only, <1>a
    <3>. QED BY <2>2, <3>1
  <2>3. CASE At("outw") /\ outw(arg)
    <3>1. /\ pos' = pos + 1 /\ arg = KmainCode[pos + 1].arg
          /\ Is(pos + 1, "outw") /\ Instruction(pos + 1)
      BY <2>1, <2>3, AtHand, <1>a
    <3>2. /\ pos + 1 \in WriteAt + 2..ReadAt - 2
          /\ Takes(pos + 1, (pos + 1) - WriteAt - 1)
      BY <3>1, Only
    <3>3. arg = pos' - WriteAt - 1
      BY <3>1, <3>2 DEF Takes
    <3>4. outw(pos' - WriteAt - 1)
      BY <2>3, <3>3
    <3>. QED BY <3>1, <3>2, <3>4
  <2>4. CASE At("inw") /\ inw(arg)
    <3>1. /\ pos' = pos + 1 /\ arg = KmainCode[pos + 1].arg
          /\ Is(pos + 1, "inw") /\ Instruction(pos + 1)
      BY <2>1, <2>4, AtHand, <1>a
    <3>2. /\ pos + 1 \in ReadAt + 2..DiskEnd
          /\ Takes(pos + 1, (pos + 1) - ReadAt - 1)
      BY <3>1, Only
    <3>3. arg = pos' - ReadAt - 1
      BY <3>1, <3>2 DEF Takes
    <3>4. inw(pos' - ReadAt - 1)
      BY <2>4, <3>3
    <3>. QED BY <3>1, <3>2, <3>4
  <2>. QED BY <2>1, <2>2, <2>3, <2>4
<1>8. CASE DiskIdle
  <2>1. At("idle") /\ UNCHANGED diskvars /\ todo' = Tail(todo)
    BY <1>8 DEF DiskIdle, Done, atavars, diskvars
  <2>. QED BY <2>1, Quiet, <1>a
<1>9. CASE Allocate
  <2>1. At("alloc") /\ UNCHANGED diskvars /\ todo' = Tail(todo)
    BY <1>9 DEF Allocate, Done, atavars, diskvars
  <2>. QED BY <2>1, Quiet, <1>a
<1>10. CASE EnablePaging
  <2>1. At("paging") /\ UNCHANGED diskvars /\ todo' = Tail(todo)
    BY <1>10 DEF EnablePaging, Done, atavars, diskvars
  <2>. QED BY <2>1, Quiet, <1>a
<1>11. CASE InitTasking
  <2>1. At("tasks") /\ UNCHANGED diskvars /\ todo' = Tail(todo)
    BY <1>11 DEF InitTasking, Done, atavars, diskvars
  <2>. QED BY <2>1, Quiet, <1>a
<1>12. CASE TaskWorks \/ Preempt
  BY <1>12, <1>b DEF TaskWorks, Preempt, InLoop, atavars, diskvars
<1>13. CASE Ticks
  BY <1>13, <1>b DEF Ticks, PeriodPasses, OnlyTimer, atavars, diskvars
<1>14. CASE DriveWorks
  BY <1>14, <1>b DEF DriveWorks
<1>. QED
  BY <1>1, <1>2, <1>3, <1>4, <1>5, <1>6, <1>7, <1>8, <1>9, <1>10, <1>11, <1>12, <1>13,
     <1>14 DEF Next, kmain

LEMMA CommandDoes ==
    ASSUME DiskTypes, NEW c, Command(c)
    PROVE  /\ DiskTypes' /\ drive'.kind = drive.kind
           /\ UNCHANGED <<buffer, sector, data2>>
           /\ (Fast /\ drive.bsy = FALSE) => drive'.bsy = FALSE
           /\ (Fast /\ drive.bsy = FALSE /\ c # "reset") => drive'.left = Words
<1>1. Words \in Nat \ {0}
  BY Naturals
<1>2. UNCHANGED <<buffer, sector, data2>> /\ Take(c)
  BY DEF Command
<1>3. drive = [kind |-> drive.kind, bsy |-> drive.bsy, cmd |-> drive.cmd,
               left |-> drive.left] /\ drive.left \in 0..Words
  BY DEF DiskTypes, Record
<1>4. CASE drive' = drive
  <2>1. (Fast /\ drive.bsy = FALSE) => drive' =
           [drive EXCEPT !.bsy = (@ \/ drive.kind = "slow"), !.cmd = c,
                         !.left = IF c = "reset" THEN 0 ELSE Words]
    BY <1>2 DEF Take, Fast, Fitted
  <2>2. /\ (Fast /\ drive.bsy = FALSE) => drive'.bsy = FALSE
        /\ (Fast /\ drive.bsy = FALSE /\ c # "reset") => drive'.left = Words
    BY <1>3, <2>1 DEF Fast
  <2>. QED BY <1>2, <1>4, <2>2 DEF DiskTypes, Record, Sector
<1>5. CASE drive' = [drive EXCEPT !.bsy = (@ \/ drive.kind = "slow"), !.cmd = c,
                                  !.left = IF c = "reset" THEN 0 ELSE Words]
  <2>1. /\ Record(drive') /\ drive'.kind = drive.kind
        /\ drive'.left = (IF c = "reset" THEN 0 ELSE Words)
        /\ drive'.bsy = (drive.bsy \/ drive.kind = "slow")
    BY <1>3, <1>5 DEF Record
  <2>2. drive'.left \in 0..Words
    BY <1>1, <2>1
  <2>3. Fast /\ drive.bsy = FALSE => drive'.bsy = FALSE
    BY <2>1 DEF Fast
  <2>. QED BY <1>2, <2>1, <2>2, <2>3 DEF DiskTypes, Sector
<1>. QED BY <1>2, <1>4, <1>5 DEF Take

LEMMA SkipDoes ==
    ASSUME DiskTypes, NEW i, skip(i)
    PROVE  /\ DiskTypes' /\ drive'.kind = drive.kind /\ drive'.bsy = drive.bsy
           /\ UNCHANGED <<buffer, sector, data2>>
<1>1. Words \in Nat \ {0}
  BY Naturals
<1>2. /\ UNCHANGED <<buffer, sector, data2>>
      /\ drive' = IF DRQ THEN [drive EXCEPT !.left = @ - 1] ELSE drive
  BY DEF skip
<1>3. drive = [kind |-> drive.kind, bsy |-> drive.bsy, cmd |-> drive.cmd,
               left |-> drive.left] /\ drive.left \in 0..Words
  BY DEF DiskTypes, Record
<1>4. CASE DRQ
  <2>1. drive.left - 1 \in 0..Words
    BY <1>1, <1>3, <1>4 DEF DRQ
  <2>2. /\ Record(drive') /\ drive'.kind = drive.kind /\ drive'.bsy = drive.bsy
        /\ drive'.left = drive.left - 1
    BY <1>2, <1>3, <1>4 DEF Record
  <2>. QED BY <1>2, <2>1, <2>2 DEF DiskTypes, Sector
<1>5. CASE ~DRQ
  BY <1>2, <1>5 DEF DiskTypes, Record, Sector
<1>. QED BY <1>4, <1>5

LEMMA OutwDoes ==
    ASSUME DiskTypes, NEW i \in 1..Words, outw(i)
    PROVE  /\ DiskTypes' /\ drive'.kind = drive.kind /\ data2' = data2
           /\ (Fast /\ drive.bsy = FALSE /\ drive.left > 0) =>
                 /\ drive'.bsy = FALSE /\ drive'.left = drive.left - 1
                 /\ buffer' = [buffer EXCEPT ![Place] = "5A"]
                 /\ drive.left = 1 => sector' = buffer'
<1>1. Words \in Nat \ {0} /\ data[i] = "5A"
  BY Naturals, DataIs
<1>2. drive = [kind |-> drive.kind, bsy |-> drive.bsy, cmd |-> drive.cmd,
               left |-> drive.left] /\ drive.left \in 0..Words
  BY DEF DiskTypes, Record
<1>3. data2' = data2
  BY DEF outw
<1>4. CASE DRQ
  <2>1. /\ buffer' = [buffer EXCEPT ![Place] = "5A"]
        /\ drive' = [drive EXCEPT !.left = @ - 1,
                                  !.bsy = (drive.kind = "slow" /\ drive.left = 1)]
        /\ sector' = IF drive.kind = "fast" /\ drive.left = 1 THEN buffer' ELSE sector
    BY <1>1, <1>4 DEF outw
  <2>2. drive.left - 1 \in 0..Words
    BY <1>1, <1>2, <1>4 DEF DRQ
  <2>3. /\ Record(drive') /\ drive'.kind = drive.kind
        /\ drive'.left = drive.left - 1
        /\ drive'.bsy = (drive.kind = "slow" /\ drive.left = 1)
    BY <1>2, <2>1 DEF Record
  <2>4. buffer' \in Sector
    BY <2>1 DEF DiskTypes, Sector, Contents
  <2>5. sector' \in Sector
    BY <2>1, <2>4 DEF DiskTypes
  <2>6. data2' \in Sector /\ Sector' = Sector
    BY <1>3 DEF DiskTypes, Sector, Contents
  <2>7. Fast => drive'.bsy = FALSE /\ (drive.left = 1 => sector' = buffer')
    BY <2>1, <2>3 DEF Fast
  <2>. QED BY <1>3, <2>1, <2>2, <2>3, <2>4, <2>5, <2>6, <2>7 DEF DiskTypes
<1>5. CASE ~DRQ
  <2>1. UNCHANGED <<drive, buffer, sector>>
    BY <1>5 DEF outw
  <2>2. ~(Fast /\ drive.bsy = FALSE /\ drive.left > 0)
    BY <1>5 DEF Fast, DRQ, Fitted
  <2>. QED BY <1>3, <2>1, <2>2 DEF DiskTypes, Record, Sector
<1>. QED BY <1>4, <1>5

LEMMA InwDoes ==
    ASSUME DiskTypes, NEW i \in 1..Words, inw(i)
    PROVE  /\ DiskTypes' /\ drive'.kind = drive.kind /\ drive'.bsy = drive.bsy
           /\ UNCHANGED <<buffer, sector>>
           /\ (Fast /\ drive.bsy = FALSE /\ drive.left > 0) =>
                 /\ drive'.left = drive.left - 1
                 /\ data2' = [data2 EXCEPT ![i] = sector[Place]]
<1>1. Words \in Nat \ {0}
  BY Naturals
<1>2. drive = [kind |-> drive.kind, bsy |-> drive.bsy, cmd |-> drive.cmd,
               left |-> drive.left] /\ drive.left \in 0..Words
  BY DEF DiskTypes, Record
<1>3. /\ UNCHANGED <<buffer, sector>>
      /\ drive' = IF DRQ THEN [drive EXCEPT !.left = @ - 1] ELSE drive
      /\ data2' = [data2 EXCEPT ![i] = IF DRQ THEN sector[Place] ELSE "junk"]
  BY DEF inw
<1>4. CASE DRQ
  <2>1. drive.left - 1 \in 0..Words /\ Place \in 1..Words
    BY <1>1, <1>2, <1>4 DEF DRQ, Place
  <2>2. /\ Record(drive') /\ drive'.kind = drive.kind /\ drive'.bsy = drive.bsy
        /\ drive'.left = drive.left - 1
    BY <1>2, <1>3, <1>4 DEF Record
  <2>3. data2' = [data2 EXCEPT ![i] = sector[Place]] /\ sector[Place] \in Contents
    BY <1>3, <1>4, <2>1 DEF DiskTypes, Sector
  <2>4. data2' \in Sector
    BY <2>3 DEF DiskTypes, Sector
  <2>. QED BY <1>3, <2>1, <2>2, <2>3, <2>4 DEF DiskTypes, Sector
<1>5. CASE ~DRQ
  <2>1. ~(Fast /\ drive.bsy = FALSE /\ drive.left > 0)
    BY <1>5 DEF Fast, DRQ, Fitted
  <2>2. data2' = [data2 EXCEPT ![i] = "junk"] /\ drive' = drive
    BY <1>3, <1>5
  <2>3. data2' \in Sector
    BY <2>2 DEF DiskTypes, Sector, Contents
  <2>. QED BY <1>3, <2>1, <2>2, <2>3 DEF DiskTypes, Record, Sector
<1>. QED BY <1>4, <1>5

LEMMA DriveDoes ==
    ASSUME DiskTypes, DriveStep
    PROVE  /\ DiskTypes' /\ drive'.kind = drive.kind /\ drive.bsy
           /\ UNCHANGED <<buffer, data2>>
<1>1. drive = [kind |-> drive.kind, bsy |-> drive.bsy, cmd |-> drive.cmd,
               left |-> drive.left] /\ drive.left \in 0..Words
  BY DEF DiskTypes, Record
<1>2. /\ drive.bsy /\ drive' = [drive EXCEPT !.bsy = FALSE]
      /\ UNCHANGED <<buffer, data2>> /\ (sector' = buffer \/ sector' = sector)
  BY DEF DriveStep, BSY
<1>3. /\ Record(drive') /\ drive'.kind = drive.kind /\ drive'.left = drive.left
  BY <1>1, <1>2 DEF Record
<1>. QED BY <1>1, <1>2, <1>3 DEF DiskTypes, Sector

LEMMA DiskNext ==
    ASSUME Suffix, DiskInv, [Next]_vars
    PROVE  DiskInv'
<1>p. /\ pos \in Int /\ Words \in Nat \ {0} /\ StiAt \in Nat /\ DelaysEnd \in Nat
      /\ WriteAt \in Nat /\ ReadAt \in Nat /\ DiskEnd \in Nat
      /\ DelaysEnd < WriteAt - 1 /\ ReadAt = WriteAt + Words + 3
      /\ DiskEnd = ReadAt + Words + 1
  BY Sites, Positions, Naturals
<1>c. /\ WriteAt' = WriteAt /\ ReadAt' = ReadAt /\ DiskEnd' = DiskEnd
      /\ data' = data /\ Words' = Words
  BY DEF DiskEnd, ReadAt, WriteAt, DelaysEnd, StiAt, data, All
<1>t. DiskTypes
  BY DEF DiskInv
<1>i. \A j \in 1..Words : data[j] = "5A"
  BY DataIs
<1>1. CASE UNCHANGED diskvars /\ (pos' = pos \/ (pos' = pos + 1 /\ pos' \notin Moving))
  <2>1. DiskTypes'
    BY <1>1, <1>t DEF DiskTypes, diskvars, Record, Sector
  <2>2. FastInv'
    <3>. SUFFICES ASSUME Fast' PROVE FastInv'
      BY DEF FastInv
    <3>1. UNCHANGED <<drive, buffer, sector, data2>> /\ Fast
      BY <1>1 DEF diskvars, Fast
    <3>2. CASE pos' = pos
      BY <1>c, <3>1, <3>2 DEF FastInv, Fast, DiskInv
    <3>3. CASE pos' = pos + 1 /\ pos' \notin Moving
      <4>1. pos' # WriteAt /\ pos' # ReadAt
        BY <3>3 DEF Moving
      <4>2. pos' \in WriteAt + 1..ReadAt - 2 => pos = WriteAt /\ pos' = WriteAt + 1
        BY <3>3, <1>p DEF Moving
      <4>3. pos' \in ReadAt + 1..DiskEnd => pos = ReadAt /\ pos' = ReadAt + 1
        BY <3>3, <1>p DEF Moving
      <4>4. pos' >= ReadAt - 2 => pos >= ReadAt - 2
        BY <3>3, <1>p DEF Moving
      <4>5. pos' >= DiskEnd => pos >= DiskEnd
        BY <3>3, <1>p DEF Moving
      <4>. QED BY <1>p, <1>c, <3>1, <4>1, <4>2, <4>3, <4>4, <4>5 DEF FastInv, Fast, DiskInv
    <3>. QED BY <1>1, <3>2, <3>3
  <2>. QED BY <2>1, <2>2 DEF DiskInv
<1>2. CASE /\ pos' = pos + 1 /\ pos' \in DelaysEnd + 1..WriteAt - 1
           /\ (\E c : Command(c)) \/ (\E i : skip(i))
  <2>1. /\ DiskTypes' /\ drive'.kind = drive.kind
        /\ Fast /\ drive.bsy = FALSE => drive'.bsy = FALSE
    BY <1>2, <1>t, CommandDoes, SkipDoes
  <2>2. pos' < WriteAt /\ pos' < ReadAt - 2 /\ pos' < DiskEnd /\ pos' \in Int
    BY <1>2, <1>p
  <2>3. FastInv'
    <3>1. /\ pos' # WriteAt /\ pos' \notin WriteAt + 1..ReadAt - 2
          /\ ~(pos' >= ReadAt - 2) /\ pos' # ReadAt
          /\ pos' \notin ReadAt + 1..DiskEnd /\ ~(pos' >= DiskEnd)
      BY <2>2, <1>p
    <3>2. Fast' => Fast /\ drive'.bsy = FALSE
      BY <2>1 DEF Fast, FastInv, DiskInv
    <3>. QED BY <1>c, <3>1, <3>2 DEF FastInv
  <2>. QED BY <2>1, <2>3 DEF DiskInv
<1>3. CASE pos' = pos + 1 /\ pos' = WriteAt /\ Command("write")
  <2>1. /\ DiskTypes' /\ drive'.kind = drive.kind
        /\ Fast /\ drive.bsy = FALSE => drive'.bsy = FALSE /\ drive'.left = Words
    <3>1. Command("write") /\ "write" # "reset"
      BY <1>3
    <3>. QED BY <3>1, <1>t, CommandDoes
  <2>2. /\ pos' \notin WriteAt + 1..ReadAt - 2 /\ ~(pos' >= ReadAt - 2)
        /\ pos' # ReadAt /\ pos' \notin ReadAt + 1..DiskEnd /\ ~(pos' >= DiskEnd)
    BY <1>3, <1>p
  <2>3. Fast' => Fast /\ drive.bsy = FALSE
    BY <2>1 DEF Fast, FastInv, DiskInv
  <2>. QED BY <1>3, <1>c, <2>1, <2>2, <2>3 DEF FastInv, DiskInv
<1>4. CASE pos' = pos + 1 /\ pos' = ReadAt /\ Command("read")
  <2>1. /\ DiskTypes' /\ drive'.kind = drive.kind /\ sector' = sector
        /\ Fast /\ drive.bsy = FALSE => drive'.bsy = FALSE /\ drive'.left = Words
    <3>1. Command("read") /\ "read" # "reset"
      BY <1>4
    <3>. QED BY <3>1, <1>t, CommandDoes
  <2>2. /\ pos' # WriteAt /\ pos' \notin WriteAt + 1..ReadAt - 2
        /\ pos' \notin ReadAt + 1..DiskEnd /\ ~(pos' >= DiskEnd)
        /\ pos >= ReadAt - 2
    BY <1>4, <1>p
  <2>3. Fast' => Fast /\ drive.bsy = FALSE /\ sector = data
    BY <2>1, <2>2 DEF Fast, FastInv, DiskInv
  <2>. QED BY <1>4, <1>c, <2>1, <2>2, <2>3 DEF FastInv, DiskInv
<1>5. CASE /\ pos' = pos + 1 /\ pos' \in WriteAt + 2..ReadAt - 2
           /\ outw(pos' - WriteAt - 1)
  <2>. DEFINE i == pos' - WriteAt - 1
  <2>1. i \in 1..Words /\ pos' = WriteAt + 1 + i /\ i = pos - WriteAt
    BY <1>5, <1>p
  <2>2. /\ DiskTypes' /\ drive'.kind = drive.kind
        /\ (Fast /\ drive.bsy = FALSE /\ drive.left > 0) =>
              /\ drive'.bsy = FALSE /\ drive'.left = drive.left - 1
              /\ buffer' = [buffer EXCEPT ![Place] = "5A"]
              /\ drive.left = 1 => sector' = buffer'
    BY <1>5, <1>t, <2>1, OutwDoes
  <2>. HIDE DEF i
  <2>3. FastInv'
    <3>. SUFFICES ASSUME Fast' PROVE FastInv'
      BY DEF FastInv
    <3>1. /\ Fast /\ drive.bsy = FALSE /\ drive.left = Words - (pos - WriteAt - 1)
          /\ \A j \in 1..pos - WriteAt - 1 : buffer[j] = "5A"
      <4>1. pos \in WriteAt + 1..ReadAt - 2
        BY <1>5, <1>p
      <4>2. Fast
        BY <2>2 DEF Fast
      <4>. QED BY <4>1, <4>2 DEF FastInv, DiskInv
    <3>2. /\ drive.left = Words - (i - 1) /\ drive.left > 0 /\ Place = i
          /\ \A j \in 1..i - 1 : buffer[j] = "5A"
      BY <3>1, <2>1, <1>p DEF Place
    <3>3. /\ drive'.bsy = FALSE /\ drive'.left = Words - i
          /\ buffer' = [buffer EXCEPT ![i] = "5A"]
          /\ i = Words => sector' = buffer'
      BY <2>1, <2>2, <3>1, <3>2, <1>p
    <3>4. buffer \in [1..Words -> Contents]
      BY <1>t DEF DiskTypes, Sector
    <3>5. \A j \in 1..i : buffer'[j] = "5A"
      BY <2>1, <3>2, <3>3, <3>4, <1>p
    <3>6. i = Words => sector' = data
      <4>1. buffer' \in Sector
        BY <2>2 DEF DiskTypes, Sector
      <4>. QED BY <3>3, <3>5, <4>1, AllWritten
    <3>7. /\ pos' # WriteAt /\ (pos' >= ReadAt - 2 => i = Words) /\ pos' # ReadAt
          /\ pos' \notin ReadAt + 1..DiskEnd /\ ~(pos' >= DiskEnd)
          /\ pos' - WriteAt - 1 = i
      BY <2>1, <1>p, <1>5
    <3>. QED BY <1>c, <3>3, <3>5, <3>6, <3>7 DEF FastInv
  <2>. QED BY <2>2, <2>3 DEF DiskInv
<1>6. CASE /\ pos' = pos + 1 /\ pos' \in ReadAt + 2..DiskEnd
           /\ inw(pos' - ReadAt - 1)
  <2>. DEFINE i == pos' - ReadAt - 1
  <2>1. i \in 1..Words /\ pos' = ReadAt + 1 + i /\ i = pos - ReadAt
    BY <1>6, <1>p
  <2>2. /\ DiskTypes' /\ drive'.kind = drive.kind /\ drive'.bsy = drive.bsy
        /\ sector' = sector
        /\ (Fast /\ drive.bsy = FALSE /\ drive.left > 0) =>
              /\ drive'.left = drive.left - 1
              /\ data2' = [data2 EXCEPT ![i] = sector[Place]]
    BY <1>6, <1>t, <2>1, InwDoes
  <2>. HIDE DEF i
  <2>3. FastInv'
    <3>. SUFFICES ASSUME Fast' PROVE FastInv'
      BY DEF FastInv
    <3>1. /\ Fast /\ drive.bsy = FALSE /\ drive.left = Words - (pos - ReadAt - 1)
          /\ \A j \in 1..pos - ReadAt - 1 : data2[j] = "5A"
          /\ sector = data
      <4>1. pos \in ReadAt + 1..DiskEnd /\ pos >= ReadAt - 2
        BY <1>6, <1>p
      <4>2. Fast
        BY <2>2 DEF Fast
      <4>. QED BY <4>1, <4>2 DEF FastInv, DiskInv
    <3>2. /\ drive.left = Words - (i - 1) /\ drive.left > 0 /\ Place = i
          /\ \A j \in 1..i - 1 : data2[j] = "5A"
      BY <3>1, <2>1, <1>p DEF Place
    <3>3. /\ drive'.bsy = FALSE /\ drive'.left = Words - i
          /\ data2' = [data2 EXCEPT ![i] = "5A"] /\ sector' = data
      BY <2>1, <2>2, <3>1, <3>2, <1>p, <1>i
    <3>4. data2 \in [1..Words -> Contents]
      BY <1>t DEF DiskTypes, Sector
    <3>5. \A j \in 1..i : data2'[j] = "5A"
      BY <2>1, <3>2, <3>3, <3>4, <1>p
    <3>6. i = Words => data2' = data
      <4>1. data2' \in Sector
        BY <2>2 DEF DiskTypes, Sector
      <4>. QED BY <3>5, <4>1, AllWritten
    <3>7. /\ pos' # WriteAt /\ pos' \notin WriteAt + 1..ReadAt - 2 /\ pos' # ReadAt
          /\ (pos' >= DiskEnd => i = Words) /\ pos' - ReadAt - 1 = i
      BY <2>1, <1>p, <1>6
    <3>. QED BY <1>c, <3>3, <3>5, <3>6, <3>7 DEF FastInv
  <2>. QED BY <2>2, <2>3 DEF DiskInv
<1>7. CASE pos' = pos /\ DriveStep
  <2>1. DiskTypes' /\ drive'.kind = drive.kind /\ drive.bsy
    BY <1>7, <1>t, DriveDoes
  <2>2. ~Fast'
    BY <2>1 DEF FastInv, Fast, DiskInv
  <2>. QED BY <2>1, <2>2 DEF FastInv, DiskInv
<1>. QED BY <1>1, <1>2, <1>3, <1>4, <1>5, <1>6, <1>7, DiskSteps

-----------------------------------------------------------------------------
(* The tasks: kmain is the only one until its code is done.               *)

TasksInv == /\ TasksTyped /\ ContextKept
            /\ IF todo = <<>> THEN Switching ELSE runningTask = 0 /\ resumed = FALSE

LEMMA TasksInitInv == KmainInit => TasksInv
<1>. SUFFICES ASSUME KmainInit PROVE TasksInv
  OBVIOUS
<1>1. todo # <<>>
  BY SuffixInit, Positions, Sites
<1>2. TasksTyped /\ runningTask = 0 /\ resumed = FALSE
  BY TasksStart DEF KmainInit
<1>. QED BY <1>1, <1>2 DEF TasksInv, ContextKept

\* Which steps concern the tasks: the last one of kmain's code, and those after it.
LEMMA TaskSteps ==
    ASSUME Suffix, [Next]_vars
    PROVE  \/ UNCHANGED taskvars /\ (todo' = <<>> <=> todo = <<>>)
           \/ initTasking /\ todo # <<>> /\ todo' = <<>>
           \/ Work /\ todo = <<>> /\ todo' = <<>>
           \/ k_preempt /\ todo = <<>> /\ todo' = <<>>
<1>1. Suffix' /\ CodeEnd' = CodeEnd
  BY SuffixNext DEF CodeEnd, DiskEnd, ReadAt, WriteAt, DelaysEnd, StiAt
<1>2. (todo = <<>> <=> pos = CodeEnd) /\ (todo' = <<>> <=> pos' = CodeEnd)
  <2>1. todo' = <<>> <=> pos' = CodeEnd'
    <3>1. todo' \in Seq(Step) /\ pos' = CodeEnd' - Len(todo') /\ CodeEnd' \in Nat
      BY <1>1, Sites DEF Suffix, pos, Step, Ops, Args, Names
    <3>2. todo' = <<>> <=> Len(todo') = 0
      BY <3>1, EmptySeq
    <3>. QED BY <3>1, <3>2
  <2>. QED BY <1>1, <2>1, Positions
<1>3. ASSUME At("tasks"), Done PROVE todo # <<>> /\ todo' = <<>>
  <2>1. todo # <<>> /\ pos + 1 = CodeEnd
    <3>1. /\ todo # <<>> /\ Is(pos + 1, "tasks") /\ Instruction(pos + 1)
      BY <1>3, AtHand
    <3>. QED BY <3>1, Only
  <2>2. pos' = pos + 1
    BY <1>3, <2>1, Advance DEF Done
  <2>. QED BY <1>2, <2>1, <2>2
<1>4. ASSUME NEW op, op # "tasks", At(op), Done
      PROVE  todo # <<>> /\ todo' # <<>>
  <2>1. todo # <<>> /\ Is(pos + 1, op) /\ pos \in 0..CodeEnd - 1
    BY <1>4, AtHand
  <2>2. Is(CodeEnd, "tasks")
    BY CodeAt DEF Is, O
  <2>3. pos + 1 # CodeEnd
    BY <1>4, <2>1, <2>2 DEF Is
  <2>4. pos' = pos + 1
    BY <1>4, <2>1, Advance DEF Done
  <2>. QED BY <1>2, <2>1, <2>3, <2>4
<1>5. CASE UNCHANGED vars
  BY <1>5 DEF vars
<1>6. CASE Flag \/ BeginDelay \/ DiskCommand \/ DiskData \/ DiskIdle
  <2>1. UNCHANGED taskvars
    BY <1>6 DEF Flag, BeginDelay, DiskCommand, DiskData, DiskIdle, OnlyTimer, OnlyAta
  <2>2. \E op : op # "tasks" /\ At(op) /\ Done
    <3>1. \/ At("if") \/ At("delay") \/ At("cmd") \/ At("skip") \/ At("outw")
          \/ At("inw") \/ At("idle")
      BY <1>6 DEF Flag, BeginDelay, DiskCommand, DiskData, DiskIdle
    <3>2. Done
      BY <1>6 DEF Flag, BeginDelay, DiskCommand, DiskData, DiskIdle
    <3>. QED BY <3>1, <3>2
  <2>. QED BY <1>4, <2>1, <2>2
<1>7. CASE Allocate \/ EnablePaging
  <2>1. UNCHANGED taskvars /\ Done /\ (At("alloc") \/ At("paging"))
    BY <1>7 DEF Allocate, EnablePaging
  <2>. QED BY <1>4, <2>1
<1>8. CASE DiskWait
  <2>1. UNCHANGED taskvars /\ At("wait") /\ (todo' = todo \/ Done)
    BY <1>8 DEF DiskWait, OnlyAta, Done
  <2>. QED BY <1>4, <2>1
<1>9. CASE PollDelay \/ Ticks \/ DriveWorks
  BY <1>9 DEF PollDelay, Ticks, PeriodPasses, DriveWorks, OnlyTimer
<1>10. CASE InitTasking
  BY <1>3, <1>10 DEF InitTasking
<1>11. CASE TaskWorks \/ Preempt
  BY <1>11 DEF TaskWorks, Preempt, InLoop
<1>. QED BY <1>5, <1>6, <1>7, <1>8, <1>9, <1>10, <1>11 DEF Next, kmain

LEMMA TasksNext ==
    ASSUME Suffix, TasksInv, [Next]_vars
    PROVE  TasksInv'
<1>1. CASE UNCHANGED taskvars /\ (todo' = <<>> <=> todo = <<>>)
  <2>1. UNCHANGED <<runningTask, resumed>>
    BY <1>1 DEF taskvars
  <2>. QED BY <1>1, <2>1, TasksStutter DEF TasksInv
<1>2. CASE initTasking /\ todo # <<>> /\ todo' = <<>>
  BY <1>2, InitTaskingStarts DEF TasksInv, ContextKept
<1>3. CASE Work /\ todo = <<>> /\ todo' = <<>>
  BY <1>3, WorkKeeps DEF TasksInv
<1>4. CASE k_preempt /\ todo = <<>> /\ todo' = <<>>
  <2>1. CASE ~armed
    <3>1. UNCHANGED taskvars
      BY <1>4, <2>1 DEF k_preempt
    <3>. QED BY <1>1, <1>4, <3>1
  <2>2. CASE armed
    <3>1. \A t, u : t = runningTask /\ u = Successor(t)
                    => TasksTyped' /\ Switching' /\ ContextKept'
      BY <1>4, <2>2, PreemptKeeps DEF TasksInv
    <3>. QED BY <1>4, <3>1 DEF TasksInv
  <2>. QED BY <2>1, <2>2
<1>. QED BY <1>1, <1>2, <1>3, <1>4, TaskSteps

-----------------------------------------------------------------------------
(* The interrupt flag and the wait loops' counter *)

FlagInv == iflag \in BOOLEAN /\ polls \in 0..Polls

LEMMA FlagInitInv == KmainInit => FlagInv
<1>. SUFFICES ASSUME KmainInit PROVE FlagInv
  OBVIOUS
<1>1. iflag \in BOOLEAN
  BY DEF KmainInit, TimerInit
<1>2. polls \in 0..Polls
  BY AtaAssumption DEF KmainInit, AtaInit, AtaAssumption
<1>. QED BY <1>1, <1>2 DEF FlagInv

LEMMA FlagNext ==
    ASSUME Suffix, FlagInv, [Next]_vars
    PROVE  FlagInv'
<1>p. Polls \in Nat
  BY AtaAssumption DEF AtaAssumption
<1>1. CASE UNCHANGED <<iflag, polls>>
  BY <1>1 DEF FlagInv
<1>2. CASE Flag
  <2>1. todo # <<>> /\ Head(todo) \in Step /\ Head(todo).op = "if"
    <3>1. todo # <<>> /\ todo \in Seq(Step) /\ Head(todo).op = "if"
      BY <1>2 DEF Flag, At, Suffix
    <3>. QED BY <3>1, HeadTailProperties
  <2>2. Head(todo).arg \in BOOLEAN
    BY <2>1 DEF Step
  <2>3. iflag' = Head(todo).arg /\ polls' = polls
    BY <1>2 DEF Flag, SetIf, OnlyTimer, atavars, arg
  <2>. QED BY <2>2, <2>3 DEF FlagInv
<1>3. CASE DiskWait
  <2>1. /\ iflag' = iflag
        /\ polls' = 0 \/ (polls # Polls /\ polls' = polls + 1)
    BY <1>3 DEF DiskWait, OnlyAta, timervars, Wait, Waited
  <2>. QED BY <1>p, <2>1 DEF FlagInv
<1>4. CASE UNCHANGED vars
  BY <1>1, <1>4 DEF vars, timervars, atavars
<1>5. CASE \/ BeginDelay \/ PollDelay \/ Ticks
  BY <1>1, <1>5 DEF BeginDelay, DelayBegin, PollDelay, DelayPoll, Ticks, PeriodPasses,
                    Period, timer_handler, OnlyTimer, atavars
<1>6. CASE DiskCommand \/ DiskData \/ DiskIdle \/ DriveWorks
  BY <1>1, <1>6 DEF DiskCommand, Command, DiskData, skip, outw, inw, DiskIdle,
                    DriveWorks, DriveStep, OnlyAta, timervars, atavars
<1>7. CASE Allocate \/ EnablePaging \/ InitTasking \/ TaskWorks \/ Preempt
  BY <1>1, <1>7 DEF Allocate, EnablePaging, InitTasking, TaskWorks, Preempt, InLoop,
                    timervars, atavars
<1>. QED BY <1>2, <1>3, <1>4, <1>5, <1>6, <1>7 DEF Next, kmain

-----------------------------------------------------------------------------
(* All of kmain *)

IInv == /\ Suffix /\ HeapInv /\ PagingInv /\ DelayInv /\ DiskInv /\ TasksInv
        /\ FlagInv

LEMMA InitIInv == KmainInit => IInv
BY SuffixInit, HeapInitInv, DelayInitInv, DiskInitInv, TasksInitInv, FlagInitInv
   DEF KmainInit, PagingInit, PagingInv, IInv

LEMMA NextIInv == IInv /\ [Next]_vars => IInv'
BY SuffixNext, HeapNext, PagingNext, DelayNext, DiskNext, TasksNext, FlagNext
   DEF IInv

\* What is left of kmain is a suffix of its code, and each component is as far as
\* the code that is done has brought it.
THEOREM Inductive == Spec => []IInv
BY InitIInv, NextIInv, PTL DEF Spec

\* A delay takes exactly the ticks that were asked for, whatever the length of
\* the period in polls and wherever in its range the counter starts (timer.c:70).
THEOREM DelaysAreExact == Spec => []DelayExact
<1>1. IInv => DelayExact
  BY DEF IInv, DelayInv, DelayExact
<1>. QED BY Inductive, <1>1, PTL

\* On a fast drive the sector is the pattern that was written and the memory is
\* what is in the sector, word for word (main.c:505).
THEOREM FastRoundTrip == Spec => []FastDriveRoundTrip
<1>1. IInv => FastDriveRoundTrip
  <2>. SUFFICES ASSUME IInv, drive.kind = "fast", todo = <<>>
                PROVE  sector = data /\ data2 = data
    BY DEF FastDriveRoundTrip
  <2>1. pos = CodeEnd
    BY Positions DEF IInv
  <2>2. pos >= ReadAt - 2 /\ pos >= DiskEnd
    BY <2>1, Sites, Naturals
  <2>. QED BY <2>2 DEF IInv, DiskInv, FastInv, Fast
<1>. QED BY Inductive, <1>1, PTL

\* The blocks that kmalloc_b hands out do not overlap, and their marks, read as the
\* words they are, hold what their own allocation left there, whatever is allocated
\* (mm.c:142).
THEOREM BlocksStayApart == Spec => []BlocksApart
<1>1. IInv => BlocksApart
  BY MarksAre DEF IInv, HeapInv, BlocksApart
<1>. QED BY Inductive, <1>1, PTL

\* Once paging is on, the processor and get_physaddr find every page of the
\* kernel where it was, for any size of a page table (mm.c:253).
THEOREM PagesStayInPlace == Spec => []PagesInPlace
<1>1. IInv => PagesInPlace
  BY InPlace DEF IInv
<1>. QED BY Inductive, <1>1, PTL

\* Every switch by k_preempt brings a task back to exactly the registers, stack
\* pointer, flags and address space it left with, for stacks of any size and
\* whatever interrupts leave below a stack pointer (kernel.s:40).
THEOREM ContextsKept == Spec => []ContextKept
<1>1. IInv => ContextKept
  BY DEF IInv, TasksInv
<1>. QED BY Inductive, <1>1, PTL

\* The counters stay in their ranges, the marks in a byte, and each task's stack
\* pointer in the stacks (timer.c:34, hd.c:48, task.c:70).
THEOREM TypeCorrect == Spec => []KmainTypeOK
<1>1. IInv => KmainTypeOK
  <2>. SUFFICES ASSUME IInv PROVE KmainTypeOK
    OBVIOUS
  <2>1. iflag \in BOOLEAN /\ polls \in 0..Polls
    BY DEF IInv, FlagInv
  <2>2. timer_ticks \in 0..(U32 - 1) /\ eticks \in {NoDelay} \cup 0..(U32 - 1)
    BY DEF IInv, DelayInv
  <2>3. drive.left \in 0..Words
    BY DEF IInv, DiskInv, DiskTypes
  <2>4. \A b \in MarkBytes : blocks_used[b] \in 0..255
    BY DEF IInv, HeapInv
  <2>5. /\ runningTask \in Started /\ curProcessIndex \in 0..(MAX_PROCESSES - 1)
        /\ cpu.esp \in StackAddresses
    BY Tops DEF IInv, TasksInv, TasksTyped
  <2>. QED BY <2>1, <2>2, <2>3, <2>4, <2>5 DEF KmainTypeOK
<1>. QED BY Inductive, <1>1, PTL
=============================================================================
