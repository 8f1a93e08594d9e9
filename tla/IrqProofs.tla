----------------------------- MODULE IrqProofs -----------------------------
(***************************************************************************)
(* Frames of interrupts do not nest, end-of-interrupt commands balance the *)
(* in-service bits, no interrupt meets a missing routine, and the counters *)
(* are exact, for all sets of lines and drivers.                           *)
(*                                                                         *)
(* The argument: the processor takes interrupts only while no frame is on  *)
(* the stack, as the gate clears the interrupt flag and the stub's sti is  *)
(* shadowed until its iret, or while an exception's frame has not got to   *)
(* the cli of its stub.  So an interrupt's frame begins with no bit in     *)
(* service but those of its own vector, and what is left of them, and what *)
(* is still to be counted, depends on how far the frame has got.           *)
(***************************************************************************)
EXTENDS Irq, TLAPS, WellFoundedInduction, SequenceTheorems

Top == stack[1]
HandlerSteps == {"check", "routine", "eoi_slave", "eoi_master", "count", "sti", "iret"}

\* One frame at most, or an interrupt's on that of an exception which has not got
\* to its cli; with another frame on top, interrupts are off or shadowed and none is
\* being asked for.
Guarded == /\ Len(stack) <= 2
           /\ Len(stack) = 2 => /\ Top.vector # NoLine
                                /\ stack[2].vector = NoLine /\ stack[2].at = "cli"
           /\ stack # <<>> /\ asked # NoLine => Top.at = "cli"
           /\ stack # <<>> /\ iflag => \/ Top.at = "iret" /\ shadow
                                      \/ Top.at = "cli"
           /\ user => stack # <<>> /\ Top.at = "routine"

\* Frames of interrupts carry their vector, those of exceptions none; a slave's
\* vector goes through the slave's EOI.
Vectors == stack # <<>> =>
              /\ Top.at \in HandlerSteps \ {"iret"} => Top.vector \in Irqs
              /\ Top.at \in {"cli", "fault"} => Top.vector = NoLine
              /\ Top.at = "eoi_slave" => Top.vector \in Slave

\* The bits a frame has still to clear.
InService ==
    /\ stack = <<>> => isr = {}
    /\ stack # <<>> =>
         /\ Top.at \in {"check", "routine", "eoi_slave"} => isr \subseteq Served(Top.vector)
         /\ Top.at = "eoi_master" =>
               isr \subseteq {IF Top.vector \in Slave THEN Cascade ELSE Top.vector}
         /\ Top.at \in {"count", "sti", "iret", "cli", "fault"} => isr = {}

\* What a frame has still to count.
Uncounted(i) == IF /\ stack # <<>> /\ Top.vector = i
                   /\ Top.at \in {"check", "routine", "eoi_slave", "eoi_master", "count"}
                THEN 1 ELSE 0
Unjudged(i) == IF /\ stack # <<>> /\ Top.vector = i
                  /\ Top.at = "check" /\ i \notin isr
               THEN 1 ELSE 0
Counted == \A i \in Irqs : /\ irq_counts[i] + Uncounted(i) = real[i] + faked[i]
                           /\ irq_spurious[i] + Unjudged(i) = faked[i]

\* Interrupts are enabled, and frames arise from them, after kmain has installed
\* every routine.
Enabled == /\ iflag \/ stack # <<>> \/ asked # NoLine => booted
           /\ booted => irq_routines = Drivers

IInv == TypeOK /\ Guarded /\ Vectors /\ InService /\ Counted /\ Enabled

-----------------------------------------------------------------------------
(* The controllers *)

\* The chosen line is one of the lines to choose from.
LEMMA MostUrgentIsIn ==
    ASSUME NEW S, S \subseteq Irqs, S # {}
    PROVE  MostUrgent(S) \in S
<1>. DEFINE T == {Rank(l) : l \in S}
<1>1. \A l \in Irqs : Rank(l) \in Nat
  BY DEF Rank, Irqs, Slave, Cascade
<1>2. T \in SUBSET Nat /\ T # {}
  BY <1>1
<1>3. PICK n \in T : \A k \in T : n <= k
  <2>. DEFINE R == OpToRel(<, Nat)
  <2>1. IsWellFoundedOn(R, Nat)
    BY NatLessThanWellFounded
  <2>2. \A k, n \in Nat : k < n => <<k, n>> \in R
    BY DEF OpToRel
  <2>. HIDE DEF R
  <2>3. \E n \in T : \A k \in T : ~(<<k, n>> \in R)
    BY <1>2, <2>1, WFMin
  <2>4. \E n \in T : \A k \in T : ~(k < n)
    BY <1>2, <2>2, <2>3
  <2>5. \A k, n \in Nat : ~(k < n) => n <= k
    OBVIOUS
  <2>. HIDE DEF T
  <2>. QED BY <1>2, <2>4, <2>5
<1>4. PICK l \in S : n = Rank(l)
  BY <1>3
<1>5. \A j \in S : Rank(l) <= Rank(j)
  BY <1>3, <1>4
<1>. QED BY <1>4, <1>5 DEF MostUrgent

LEMMA ReadyLines ==
    ASSUME TypeOK
    PROVE  Ready \subseteq irr /\ Ready \subseteq Lines /\ Ready \subseteq Irqs
BY IrqAssumption DEF IrqAssumption, TypeOK, Ready

LEMMA TakenLine ==
    ASSUME TypeOK, Ready # {}
    PROVE  MostUrgent(Ready) \in Lines /\ MostUrgent(Ready) \in Irqs
BY ReadyLines, MostUrgentIsIn

\* A non-specific EOI clears the one bit there is.
LEMMA EoiClearsOne ==
    ASSUME NEW bank, NEW v \in Int, isr \cap bank \subseteq {v}
    PROVE  Eoi(bank) = isr \ bank
<1>1. CASE isr \cap bank = {}
  BY <1>1 DEF Eoi
<1>2. CASE isr \cap bank # {}
  <2>1. isr \cap bank = {v}
    BY <1>2
  <2>2. Lowest({v}) = v
    BY DEF Lowest
  <2>3. Eoi(bank) = isr \ {v}
    BY <1>2, <2>1, <2>2 DEF Eoi
  <2>. QED BY <2>1, <2>3
<1>. QED BY <1>1, <1>2

LEMMA CountUp ==
    ASSUME NEW f \in [Irqs -> Nat], NEW v \in Irqs
    PROVE  /\ [f EXCEPT ![v] = @ + 1] \in [Irqs -> Nat]
           /\ \A i \in Irqs : [f EXCEPT ![v] = @ + 1][i] = f[i] + (IF v = i THEN 1 ELSE 0)
OBVIOUS

-----------------------------------------------------------------------------
(* Frames *)

LEMMA TopFrame ==
    ASSUME stack \in Seq(Frames), stack # <<>>
    PROVE  Len(stack) \in Nat \ {0} /\ Head(stack) = Top /\ Top \in Frames
<1>1. Len(stack) \in Nat \ {0}
  BY EmptySeq
<1>2. Top \in Frames
  BY <1>1, ElementOfSeq DEF Top
<1>. QED BY <1>1, <1>2 DEF Top

LEMMA OneOfTwo == \A n \in Nat \ {0} : n <= 2 => n = 1 \/ n = 2
OBVIOUS

LEMMA FrameMoves ==
    ASSUME stack \in Seq(Frames), stack # <<>>,
           NEW p \in HandlerSteps \cup {"fault"}, GoTo(p)
    PROVE  /\ stack' \in Seq(Frames) /\ Len(stack') = Len(stack) /\ stack' # <<>>
           /\ Top'.at = p /\ Top'.vector = Top.vector /\ Top'.resume = Top.resume
           /\ Len(stack) = 2 => stack'[2] = stack[2]
<1>1. Len(stack) \in Nat \ {0} /\ Top \in Frames
  BY TopFrame
<1>2. stack' = [stack EXCEPT ![1] = [Top EXCEPT !.at = p]]
  BY DEF GoTo, Top
<1>3. [Top EXCEPT !.at = p] \in Frames
  BY <1>1 DEF Frames, HandlerSteps
<1>4. /\ stack' \in Seq(Frames) /\ Len(stack') = Len(stack)
      /\ stack'[1] = [Top EXCEPT !.at = p]
      /\ \A j \in 1..Len(stack) : j # 1 => stack'[j] = stack[j]
  BY <1>1, <1>2, <1>3, ExceptSeq
<1>5. stack' # <<>>
  BY <1>1, <1>4
<1>6. Len(stack) = 2 => stack'[2] = stack[2]
  BY <1>4
<1>. QED BY <1>1, <1>4, <1>5, <1>6 DEF Top, Frames

LEMMA FrameBegins ==
    ASSUME NEW v \in Irqs \cup {NoLine}, NEW p \in HandlerSteps \cup {"cli"},
           iflag \in BOOLEAN, stack \in Seq(Frames), stack' = <<Frame(v, p)>> \o stack
    PROVE  /\ stack' \in Seq(Frames) /\ Len(stack') = Len(stack) + 1 /\ stack' # <<>>
           /\ Top'.at = p /\ Top'.vector = v /\ Top'.resume = iflag
           /\ Len(stack) = 1 => stack'[2] = Top
<1>. DEFINE new == <<Frame(v, p)>>
<1>1. Frame(v, p) \in Frames
  BY DEF Frame, Frames, HandlerSteps
<1>2. new \in Seq(Frames) /\ Len(new) = 1 /\ new[1] = Frame(v, p)
  BY <1>1
<1>. HIDE DEF new
<1>3. stack' = new \o stack
  BY DEF new
<1>4. /\ stack' \in Seq(Frames) /\ Len(stack') = Len(stack) + 1 /\ Len(stack) \in Nat
      /\ \A k \in 1..Len(stack') : stack'[k] = IF k <= 1 THEN new[k] ELSE stack[k - 1]
  BY <1>2, <1>3, ConcatProperties, LenProperties
<1>5. stack'[1] = Frame(v, p)
  BY <1>2, <1>4
<1>6. Len(stack) = 1 => stack'[2] = stack[1]
  BY <1>4
<1>7. stack' # <<>>
  BY <1>4
<1>. QED BY <1>4, <1>5, <1>6, <1>7 DEF Top, Frame

LEMMA FrameEnds ==
    ASSUME stack \in Seq(Frames), stack # <<>>, Len(stack) <= 2, stack' = Tail(stack)
    PROVE  /\ stack' \in Seq(Frames)
           /\ \/ stack' = <<>> /\ Len(stack') = 0
              \/ Len(stack) = 2 /\ Len(stack') = 1 /\ stack' # <<>> /\ Top' = stack[2]
<1>1. Len(stack) \in Nat \ {0}
  BY EmptySeq
<1>2. /\ stack' \in Seq(Frames) /\ Len(stack') = Len(stack) - 1
      /\ \A k \in 1..Len(stack') : stack'[k] = stack[k + 1]
  BY HeadTailProperties
<1>3. CASE Len(stack) = 1
  BY <1>2, <1>3, EmptySeq
<1>4. CASE Len(stack) = 2
  <2>0. Len(stack') = 1
    BY <1>2, <1>4
  <2>1. Len(stack') = 1 /\ stack'[1] = stack[2]
    BY SMTT(30), <1>2, <2>0
  <2>. QED BY <1>2, <1>4, <2>1 DEF Top
<1>. QED BY <1>1, <1>2, <1>3, <1>4

-----------------------------------------------------------------------------
(* The steps *)

LEMMA InitIInv == Init => IInv
<1>. SUFFICES ASSUME Init PROVE IInv
  OBVIOUS
<1>1. TypeOK
  <2>1. Zero \in [Irqs -> Nat]
    BY DEF Zero
  <2>2. 0 \in 0..MaxRaised
    BY IrqAssumption DEF IrqAssumption
  <2>. QED BY <2>1, <2>2, EmptySeq DEF Init, TypeOK
<1>2. Len(stack) = 0 /\ stack = <<>>
  BY EmptySeq DEF Init
<1>3. Guarded /\ Vectors /\ InService /\ Enabled
  BY <1>2 DEF Init, Guarded, Vectors, InService, Enabled
<1>4. Counted
  BY <1>2 DEF Init, Counted, Uncounted, Unjudged, Zero
<1>. QED BY <1>1, <1>3, <1>4 DEF IInv

\* The steps of devices and of the INTR line leave frames and bits alone.
LEMMA DevicesKeepIInv ==
    ASSUME IInv, NEW l \in Lines, Raise(l) \/ Withdraw(l) \/ Stop
    PROVE  IInv'
<1>1. /\ UNCHANGED <<isr, iflag, shadow, stack, user, kernel, counts, real, faked>>
      /\ irr' \subseteq Lines /\ raised' \in 0..MaxRaised
  <2>1. CASE Raise(l)
    <3>1. raised \in 0..MaxRaised /\ MaxRaised \in Int /\ raised < MaxRaised
      BY <2>1, IrqAssumption DEF IrqAssumption, IInv, TypeOK, Raise
    <3>2. raised + 1 \in 0..MaxRaised
      BY <3>1
    <3>. QED BY <2>1, <3>2 DEF Raise, IInv, TypeOK, cpu
  <2>2. CASE Withdraw(l)
    BY <2>2 DEF Withdraw, IInv, TypeOK, cpu, history
  <2>3. CASE Stop
    BY <2>3 DEF Stop, IInv, TypeOK, pic, history
  <2>. QED BY <2>1, <2>2, <2>3
<1>2. /\ asked' \in Lines \cup {NoLine}
      /\ stack # <<>> /\ asked' # NoLine => Top.at = "cli"
      /\ asked' # NoLine => booted
  <2>1. CASE Raise(l) \/ Withdraw(l)
    BY <2>1 DEF Raise, Withdraw, IInv, TypeOK, Guarded, Enabled, cpu
  <2>2. CASE Stop
    <3>1. asked' \in Lines
      BY <2>2, TakenLine DEF Stop, IInv
    <3>2. (stack # <<>> => Top.at = "cli") /\ booted
      BY <2>2 DEF Stop, IInv, Guarded, Enabled
    <3>. QED BY <3>1, <3>2
  <2>. QED BY <2>1, <2>2
<1>3. TypeOK'
  BY <1>1, <1>2 DEF IInv, TypeOK, kernel, counts
<1>4. Guarded' /\ Vectors' /\ InService' /\ Enabled'
  BY <1>1, <1>2 DEF IInv, Guarded, Vectors, InService, Enabled, Top, kernel
<1>5. Counted'
  BY <1>1 DEF IInv, Counted, Uncounted, Unjudged, Top, counts
<1>. QED BY <1>3, <1>4, <1>5 DEF IInv

\* A frame begins with nothing in service but its own vector.
LEMMA InterruptsKeepIInv ==
    ASSUME IInv, Acknowledge \/ AcknowledgeNothing
    PROVE  IInv'
<1>1. /\ asked # NoLine /\ ~user /\ isr = {} /\ booted
      /\ stack # <<>> => Top.at = "cli" /\ Top.vector = NoLine /\ Len(stack) = 1
      /\ stack \in Seq(Frames)
  <2>1. asked # NoLine /\ stack \in Seq(Frames) /\ (stack # <<>> => Top.at = "cli")
    BY DEF Acknowledge, AcknowledgeNothing, IInv, TypeOK, Guarded
  <2>2. stack # <<>> => Top.vector = NoLine
    BY <2>1 DEF IInv, Vectors
  <2>3. stack # <<>> => Len(stack) \in Nat \ {0} /\ Len(stack) <= 2 /\ Len(stack) # 2
    BY <2>1, <2>2, TopFrame DEF IInv, Guarded
  <2>4. stack # <<>> => Len(stack) = 1
    BY <2>3, OneOfTwo, Zenon
  <2>5. ~user /\ isr = {} /\ booted
    BY <2>1 DEF IInv, Guarded, InService, Enabled
  <2>. QED BY <2>1, <2>2, <2>4, <2>5
<1>2. PICK v \in Irqs :
         /\ Enter(v)
         /\ isr' \subseteq Served(v)
         /\ irr' \subseteq irr
         /\ \/ /\ v \in isr' /\ real' = [real EXCEPT ![v] = @ + 1] /\ faked' = faked
            \/ /\ v \notin isr' /\ faked' = [faked EXCEPT ![v] = @ + 1] /\ real' = real
  <2>1. CASE Acknowledge
    <3>1. MostUrgent(Ready) \in Irqs
      BY <2>1, TakenLine DEF Acknowledge, IInv
    <3>. QED BY <1>1, <2>1, <3>1 DEF Acknowledge, Served
  <2>2. CASE AcknowledgeNothing
    <3>1. PICK v \in {7} \cup (IF asked \in Slave THEN {15} ELSE {}) :
             /\ Enter(v)
             /\ isr' = isr \cup (Served(v) \ {v})
             /\ faked' = [faked EXCEPT ![v] = @ + 1]
             /\ UNCHANGED <<irr, real>>
      BY <2>2 DEF AcknowledgeNothing
    <3>2. v \in Irqs
      BY <3>1 DEF Irqs
    <3>. QED BY <1>1, <3>1, <3>2
  <2>. QED BY <2>1, <2>2
<1>3. stack' = <<Frame(v, "check")>> \o stack
  BY <1>2 DEF Enter
<1>4. /\ stack' \in Seq(Frames) /\ Len(stack') = Len(stack) + 1 /\ stack' # <<>>
      /\ Top'.at = "check" /\ Top'.vector = v
      /\ Len(stack) = 1 => stack'[2] = Top
  BY <1>1, <1>3, FrameBegins DEF IInv, TypeOK, HandlerSteps
<1>5. Served(v) \subseteq Irqs
  BY DEF Served, Irqs, Cascade
<1>6. TypeOK'
  <2>1. real' \in [Irqs -> Nat] /\ faked' \in [Irqs -> Nat]
    <3>1. real \in [Irqs -> Nat] /\ faked \in [Irqs -> Nat]
      BY DEF IInv, TypeOK
    <3>2. /\ [real EXCEPT ![v] = @ + 1] \in [Irqs -> Nat]
          /\ [faked EXCEPT ![v] = @ + 1] \in [Irqs -> Nat]
      BY <3>1, CountUp
    <3>. QED BY <1>2, <3>1, <3>2
  <2>2. irr' \subseteq Lines /\ isr' \subseteq Irqs
    BY <1>2, <1>5 DEF IInv, TypeOK
  <2>. QED BY <1>2, <1>4, <2>1, <2>2 DEF Enter, IInv, TypeOK, kernel, counts
<1>7. Guarded' /\ Vectors' /\ InService' /\ Enabled'
  <2>1. Guarded'
    <3>1. Len(stack) = 0 \/ (Len(stack) = 1 /\ stack # <<>>)
      BY <1>1, EmptySeq
    <3>2. /\ Len(stack') <= 2
          /\ Len(stack') = 2 => stack'[2].vector = NoLine /\ stack'[2].at = "cli"
      <4>1. CASE Len(stack) = 0
        BY <1>4, <4>1
      <4>2. CASE Len(stack) = 1 /\ stack # <<>>
        <5>1. Len(stack') = 2 /\ stack'[2] = Top
          BY <1>4, <4>2
        <5>. QED BY <1>1, <4>2, <5>1
      <4>. QED BY <3>1, <4>1, <4>2
    <3>3. Top'.vector # NoLine
      BY <1>4 DEF Irqs, NoLine
    <3>. QED BY <1>1, <1>2, <1>4, <3>2, <3>3 DEF Enter, Guarded
  <2>2. Vectors'
    BY <1>4 DEF Vectors
  <2>3. InService'
    BY <1>2, <1>4 DEF InService
  <2>4. Enabled'
    BY <1>1, <1>2 DEF Enter, IInv, Enabled, kernel
  <2>. QED BY <2>1, <2>2, <2>3, <2>4
<1>8. Counted'
  <2>. SUFFICES ASSUME NEW i \in Irqs
                PROVE  /\ irq_counts'[i] + Uncounted(i)' = real'[i] + faked'[i]
                       /\ irq_spurious'[i] + Unjudged(i)' = faked'[i]
    BY DEF Counted
  <2>1. /\ irq_counts[i] \in Nat /\ irq_spurious[i] \in Nat
        /\ real[i] \in Nat /\ faked[i] \in Nat
        /\ real \in [Irqs -> Nat] /\ faked \in [Irqs -> Nat]
    BY DEF IInv, TypeOK
  <2>2. irq_counts[i] = real[i] + faked[i] /\ irq_spurious[i] = faked[i]
    <3>1. Uncounted(i) = 0 /\ Unjudged(i) = 0
      BY <1>1 DEF Uncounted, Unjudged
    <3>. QED BY <2>1, <3>1 DEF IInv, Counted
  <2>3. irq_counts' = irq_counts /\ irq_spurious' = irq_spurious
    BY <1>2 DEF Enter, counts
  <2>4. /\ Uncounted(i)' = IF v = i THEN 1 ELSE 0
        /\ Unjudged(i)' = IF v = i /\ i \notin isr' THEN 1 ELSE 0
    BY <1>4 DEF Uncounted, Unjudged
  <2>. QED BY <1>2, <2>1, <2>2, <2>3, <2>4
<1>. QED BY <1>6, <1>7, <1>8 DEF IInv

\* What the steps of a handler have in common: the frame moves on to p.
LEMMA MovingFrame ==
    ASSUME IInv, NEW p \in HandlerSteps \ {"check", "iret"}, GoTo(p),
           stack # <<>>, asked = NoLine, ~user, Top.at \in HandlerSteps,
           UNCHANGED <<irr, iflag, shadow, asked, user, kernel, history>>,
           p = "eoi_slave" => Top.vector \in Slave,
           Top.at # "iret"
    PROVE  /\ stack' \in Seq(Frames) /\ stack' # <<>>
           /\ Top'.at = p /\ Top'.vector = Top.vector /\ Top.vector \in Irqs
           /\ Guarded' /\ Vectors' /\ Enabled'
<1>1. stack \in Seq(Frames)
  BY DEF IInv, TypeOK
<1>2. /\ stack' \in Seq(Frames) /\ Len(stack') = Len(stack) /\ stack' # <<>>
      /\ Top'.at = p /\ Top'.vector = Top.vector
      /\ Len(stack) = 2 => stack'[2] = stack[2]
  BY <1>1, FrameMoves
<1>3. Top.vector \in Irqs
  BY DEF IInv, Vectors
<1>4. ~iflag
  BY DEF IInv, Guarded, HandlerSteps
<1>5. Guarded' /\ Vectors' /\ Enabled'
  BY <1>2, <1>3, <1>4 DEF IInv, Guarded, Vectors, Enabled, kernel, HandlerSteps
<1>. QED BY <1>2, <1>3, <1>5

LEMMA CheckKeepsIInv ==
    ASSUME IInv, CheckSpurious
    PROVE  IInv'
<1>1. stack # <<>> /\ asked = NoLine /\ ~user /\ Head(stack) = Top /\ Top.at = "check"
  BY TopFrame DEF CheckSpurious, At, IInv, TypeOK, Guarded
<1>2. /\ stack' \in Seq(Frames) /\ stack' # <<>>
      /\ Top'.at = "routine" /\ Top'.vector = Top.vector /\ Top.vector \in Irqs
      /\ Guarded' /\ Vectors' /\ Enabled'
  BY <1>1, MovingFrame DEF CheckSpurious, HandlerSteps, pic
<1>3. irq_spurious' = IF Top.vector \in isr THEN irq_spurious
                      ELSE [irq_spurious EXCEPT ![Top.vector] = @ + 1]
  BY <1>1 DEF CheckSpurious, vector
<1>4. /\ irq_spurious' \in [Irqs -> Nat]
      /\ \A i \in Irqs : irq_spurious'[i] = irq_spurious[i] + Unjudged(i)
  BY SMTT(30), <1>1, <1>2, <1>3, CountUp DEF IInv, TypeOK, Unjudged
<1>5. TypeOK'
  BY <1>2, <1>4 DEF CheckSpurious, IInv, TypeOK, pic, kernel, history
<1>6. InService'
  BY <1>1, <1>2 DEF CheckSpurious, IInv, InService, pic
<1>7. Counted'
  <2>. SUFFICES ASSUME NEW i \in Irqs
                PROVE  /\ irq_counts'[i] + Uncounted(i)' = real'[i] + faked'[i]
                       /\ irq_spurious'[i] + Unjudged(i)' = faked'[i]
    BY DEF Counted
  <2>1. Uncounted(i)' = Uncounted(i) /\ Unjudged(i)' = 0
    BY <1>1, <1>2 DEF Uncounted, Unjudged
  <2>2. irq_counts' = irq_counts /\ real' = real /\ faked' = faked
    BY DEF CheckSpurious, history
  <2>3. irq_spurious'[i] \in Nat
    BY <1>4
  <2>. QED BY <1>4, <2>1, <2>2, <2>3 DEF IInv, Counted
<1>. QED BY <1>2, <1>5, <1>6, <1>7 DEF IInv

\* The routine and the two EOIs count nothing.
LEMMA AckKeepsIInv ==
    ASSUME IInv, CallRoutine \/ AckSlave \/ AckMaster
    PROVE  IInv'
<1>1. /\ stack # <<>> /\ asked = NoLine /\ ~user /\ Head(stack) = Top
      /\ Top.at \in {"routine", "eoi_slave", "eoi_master"}
      /\ vector = Top.vector
  BY TopFrame DEF CallRoutine, AckSlave, AckMaster, At, vector, IInv, TypeOK, Guarded
<1>2. PICK p \in {"eoi_slave", "eoi_master", "count"} :
         /\ GoTo(p)
         /\ p = "eoi_slave" => CallRoutine /\ Top.vector \in Slave
         /\ p = "eoi_master" => \/ CallRoutine /\ Top.vector \notin Slave
                                \/ AckSlave
         /\ p = "count" => AckMaster
  BY <1>1 DEF CallRoutine, AckSlave, AckMaster
<1>3. UNCHANGED <<irr, iflag, shadow, asked, user, kernel, counts, history>>
  BY DEF CallRoutine, AckSlave, AckMaster, pic
<1>4. /\ stack' \in Seq(Frames) /\ stack' # <<>>
      /\ Top'.at = p /\ Top'.vector = Top.vector /\ Top.vector \in Irqs
      /\ Guarded' /\ Vectors' /\ Enabled'
  BY <1>1, <1>2, <1>3, MovingFrame DEF HandlerSteps
<1>5. Top.vector \in Int /\ (Top.vector \in Slave <=> ~(Top.vector \in Master))
  BY <1>4 DEF Irqs, Slave, Master
<1>6. isr' \subseteq Irqs /\ InService'
  <2>1. CASE CallRoutine
    <3>1. isr' = isr /\ isr \subseteq Served(Top.vector) /\ isr \subseteq Irqs
      BY <1>1, <2>1 DEF CallRoutine, At, IInv, TypeOK, InService, pic
    <3>2. p # "count"
      BY <1>1, <1>2, <2>1 DEF CallRoutine, AckMaster, At
    <3>3. p = "eoi_master" => Top.vector \notin Slave
      BY <1>1, <1>2, <2>1 DEF CallRoutine, AckSlave, At
    <3>. QED BY <1>2, <1>4, <3>1, <3>2, <3>3 DEF InService, Served
  <2>2. CASE AckSlave
    <3>1. Top.at = "eoi_slave" /\ isr' = Eoi(Slave) /\ p = "eoi_master"
      BY <1>1, <1>2, <2>2 DEF CallRoutine, AckSlave, AckMaster, At
    <3>2. Top.vector \in Slave /\ isr \subseteq {Top.vector, Cascade} /\ isr \subseteq Irqs
      BY <1>1, <3>1 DEF IInv, Vectors, TypeOK, InService, Served
    <3>3. Cascade \notin Slave
      BY DEF Cascade, Slave
    <3>4. isr' = isr \ Slave
      BY <1>5, <3>1, <3>2, <3>3, EoiClearsOne
    <3>5. isr' \subseteq {Cascade}
      BY <3>2, <3>4
    <3>. QED BY <1>4, <3>1, <3>2, <3>4, <3>5 DEF InService
  <2>3. CASE AckMaster
    <3>1. Top.at = "eoi_master" /\ isr' = Eoi(Master) /\ p = "count"
      BY <1>1, <1>2, <2>3 DEF CallRoutine, AckSlave, AckMaster, At
    <3>. DEFINE v == IF Top.vector \in Slave THEN Cascade ELSE Top.vector
    <3>2. isr \subseteq {v} /\ v \in Int /\ v \in Master
      BY <1>1, <1>5, <3>1 DEF IInv, InService, Cascade, Master
    <3>3. isr' = isr \ Master
      BY <3>1, <3>2, EoiClearsOne
    <3>4. isr' = {}
      BY <3>2, <3>3
    <3>. QED BY <1>4, <3>1, <3>4 DEF InService
  <2>. QED BY <2>1, <2>2, <2>3
<1>7. TypeOK'
  BY <1>3, <1>4, <1>6 DEF IInv, TypeOK, kernel, counts, history
<1>8. Counted'
  <2>1. \A i \in Irqs : Uncounted(i)' = Uncounted(i)
    BY <1>1, <1>4 DEF Uncounted
  <2>2. \A i \in Irqs : Unjudged(i)' = 0 /\ Unjudged(i) = 0
    BY <1>1, <1>4 DEF Unjudged
  <2>. QED BY <1>3, <2>1, <2>2 DEF IInv, Counted, counts, history
<1>. QED BY <1>4, <1>6, <1>7, <1>8 DEF IInv

LEMMA CountKeepsIInv ==
    ASSUME IInv, CountIrq
    PROVE  IInv'
<1>1. /\ stack # <<>> /\ asked = NoLine /\ ~user /\ Head(stack) = Top /\ Top.at = "count"
      /\ vector = Top.vector
  BY TopFrame DEF CountIrq, At, vector, IInv, TypeOK, Guarded
<1>2. /\ stack' \in Seq(Frames) /\ stack' # <<>>
      /\ Top'.at = "sti" /\ Top'.vector = Top.vector /\ Top.vector \in Irqs
      /\ Guarded' /\ Vectors' /\ Enabled'
  BY <1>1, MovingFrame DEF CountIrq, HandlerSteps, pic
<1>3. irq_counts' = [irq_counts EXCEPT ![Top.vector] = @ + 1] /\ irq_counts \in [Irqs -> Nat]
  BY <1>1 DEF CountIrq, IInv, TypeOK
<1>4. /\ irq_counts' \in [Irqs -> Nat]
      /\ \A i \in Irqs : irq_counts'[i] = irq_counts[i] + (IF Top.vector = i THEN 1 ELSE 0)
  BY <1>2, <1>3, CountUp
<1>5. TypeOK'
  BY <1>2, <1>4 DEF CountIrq, IInv, TypeOK, pic, kernel, history
<1>6. InService'
  BY <1>1, <1>2 DEF CountIrq, IInv, InService, pic
<1>7. Counted'
  <2>. SUFFICES ASSUME NEW i \in Irqs
                PROVE  /\ irq_counts'[i] + Uncounted(i)' = real'[i] + faked'[i]
                       /\ irq_spurious'[i] + Unjudged(i)' = faked'[i]
    BY DEF Counted
  <2>1. /\ Uncounted(i) = (IF Top.vector = i THEN 1 ELSE 0) /\ Uncounted(i)' = 0
        /\ Unjudged(i) = 0 /\ Unjudged(i)' = 0
    BY <1>1, <1>2 DEF Uncounted, Unjudged
  <2>2. irq_spurious' = irq_spurious /\ real' = real /\ faked' = faked
    BY DEF CountIrq, history
  <2>3. irq_counts'[i] \in Nat /\ irq_counts'[i] = irq_counts[i] + Uncounted(i)
    BY <1>4, <2>1
  <2>. QED BY <2>1, <2>2, <2>3 DEF IInv, Counted
<1>. QED BY <1>2, <1>5, <1>6, <1>7 DEF IInv

\* sti is shadowed for the one instruction that follows, the iret.
LEMMA StiKeepsIInv ==
    ASSUME IInv, StubSti
    PROVE  IInv'
<1>1. /\ stack # <<>> /\ asked = NoLine /\ ~user /\ Head(stack) = Top /\ Top.at = "sti"
      /\ stack \in Seq(Frames)
  BY TopFrame DEF StubSti, At, IInv, TypeOK
<1>2. /\ stack' \in Seq(Frames) /\ Len(stack') = Len(stack) /\ stack' # <<>>
      /\ Top'.at = "iret" /\ Top'.vector = Top.vector
      /\ Len(stack) = 2 => stack'[2] = stack[2]
  BY <1>1, FrameMoves DEF StubSti, HandlerSteps
<1>3. TypeOK'
  BY <1>2 DEF StubSti, IInv, TypeOK, pic, kernel, counts, history
<1>4. Guarded' /\ Vectors' /\ InService' /\ Enabled'
  BY <1>1, <1>2 DEF StubSti, IInv, Guarded, Vectors, InService, Enabled, HandlerSteps,
                    pic, kernel
<1>5. Counted'
  <2>1. \A i \in Irqs : /\ Uncounted(i)' = 0 /\ Uncounted(i) = 0
                        /\ Unjudged(i)' = 0 /\ Unjudged(i) = 0
    BY <1>1, <1>2 DEF Uncounted, Unjudged
  <2>. QED BY <2>1 DEF StubSti, IInv, Counted, counts, history
<1>. QED BY <1>3, <1>4, <1>5 DEF IInv

LEMMA IretKeepsIInv ==
    ASSUME IInv, StubIret
    PROVE  IInv'
<1>1. /\ stack # <<>> /\ asked = NoLine /\ ~user /\ Head(stack) = Top /\ Top.at = "iret"
      /\ Top \in Frames /\ isr = {} /\ booted
  BY TopFrame DEF StubIret, At, IInv, TypeOK, InService, Enabled
<1>2. /\ stack' \in Seq(Frames)
      /\ \/ stack' = <<>> /\ Len(stack') = 0
         \/ /\ Len(stack') = 1 /\ stack' # <<>>
            /\ Top'.vector = NoLine /\ Top'.at = "cli"
  <2>1. stack \in Seq(Frames) /\ Len(stack) <= 2 /\ stack' = Tail(stack)
    BY DEF StubIret, IInv, TypeOK, Guarded
  <2>2. /\ stack' \in Seq(Frames)
        /\ \/ stack' = <<>> /\ Len(stack') = 0
           \/ Len(stack) = 2 /\ Len(stack') = 1 /\ stack' # <<>> /\ Top' = stack[2]
    BY <1>1, <2>1, FrameEnds
  <2>. QED BY <2>2 DEF IInv, Guarded
<1>3. iflag' \in BOOLEAN
  BY <1>1 DEF StubIret, Frames
<1>4. TypeOK'
  BY <1>2, <1>3 DEF StubIret, IInv, TypeOK, pic, kernel, counts, history
<1>5. Guarded' /\ Vectors' /\ InService' /\ Enabled'
  <2>1. isr' = {} /\ asked' = NoLine /\ ~user' /\ booted' /\ irq_routines' = irq_routines
    BY <1>1 DEF StubIret, pic, kernel
  <2>2. Guarded'
    <3>1. Len(stack') <= 2 /\ Len(stack') # 2
      <4>1. 0 <= 2 /\ 1 <= 2 /\ 0 # 2 /\ 1 # 2
        OBVIOUS
      <4>. QED BY <1>2, <4>1, Zenon
    <3>. QED BY <1>2, <2>1, <3>1 DEF Guarded
  <2>3. Vectors'
    BY <1>2 DEF Vectors, HandlerSteps
  <2>4. InService'
    BY <1>2, <2>1 DEF InService
  <2>5. Enabled'
    BY <1>1, <2>1 DEF IInv, Enabled
  <2>. QED BY <2>2, <2>3, <2>4, <2>5
<1>6. Counted'
  <2>1. \A i \in Irqs : /\ Uncounted(i)' = 0 /\ Uncounted(i) = 0
                        /\ Unjudged(i)' = 0 /\ Unjudged(i) = 0
    BY <1>1, <1>2 DEF Uncounted, Unjudged
  <2>. QED BY <2>1 DEF StubIret, IInv, Counted, counts, history
<1>. QED BY <1>4, <1>5, <1>6 DEF IInv

\* F2 leaves the frame where it is.
LEMMA UserKeepsIInv ==
    ASSUME IInv, jump_usermode
    PROVE  IInv'
<1>1. stack # <<>> /\ Head(stack) = Top /\ Top.at = "routine"
  BY TopFrame DEF jump_usermode, At, IInv, TypeOK, Guarded
<1>2. TypeOK' /\ Vectors' /\ InService' /\ Enabled'
  BY DEF jump_usermode, IInv, TypeOK, Vectors, InService, Enabled, Top, pic, kernel,
         counts, history
<1>3. Guarded'
  BY <1>1 DEF jump_usermode, IInv, Guarded, Top
<1>4. Counted'
  BY DEF jump_usermode, IInv, Counted, Uncounted, Unjudged, Top, pic, counts, history
<1>. QED BY <1>2, <1>3, <1>4 DEF IInv

\* An exception's frame has nothing in service and nothing to count.
LEMMA FaultsKeepIInv ==
    ASSUME IInv, Fault \/ StubCli \/ fault_handler
    PROVE  IInv'
<1>1. CASE Fault
  <2>1. stack = <<>> /\ asked = NoLine /\ ~user /\ booted /\ isr = {}
    BY <1>1 DEF Fault, MainRuns, IInv, InService
  <2>2. /\ stack' \in Seq(Frames) /\ Len(stack') = 1 /\ stack' # <<>>
        /\ Top'.at = "cli" /\ Top'.vector = NoLine
    <3>1. stack' = <<Frame(NoLine, "cli")>> \o stack
      BY <1>1, <2>1 DEF Fault
    <3>2. Len(stack) = 0
      BY <2>1, EmptySeq
    <3>3. /\ stack' \in Seq(Frames) /\ Len(stack') = Len(stack) + 1 /\ stack' # <<>>
          /\ Top'.at = "cli" /\ Top'.vector = NoLine
      <4>1. stack \in Seq(Frames) /\ iflag \in BOOLEAN
        BY DEF IInv, TypeOK
      <4>. QED BY <3>1, <4>1, FrameBegins
    <3>4. 0 + 1 = 1
      OBVIOUS
    <3>. QED BY <3>2, <3>3, <3>4, Zenon
  <2>3. TypeOK'
    BY <1>1, <2>2 DEF Fault, IInv, TypeOK, pic, counts, history
  <2>4. Guarded' /\ Vectors' /\ InService' /\ Enabled'
    BY <1>1, <2>1, <2>2 DEF Fault, IInv, Guarded, Vectors, InService, Enabled,
                            HandlerSteps, pic
  <2>5. Counted'
    <3>1. \A i \in Irqs : /\ Uncounted(i)' = 0 /\ Uncounted(i) = 0
                          /\ Unjudged(i)' = 0 /\ Unjudged(i) = 0
      BY <2>1, <2>2 DEF Uncounted, Unjudged
    <3>. QED BY <1>1, <3>1 DEF Fault, IInv, Counted, counts, history
  <2>. QED BY <2>3, <2>4, <2>5 DEF IInv
<1>2. CASE StubCli \/ fault_handler
  <2>1. /\ stack # <<>> /\ asked = NoLine /\ ~user /\ Head(stack) = Top
        /\ Top.at \in {"cli", "fault"} /\ Top.vector = NoLine
        /\ stack \in Seq(Frames) /\ isr = {}
    BY <1>2, TopFrame DEF StubCli, fault_handler, At, IInv, TypeOK, Vectors, InService
  <2>2. Len(stack) = 1
    <3>1. Len(stack) \in Nat \ {0} /\ Len(stack) <= 2
      BY <2>1, TopFrame DEF IInv, Guarded
    <3>2. Len(stack) # 2
      BY <2>1 DEF IInv, Guarded
    <3>. QED BY <3>1, <3>2, OneOfTwo, Zenon
  <2>3. PICK p \in {"fault", "iret"} : GoTo(p) /\ iflag' = FALSE
    <3>1. CASE StubCli
      BY <3>1 DEF StubCli
    <3>2. CASE fault_handler
      BY <2>1, <3>2 DEF fault_handler, At, IInv, TypeOK, Guarded
    <3>. QED BY <1>2, <3>1, <3>2
  <2>4. /\ stack' \in Seq(Frames) /\ Len(stack') = 1 /\ stack' # <<>>
        /\ Top'.at = p /\ Top'.vector = NoLine
    BY <2>1, <2>2, <2>3, FrameMoves DEF HandlerSteps
  <2>5. UNCHANGED <<pic, shadow, asked, user, kernel, counts, history>>
    BY <1>2 DEF StubCli, fault_handler
  <2>6. TypeOK'
    BY <2>3, <2>4, <2>5 DEF IInv, TypeOK, pic, kernel, counts, history
  <2>7. Guarded' /\ Vectors' /\ InService' /\ Enabled'
    <3>1. Guarded' /\ Vectors'
      BY <2>1, <2>3, <2>4, <2>5 DEF Guarded, Vectors, HandlerSteps
    <3>2. InService' /\ Enabled'
      BY <2>1, <2>4, <2>5 DEF IInv, InService, Enabled, pic, kernel
    <3>. QED BY <3>1, <3>2
  <2>8. Counted'
    <3>1. \A i \in Irqs : /\ Uncounted(i)' = 0 /\ Uncounted(i) = 0
                          /\ Unjudged(i)' = 0 /\ Unjudged(i) = 0
      BY <2>1, <2>4 DEF Uncounted, Unjudged
    <3>. QED BY <2>5, <3>1 DEF IInv, Counted, counts, history
  <2>. QED BY <2>6, <2>7, <2>8 DEF IInv
<1>. QED BY <1>1, <1>2

LEMMA MainKeepsIInv ==
    ASSUME IInv, Booting \/ Main
    PROVE  IInv'
<1>1. stack = <<>> /\ asked = NoLine /\ ~user
  BY DEF Booting, Install, BootSti, Main, Cli, Sti, Work, MainRuns
<1>2. UNCHANGED <<pic, asked, stack, user, counts, history>>
  BY DEF Booting, Install, BootSti, Main, Cli, Sti, Work, EnableInterrupts, cpu
<1>3. /\ iflag' \in BOOLEAN /\ shadow' \in BOOLEAN /\ booted' \in BOOLEAN
      /\ faulting' \in BOOLEAN /\ irq_routines' \subseteq Drivers
      /\ iflag' => booted'
      /\ booted' => irq_routines' = Drivers
  <2>1. CASE \E l \in Drivers : Install(l)
    <3>1. ~booted /\ ~booted' /\ ~iflag /\ ~iflag'
      BY <2>1 DEF Install, IInv, Enabled, cpu
    <3>. QED BY <2>1, <3>1 DEF Install, IInv, TypeOK, cpu
  <2>2. CASE BootSti
    BY <2>2 DEF BootSti, EnableInterrupts, IInv, TypeOK
  <2>3. CASE Cli
    BY <2>3 DEF Cli, IInv, TypeOK, Enabled, kernel
  <2>4. CASE Sti
    BY <2>4 DEF Sti, EnableInterrupts, IInv, TypeOK, Enabled
  <2>5. CASE Work
    BY <2>5 DEF Work, IInv, TypeOK, Enabled, kernel
  <2>. QED BY <2>1, <2>2, <2>3, <2>4, <2>5 DEF Booting, Main
<1>4. TypeOK'
  BY <1>2, <1>3 DEF IInv, TypeOK, pic, counts, history
<1>5. Guarded' /\ Vectors' /\ InService' /\ Enabled'
  <2>1. stack' = <<>> /\ asked' = NoLine /\ ~user' /\ Len(stack') = 0 /\ isr' = {}
    BY <1>1, <1>2 DEF IInv, Guarded, InService, pic
  <2>2. Guarded'
    BY <2>1 DEF Guarded
  <2>3. Vectors' /\ InService'
    BY <2>1 DEF Vectors, InService
  <2>4. Enabled'
    BY <1>3, <2>1 DEF Enabled
  <2>. QED BY <2>2, <2>3, <2>4
<1>6. Counted'
  BY <1>2 DEF IInv, Counted, Uncounted, Unjudged, Top, pic, counts, history
<1>. QED BY <1>4, <1>5, <1>6 DEF IInv

-----------------------------------------------------------------------------
(* Theorems *)

\* The strengthened invariant holds of every behaviour.
THEOREM Inductive == Spec => []IInv
<1>1. IInv /\ [Next]_vars => IInv'
  <2>. SUFFICES ASSUME IInv, [Next]_vars PROVE IInv'
    OBVIOUS
  <2>1. CASE \E l \in Lines : Raise(l) \/ Withdraw(l)
    BY <2>1, DevicesKeepIInv
  <2>2. CASE Stop
    <3>1. Lines # {}
      BY <2>2, ReadyLines DEF Stop, IInv
    <3>. QED BY <2>2, <3>1, DevicesKeepIInv
  <2>3. CASE Acknowledge \/ AcknowledgeNothing
    BY <2>3, InterruptsKeepIInv
  <2>4. CASE Handler
    BY <2>4, CheckKeepsIInv, AckKeepsIInv, UserKeepsIInv, CountKeepsIInv, StiKeepsIInv,
       IretKeepsIInv DEF Handler
  <2>5. CASE Fault \/ StubCli \/ fault_handler
    BY <2>5, FaultsKeepIInv
  <2>6. CASE Booting \/ Main
    BY <2>6, MainKeepsIInv
  <2>7. CASE UNCHANGED vars
    BY <2>7 DEF vars, pic, cpu, kernel, counts, history, IInv, TypeOK, Guarded, Vectors,
                InService, Counted, Uncounted, Unjudged, Enabled, Top
  <2>. QED BY <2>1, <2>2, <2>3, <2>4, <2>5, <2>6, <2>7 DEF Next, UserRuns
<1>. QED BY InitIInv, <1>1, PTL DEF Spec

\* All state keeps its type: counters count lines, frames carry lines.
THEOREM TypeCorrect == Spec => []TypeOK
<1>1. IInv => TypeOK
  BY DEF IInv
<1>. QED BY Inductive, <1>1, PTL

\* Frames of interrupts never nest, though the stub enables interrupts before its
\* iret and the gates of exceptions leave them enabled.
THEOREM Flat == Spec => []NoNesting
<1>1. ASSUME IInv PROVE NoNesting
  <2>1. Len(stack) = 2 => stack[1].vector # NoLine
    BY <1>1 DEF IInv, Guarded, Top
  <2>. QED BY <1>1, <2>1 DEF IInv, Guarded, NoNesting
<1>. QED BY Inductive, <1>1, PTL

\* An exception's frame, and no frame, leave nothing to clear and to count.
LEMMA BetweenSteps ==
    ASSUME IInv, BetweenInterrupts
    PROVE  stack = <<>> \/ Top.at \in {"iret", "cli", "fault"}
<1>. SUFFICES ASSUME stack # <<>> PROVE Top.at \in {"iret", "cli", "fault"}
  OBVIOUS
<1>1. Top \in Frames /\ Top.vector = NoLine
  BY TopFrame DEF IInv, TypeOK, BetweenInterrupts
<1>2. NoLine \notin Irqs
  BY DEF NoLine, Irqs
<1>3. Top.at \in HandlerSteps \cup {"cli", "fault"}
  BY <1>1 DEF Frames, HandlerSteps
<1>. QED BY <1>1, <1>2, <1>3 DEF IInv, Vectors, HandlerSteps

\* Unconditional EOIs leave nothing in service, spurious vectors or not.
THEOREM Balanced == Spec => []NothingLeftInService
<1>1. ASSUME IInv PROVE NothingLeftInService
  BY <1>1, BetweenSteps DEF IInv, InService, NothingLeftInService
<1>. QED BY Inductive, <1>1, PTL

\* Between interrupts the counters are the numbers of vectors delivered and invented.
THEOREM Exact == Spec => []CountsExact
<1>1. ASSUME IInv PROVE CountsExact
  <2>. SUFFICES ASSUME BetweenInterrupts, NEW i \in Irqs
                PROVE  irq_counts[i] = real[i] + faked[i] /\ irq_spurious[i] = faked[i]
    BY DEF CountsExact
  <2>1. Uncounted(i) = 0 /\ Unjudged(i) = 0
    BY <1>1, BetweenSteps DEF Uncounted, Unjudged
  <2>2. irq_counts[i] \in Nat /\ irq_spurious[i] \in Nat
    BY <1>1 DEF IInv, TypeOK
  <2>. QED BY <1>1, <2>1, <2>2 DEF IInv, Counted
<1>. QED BY Inductive, <1>1, PTL

\* No interrupt of a driver is handled before its routine is installed.
THEOREM Installed == Spec => []RoutineInPlace
<1>1. ASSUME IInv PROVE RoutineInPlace
  <2>. SUFFICES ASSUME NEW k \in 1..Len(stack), stack[k].vector \in Drivers
                PROVE  stack[k].vector \in irq_routines
    BY DEF RoutineInPlace
  <2>1. stack # <<>>
    BY EmptySeq
  <2>. QED BY <1>1, <2>1 DEF IInv, Enabled
<1>. QED BY Inductive, <1>1, PTL
=============================================================================
