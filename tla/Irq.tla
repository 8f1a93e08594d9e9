-------------------------------- MODULE Irq --------------------------------
(***************************************************************************)
(* Interrupts: two cascaded 8259 controllers, the processor's interrupt    *)
(* flag, the stubs of start.s and the dispatcher of isrs.c.                *)
(*                                                                         *)
(* A device raises its line at any time, and noise may withdraw it between *)
(* the moment the processor is told and the moment it asks for the vector: *)
(* the controller then invents vector 7 (or 15).  irq_handler compares the *)
(* vector with the in-service register, calls the routine, sends the EOIs  *)
(* and counts.  F2 leaves the keyboard routine for ring 3 and never comes  *)
(* back.  An exception goes through a trap gate, which leaves IF alone     *)
(* until the cli of its stub, and returns to the instruction that caused   *)
(* it.                                                                     *)
(***************************************************************************)
EXTENDS Integers, Sequences

CONSTANTS Drivers,   \* lines kmain installs a routine for while it boots
          Lines,     \* lines that devices raise
          MaxRaised  \* bound on the requests of a behaviour

Irqs == 0..15
Master == 0..7
Slave == 8..15
KeyboardLine == 1    \* its routine may leave for ring 3
Cascade == 2         \* the master line the slave is connected to
NoLine == 16

ASSUME IrqAssumption == /\ Drivers \subseteq Lines
                        /\ Lines \subseteq Irqs \ {Cascade}
                        /\ MaxRaised \in Nat

VARIABLES irr, isr,       \* request and in-service bits of both controllers
          iflag,          \* the processor takes interrupts
          shadow,         \* it has just executed sti: not before one more instruction
          asked,          \* line for which it was told to stop, NoLine if none
          stack,          \* the handlers under way, innermost first
          user,           \* jump_usermode was executed
          irq_routines,   \* the lines with a routine
          booted,         \* kmain has reached its sti()
          faulting,       \* the next instruction of kmain raises an exception
          irq_counts, irq_spurious,
          raised,         \* history: number of requests
          real, faked     \* history: vectors delivered for a request, and invented

pic == <<irr, isr>>
cpu == <<iflag, shadow, asked, stack, user>>
kernel == <<irq_routines, booted, faulting>>
counts == <<irq_counts, irq_spurious>>
history == <<raised, real, faked>>
vars == <<pic, cpu, kernel, counts, history>>

Zero == [i \in Irqs |-> 0]

Init == /\ irr = {} /\ isr = {}
        /\ iflag = FALSE /\ shadow = FALSE /\ asked = NoLine
        /\ stack = <<>> /\ user = FALSE
        /\ irq_routines = {} /\ booted = FALSE /\ faulting = FALSE
        /\ irq_counts = Zero /\ irq_spurious = Zero
        /\ raised = 0 /\ real = Zero /\ faked = Zero

-----------------------------------------------------------------------------
(* The devices and the controllers *)

Raise(l) == /\ raised < MaxRaised /\ l \notin irr
            /\ irr' = irr \cup {l} /\ raised' = raised + 1
            /\ UNCHANGED <<isr, cpu, kernel, counts, real, faked>>

Withdraw(l) == /\ l \in irr
               /\ irr' = irr \ {l}
               /\ UNCHANGED <<isr, cpu, kernel, counts, history>>

\* Requests of a higher priority than everything in service.
Ready == {l \in irr : /\ \A j \in isr \cap Master :
                            (IF l \in Slave THEN Cascade ELSE l) < j
                      /\ l \in Slave => \A j \in isr \cap Slave : l < j}

\* 0, 1, then the slave's eight lines in the place of the cascade, then 3 to 7.
Rank(l) == IF l \in Slave THEN l - 6 ELSE IF l > Cascade THEN l + 7 ELSE l
MostUrgent(S) == CHOOSE l \in S : \A j \in S : Rank(l) <= Rank(j)
Lowest(S) == CHOOSE l \in S : \A j \in S : l <= j

\* What a vector's handler has to answer for.
Served(v) == {v} \cup (IF v \in Slave THEN {Cascade} ELSE {})

-----------------------------------------------------------------------------
(* The processor *)

\* The processor is between two instructions of kmain and no interrupt pre-empts
\* the next one.
Undisturbed == (iflag /\ ~shadow) => Ready = {}
MainRuns == stack = <<>> /\ asked = NoLine /\ ~user /\ Undisturbed

\* The controller tells the processor, which stops ...
Stop == /\ iflag /\ ~shadow /\ asked = NoLine /\ ~user
        /\ Ready # {}
        /\ asked' = MostUrgent(Ready)
        /\ UNCHANGED <<pic, iflag, shadow, stack, user, kernel, counts, history>>

Frame(v, at) == [vector |-> v, at |-> at, resume |-> iflag]

\* mutant of Enter: the vector is not brought back to 0..15
EnterUnmapped(v) == /\ stack' = <<Frame(v + 32, "check")>> \o stack
                    /\ iflag' = FALSE /\ asked' = NoLine
                    /\ UNCHANGED <<shadow, user, kernel, counts, raised>>

\* ... asks for the vector, and enters the interrupt gate with IF clear.
Enter(v) == /\ stack' = <<Frame(v, "check")>> \o stack
            /\ iflag' = FALSE /\ asked' = NoLine
            /\ UNCHANGED <<shadow, user, kernel, counts, raised>>

Acknowledge ==
    /\ asked # NoLine /\ Ready # {}
    /\ LET v == MostUrgent(Ready)
       IN  /\ Enter(v)
           /\ irr' = irr \ {v} /\ isr' = isr \cup Served(v)
           /\ real' = [real EXCEPT ![v] = @ + 1]
           /\ UNCHANGED faked

\* The request is gone.  If it was the slave's, the master may still hold the
\* cascade and have the slave invent the vector.
AcknowledgeNothing ==
    /\ asked # NoLine /\ Ready = {}
    /\ \E v \in {7} \cup (IF asked \in Slave THEN {15} ELSE {}) :
           /\ Enter(v)
           /\ isr' = isr \cup (Served(v) \ {v})
           /\ faked' = [faked EXCEPT ![v] = @ + 1]
           /\ UNCHANGED <<irr, real>>

-----------------------------------------------------------------------------
(* irq_handler and its stub *)

At(p) == stack # <<>> /\ asked = NoLine /\ ~user /\ Head(stack).at = p
vector == Head(stack).vector
GoTo(p) == stack' = [stack EXCEPT ![1].at = p]
Eoi(bank) == IF isr \cap bank = {} THEN isr ELSE isr \ {Lowest(isr \cap bank)}

\* mutant of CheckSpurious: the request register is read instead
CheckSpuriousIrr ==
    /\ At("check")
    /\ irq_spurious' = IF vector \in irr THEN irq_spurious
                       ELSE [irq_spurious EXCEPT ![vector] = @ + 1]
    /\ GoTo("routine")
    /\ UNCHANGED <<pic, iflag, shadow, asked, user, kernel, irq_counts, history>>

CheckSpurious ==
    /\ At("check")
    /\ irq_spurious' = IF vector \in isr THEN irq_spurious
                       ELSE [irq_spurious EXCEPT ![vector] = @ + 1]
    /\ GoTo("routine")
    /\ UNCHANGED <<pic, iflag, shadow, asked, user, kernel, irq_counts, history>>

\* The routine of the line, if any, is called for invented vectors as well.
CallRoutine ==
    /\ At("routine")
    /\ GoTo(IF vector \in Slave THEN "eoi_slave" ELSE "eoi_master")
    /\ UNCHANGED <<pic, iflag, shadow, asked, user, kernel, counts, history>>

\* keyboard_handler meets F2.
jump_usermode ==
    /\ At("routine") /\ vector = KeyboardLine /\ KeyboardLine \in irq_routines
    /\ user' = TRUE
    /\ UNCHANGED <<pic, iflag, shadow, asked, stack, kernel, counts, history>>

\* mutant of AckSlave: irq_ack only knows the master
AckSlaveNot == /\ At("eoi_slave")
               /\ GoTo("eoi_master")
               /\ UNCHANGED <<pic, iflag, shadow, asked, user, kernel, counts, history>>

AckSlave == /\ At("eoi_slave")
            /\ isr' = Eoi(Slave)
            /\ GoTo("eoi_master")
            /\ UNCHANGED <<irr, iflag, shadow, asked, user, kernel, counts, history>>

\* mutant of AckMaster: irq_ack sends one EOI only
AckMasterElse == /\ At("eoi_master")
                 /\ isr' = IF vector \in Slave THEN isr ELSE Eoi(Master)
                 /\ GoTo("count")
                 /\ UNCHANGED <<irr, iflag, shadow, asked, user, kernel, counts, history>>

AckMaster == /\ At("eoi_master")
             /\ isr' = Eoi(Master)
             /\ GoTo("count")
             /\ UNCHANGED <<irr, iflag, shadow, asked, user, kernel, counts, history>>

CountIrq == /\ At("count")
            /\ irq_counts' = [irq_counts EXCEPT ![vector] = @ + 1]
            /\ GoTo("sti")
            /\ UNCHANGED <<pic, iflag, shadow, asked, user, kernel, irq_spurious, history>>

\* mutant of StubSti: not right before iret
StubStiEarly == /\ At("sti")
                /\ iflag' = TRUE
                /\ GoTo("iret")
                /\ UNCHANGED <<pic, shadow, asked, user, kernel, counts, history>>

StubSti == /\ At("sti")
           /\ iflag' = TRUE /\ shadow' = TRUE
           /\ GoTo("iret")
           /\ UNCHANGED <<pic, asked, user, kernel, counts, history>>

\* iret restores the flags that the gate saved.
StubIret == /\ At("iret")
            /\ stack' = Tail(stack)
            /\ iflag' = Head(stack).resume /\ shadow' = FALSE
            /\ UNCHANGED <<pic, asked, user, kernel, counts, history>>

Handler == \/ CheckSpurious \/ CallRoutine \/ jump_usermode
           \/ AckSlave \/ AckMaster \/ CountIrq \/ StubSti \/ StubIret

-----------------------------------------------------------------------------
(* Exceptions *)

\* The instruction at hand faults.  The gates of vectors 0 to 31 are trap gates.
Fault == /\ booted /\ MainRuns
         /\ faulting' = TRUE
         /\ stack' = <<Frame(NoLine, "cli")>>
         /\ shadow' = FALSE
         /\ UNCHANGED <<pic, iflag, asked, user, irq_routines, booted, counts, history>>

\* The stub's first instruction, unless an interrupt comes before it.
StubCli == /\ At("cli") /\ Undisturbed
           /\ iflag' = FALSE
           /\ GoTo("fault")
           /\ UNCHANGED <<pic, shadow, asked, user, kernel, counts, history>>

\* fault_handler reports; k_panic returns; so does the page fault routine.
fault_handler == /\ At("fault")
                 /\ GoTo("iret")
                 /\ UNCHANGED <<pic, iflag, shadow, asked, user, kernel, counts, history>>

-----------------------------------------------------------------------------
(* kmain *)

\* timer_install, ps2_install: before sti().
Install(l) == /\ ~booted /\ MainRuns /\ l \in Drivers \ irq_routines
              /\ irq_routines' = irq_routines \cup {l}
              /\ UNCHANGED <<pic, cpu, booted, faulting, counts, history>>

EnableInterrupts == /\ iflag' = TRUE /\ shadow' = TRUE
                    /\ UNCHANGED <<pic, asked, stack, user, irq_routines, faulting,
                                   counts, history>>

\* mutant of BootSti: interrupts are enabled before the drivers are installed
BootStiEarly == /\ ~booted /\ MainRuns
                /\ booted' = TRUE
                /\ EnableInterrupts

BootSti == /\ ~booted /\ MainRuns /\ irq_routines = Drivers
           /\ booted' = TRUE
           /\ EnableInterrupts

\* A cli() ... sti() section: the disk driver and its test.
Cli == /\ booted /\ MainRuns /\ ~faulting /\ iflag /\ ~shadow
       /\ iflag' = FALSE
       /\ UNCHANGED <<pic, shadow, asked, stack, user, kernel, counts, history>>

Sti == /\ booted /\ MainRuns /\ ~faulting /\ ~iflag
       /\ EnableInterrupts /\ UNCHANGED booted

\* Any instruction ends the shadow of sti.
Work == /\ booted /\ MainRuns /\ ~faulting /\ shadow
        /\ shadow' = FALSE
        /\ UNCHANGED <<pic, iflag, asked, stack, user, kernel, counts, history>>

Booting == (\E l \in Drivers : Install(l)) \/ BootSti
Main == Cli \/ Sti \/ Work

\* Ring 3 was entered with IF clear, from inside the handler.
UserRuns == user /\ UNCHANGED vars

Next == \/ \E l \in Lines : Raise(l) \/ Withdraw(l)
        \/ Stop \/ Acknowledge \/ AcknowledgeNothing
        \/ Handler \/ Fault \/ StubCli \/ fault_handler
        \/ Booting \/ Main \/ UserRuns

(* The processor goes on executing: it takes an interrupt it is told of,   *)
(* finishes handlers, and kmain boots, leaves its cli() sections and runs  *)
(* again into the exception it has run into.                               *)
Fairness == /\ WF_vars(Stop) /\ WF_vars(Acknowledge \/ AcknowledgeNothing)
            /\ WF_vars(Handler \/ StubCli \/ fault_handler)
            /\ WF_vars(Booting) /\ WF_vars(Sti \/ Work) /\ WF_vars(faulting /\ Fault)

Spec == Init /\ [][Next]_vars /\ Fairness

-----------------------------------------------------------------------------
(* Properties *)

Frames == [vector : Irqs \cup {NoLine}, resume : BOOLEAN,
           at : {"check", "routine", "eoi_slave", "eoi_master", "count",
                 "sti", "iret", "cli", "fault"}]

TypeOK == /\ irr \subseteq Lines /\ isr \subseteq Irqs
          /\ iflag \in BOOLEAN /\ shadow \in BOOLEAN
          /\ asked \in Lines \cup {NoLine}
          /\ stack \in Seq(Frames)
          /\ user \in BOOLEAN /\ booted \in BOOLEAN /\ faulting \in BOOLEAN
          /\ irq_routines \subseteq Drivers
          /\ irq_counts \in [Irqs -> Nat] /\ irq_spurious \in [Irqs -> Nat]
          /\ raised \in 0..MaxRaised
          /\ real \in [Irqs -> Nat] /\ faked \in [Irqs -> Nat]

\* On the one kernel stack an interrupt's frame never meets another interrupt's:
\* the sti of the stub does not let the next one in before its iret (start.s:293).
\* The one frame it may lie on is that of an exception whose trap gate left
\* interrupts enabled and whose stub has not executed its cli yet (start.s:199).
NoNesting == /\ Len(stack) <= 2
             /\ Len(stack) = 2 => /\ stack[1].vector # NoLine
                                  /\ stack[2].vector = NoLine /\ stack[2].at = "cli"

\* No interrupt is being handled; an exception may be.
BetweenInterrupts == stack = <<>> \/ Head(stack).vector = NoLine

\* Between interrupts nothing is left in service, so no line stays blocked: the
\* unconditional EOIs of irq_ack match what was delivered, invented vectors too.
NothingLeftInService == BetweenInterrupts => isr = {}

\* F3 prints the truth: every vector delivered is counted once, and those the
\* controller invented, and only those, are counted as spurious.
CountsExact == BetweenInterrupts => \A i \in Irqs : /\ irq_counts[i] = real[i] + faked[i]
                                                     /\ irq_spurious[i] = faked[i]

\* No interrupt of a driver is taken and acknowledged before its routine is in
\* place, when its byte or tick would be lost (kmain installs before sti()).
RoutineInPlace == \A k \in 1..Len(stack) :
                    stack[k].vector \in Drivers => stack[k].vector \in irq_routines

\* An exception came inside a cli() section: it repeats for ever.
Stuck == \E k \in 1..Len(stack) : ~stack[k].resume

\* A request is taken in the end, unless the processor was lost to ring 3, or
\* to an exception that repeats inside a cli() section.
RequestsAreTaken == \A l \in Lines : l \in irr ~> (l \notin irr \/ user \/ Stuck)

\* isrs.c:511-517: for a spurious IRQ "the interrupt handler must not send an EOI
\* back to the PIC".
NoEoiForSpurious ==
    [][AckSlave \/ (AckMaster /\ vector \in Master) => vector \in isr]_vars
=============================================================================
