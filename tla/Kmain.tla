------------------------------- MODULE Kmain -------------------------------
(***************************************************************************)
(* kmain (main.c) from sti() to its last loop, and what it composes: the   *)
(* timer behind its delays, the disk test, the heap, paging and the tasks. *)
(* todo is what is left of it.  Its waits for a key are left out (module   *)
(* Keyboard); what it prints is Console's.                                 *)
(***************************************************************************)
EXTENDS Timer, Ata, Heap, Paging, Tasks

CONSTANTS Delays,        \* 500, then ten times 100 ms
          BootSizes,     \* init_mm's allocations: 5, 5
          Sizes,         \* kmain's: 4, 8, 20
          UsedPages      \* pages the kernel touches once paging is enabled

\* The kernel stays below 4 MB, the memory of one page table.
ASSUME KmainAssumption == /\ Delays \in Seq(Nat) /\ BootSizes \in Seq(Nat \ {0})
                          /\ Sizes \in Seq(Nat \ {0}) /\ UsedPages \subseteq Indices

VARIABLES todo

vars == <<timervars, atavars, heapvars, pagingvars, taskvars, todo>>

Sequence(op, args) == [i \in DOMAIN args |-> O(op, args[i])]
KmainCode == Sequence("alloc", BootSizes) \o Sti
             \o Sequence("delay", Delays) \o test_harddisk
             \o Sequence("alloc", Sizes)
             \o <<O("paging", 0), O("tasks", 0)>>

KmainInit == /\ TimerInit /\ AtaInit /\ HeapInit /\ PagingInit /\ TasksInit
             /\ todo = KmainCode

-----------------------------------------------------------------------------

At(op) == todo # <<>> /\ Head(todo).op = op /\ Runs /\ ~Delaying
arg == Head(todo).arg
Done == todo' = Tail(todo)
OnlyTimer == UNCHANGED <<atavars, heapvars, pagingvars, taskvars>>
OnlyAta == UNCHANGED <<timervars, heapvars, pagingvars, taskvars>>

Flag == At("if") /\ Done /\ SetIf(arg) /\ OnlyTimer
BeginDelay == At("delay") /\ Done /\ DelayBegin(arg) /\ OnlyTimer
PollDelay == Runs /\ DelayPoll /\ OnlyTimer /\ UNCHANGED todo

DiskCommand == At("cmd") /\ Done /\ Command(arg) /\ OnlyAta
DiskWait == /\ At("wait") /\ Wait(arg) /\ OnlyAta
            /\ todo' = IF Waited(arg) THEN Tail(todo) ELSE todo
DiskData == /\ \/ At("skip") /\ skip(arg)
               \/ At("outw") /\ outw(arg)
               \/ At("inw") /\ inw(arg)
            /\ Done /\ OnlyAta
DiskIdle == At("idle") /\ Idle /\ Done /\ OnlyAta /\ UNCHANGED atavars

Allocate == /\ At("alloc") /\ Done /\ kmalloc_b(arg)
            /\ UNCHANGED <<timervars, atavars, pagingvars, taskvars>>
EnablePaging == /\ At("paging") /\ Done /\ init_page_directory
                /\ UNCHANGED <<timervars, atavars, heapvars, taskvars>>
\* What has a page goes on; a fault's routine only returns to the instruction.
Mapped == \A p \in UsedPages : Translate(p) # Fault
InitTasking == /\ At("tasks") /\ Done /\ Mapped /\ initTasking
               /\ UNCHANGED <<timervars, atavars, heapvars, pagingvars>>

\* kmain's last loop and main_A, main_B, main_C.
InLoop == todo = <<>> /\ Runs /\ UNCHANGED <<timervars, atavars, heapvars,
                                             pagingvars, todo>>
TaskWorks == InLoop /\ Work
Preempt == InLoop /\ k_preempt

kmain == \/ Flag \/ BeginDelay \/ PollDelay
         \/ DiskCommand \/ DiskWait \/ DiskData \/ DiskIdle
         \/ Allocate \/ EnablePaging \/ InitTasking
\* In the last loop nothing reads the counter and the timer is left out; what its
\* interrupts do to the stack there is part of Execute.
PeriodPasses == todo # <<>> /\ Period /\ OnlyTimer /\ UNCHANGED todo
Ticks == PeriodPasses \/ (timer_handler /\ OnlyTimer /\ UNCHANGED todo)
DriveWorks == DriveStep /\ UNCHANGED <<timervars, heapvars, pagingvars, taskvars,
                                       todo>>

Next == kmain \/ TaskWorks \/ Preempt \/ Ticks \/ DriveWorks

\* The processor runs also between two ticks, however often an interrupt holds
\* kmain up; the timer ticks; a drive does what it was told.
Fairness == /\ SF_vars(kmain) /\ WF_vars(Preempt) /\ WF_vars(DriveWorks)
            /\ WF_vars(PeriodPasses)
            /\ WF_vars(timer_handler /\ OnlyTimer /\ UNCHANGED todo)
Spec == KmainInit /\ [][Next]_vars /\ Fairness

-----------------------------------------------------------------------------
(* Properties; BlocksApart and ContextKept are with their components *)

KmainTypeOK ==
    /\ iflag \in BOOLEAN /\ timer_ticks \in 0..(U32 - 1)
    /\ eticks \in {NoDelay} \cup 0..(U32 - 1)
    /\ drive.left \in 0..Words /\ polls \in 0..Polls
    /\ \A b \in MarkBytes : blocks_used[b] \in 0..255
    /\ runningTask \in Started /\ curProcessIndex \in 0..(MAX_PROCESSES - 1)
    /\ cpu.esp \in StackAddresses

\* A delay takes exactly the ticks that were asked for, if its end is not beyond
\* the last value of the counter (timer.c:70).
DelayExact == overrun = 0

\* kmain comes to its last loop if there is a slave drive, of any speed: it
\* never waits for a tick with interrupts off (timer.c:72), and neither the wait
\* loops nor the unbounded one behind the write (main.c:500) go on for ever.
KmainReachesItsLoop == Fitted => <>(todo = <<>>)

\* On a drive that has its data before the first poll, what is read back is what
\* was written, although the loops that wait for the data wait for its absence.
FastDriveRoundTrip == (drive.kind = "fast" /\ todo = <<>>)
                      => sector = data /\ data2 = data

\* With paging on every page the kernel touches is where it was, and the
\* kernel's own walk agrees with the processor's.
PagesInPlace == paging => \A p \in UsedPages : /\ Translate(p) = p
                                               /\ get_physaddr(p) = p

\* Every task gets its turn over and over if the word that k_preempt finds
\* through its null pointer is not 0 (task.c:70).
EveryTaskRuns == (Fitted /\ armed) => \A t \in Started : []<>(runningTask = t)

\* src/README.md:100 of the "Simple Hard Disk ATA Driver": "Currently reads and
\* writes data successfully."
DiskRoundTrip == (drive.kind = "slow" /\ todo = <<>>) => data2 = data
=============================================================================
