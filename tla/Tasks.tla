------------------------------- MODULE Tasks -------------------------------
(***************************************************************************)
(* Cooperative tasks (task.c) and switchTask (asm/kernel.s).  kmain is     *)
(* task 0; a task runs until it calls k_preempt.  switchTask is executed   *)
(* instruction by instruction on registers and stack words, and after each *)
(* of them an interrupt may have overwritten everything below the stack    *)
(* pointer.  Words, not bytes, are counted.  Nobody calls removeTask.      *)
(***************************************************************************)
EXTENDS Integers, SequencesExt

CONSTANTS MAX_PROCESSES,   \* 10
          StackWords,      \* words of a task's stack, 1024
          Armed            \* values of what k_preempt reads at address 0x38

ASSUME TasksAssumption == /\ MAX_PROCESSES \in Nat /\ MAX_PROCESSES >= 4
                          /\ StackWords \in Nat /\ StackWords >= 16
                          /\ Armed \subseteq BOOLEAN

VARIABLES armed,                      \* NULL->isActive
          tasks,                      \* next and regs of the processes in use
          runningTask, curProcessIndex, processesCount,
          cpu, stack,                 \* registers, stack words
          left,                       \* history: registers each task left with
          resumed                     \* history: registers it came back to

taskvars == <<armed, tasks, runningTask, curProcessIndex, processesCount, cpu,
              stack, left, resumed>>

Started == 0..3
NULL == -1
Regs == {"eax", "ebx", "ecx", "edx", "esi", "edi", "esp", "ebp", "eip", "eflags",
         "cr3"}
\* Where a Registers struct keeps each of them, in words (system.h).
Offset == [eax |-> 0, ebx |-> 1, ecx |-> 2, edx |-> 3, esi |-> 4, edi |-> 5,
           esp |-> 6, ebp |-> 7, eip |-> 8, eflags |-> 9, cr3 |-> 10]

\* What a running task may have in its registers: different in each.
Own(t) == [r \in Regs |-> IF r \in {"eflags", "cr3"} THEN 7
                             ELSE 1000 * (t + 1) + 20 * Offset[r]]
Entry(t) == 500 + t
Return == 600

\* Stack 0 is kmain's, above the others' in memory.
StackAddresses == 0..(5 * StackWords - 1)
Base == 5 * StackWords - 4

TasksInit == /\ armed \in Armed
             /\ tasks = [t \in Started |-> [next |-> NULL,
                                            regs |-> [i \in 0..10 |-> 0]]]
             /\ runningTask = 0 /\ curProcessIndex = 0 /\ processesCount = 0
             /\ cpu = [Own(0) EXCEPT !["esp"] = Base]
             /\ stack = [a \in StackAddresses |-> 0]
             /\ left = [t \in {} |-> 0] /\ resumed = FALSE

-----------------------------------------------------------------------------
(* initTasking *)

Struct(regs) == [r \in Regs |-> regs[Offset[r]]]

Fresh(t, count) ==
    [i \in 0..10 |-> CASE i = Offset["eip"] -> Entry(t)
                       [] i = Offset["esp"] -> StackWords * count
                       [] i \in {9, 10} -> 7
                       [] OTHER -> 0]

\* mutant of createTask: the new task is linked behind itself
createTaskSelf(ts, t) ==
    [ts EXCEPT ![t] = [next |-> NULL, regs |-> Fresh(t, t)]]
createTask(ts, t) ==
    [ts EXCEPT ![t] = [next |-> NULL, regs |-> Fresh(t, t)],
               ![t - 1].next = t]

\* createTask(&processes[1], ...), 2 and 3: processesCount is the index.
initTasking ==
    /\ tasks' = createTask(createTask(createTask(tasks, 1), 2), 3)
    /\ processesCount' = 4 /\ runningTask' = 0
    /\ left' = [t \in 1..3 |-> Struct(tasks'[t].regs)]
    /\ UNCHANGED <<armed, curProcessIndex, cpu, stack, resumed>>
-----------------------------------------------------------------------------
(* switchTask: the registers and eflags onto the old stack, from there into *)
(* the old task's struct, then everything out of the new task's.            *)

pusha == <<<<"push", "eax">>, <<"push", "ecx">>, <<"push", "edx">>,
           <<"push", "ebx">>, <<"pushsp", "esp">>, <<"push", "ebp">>,
           <<"push", "esi">>, <<"push", "edi">>>>
SaveOld == pusha \o
    <<<<"push", "eflags">>, <<"move", "eax", "cr3">>, <<"push", "eax">>,
      <<"peek", "eax", 11>>,
      <<"store", "ebx", 1>>, <<"store", "ecx", 2>>, <<"store", "edx", 3>>,
      <<"store", "esi", 4>>, <<"store", "edi", 5>>,
      <<"peek", "ebx", 9>>, <<"peek", "ecx", 10>>, <<"peek", "esi", 4>>,
      <<"peek", "edi", 1>>, <<"peek", "edx", 5>>, <<"add", "edx">>,
      <<"store", "ebx", 0>>, <<"store", "edx", 6>>, <<"store", "esi", 7>>,
      <<"store", "ecx", 8>>, <<"store", "edi", 9>>,
      <<"pop", "ebx">>, <<"store", "ebx", 10>>, <<"push", "ebx">>>>
LoadNew ==
    <<<<"peek", "eax", 12>>,
      <<"load", "ebx", 1>>, <<"load", "ecx", 2>>, <<"load", "edx", 3>>,
      <<"load", "esi", 4>>, <<"load", "edi", 5>>, <<"load", "ebp", 7>>,
      <<"push", "eax">>, <<"load", "eax", 9>>, <<"push", "eax">>,
      <<"pop", "eflags">>, <<"pop", "eax">>, <<"load", "esp", 6>>,
      <<"push", "eax">>, <<"load", "eax", 10>>, <<"move", "cr3", "eax">>,
      <<"pop", "eax">>,
      <<"push", "eax">>, <<"load", "eax", 8>>, <<"xchg", "eax">>,
      <<"load", "eax", 0>>, <<"pop", "eip">>>>

\* mutant of Kept: switchTask forgets that the call pushed a return address
KeptShort == SelectSeq(SaveOld, LAMBDA i : i[1] # "add") \o LoadNew
Kept == SaveOld \o LoadNew

\* An interrupt pushes its frame and returns: what is below the stack pointer,
\* a popped word for one, is anything.
Junk == -7

\* One instruction on [r: registers, s: stack words, ts: tasks].
Execute(m, i) ==
    LET esp == m.r.esp
        reg == i[2]
    IN CASE i[1] = "push" -> [m EXCEPT !.r.esp = @ - 1, !.s[esp - 1] = m.r[reg]]
         [] i[1] = "pushsp" -> [m EXCEPT !.r.esp = @ - 1, !.s[esp - 1] = esp + 4]
         [] i[1] = "pop" -> [m EXCEPT !.r = [m.r EXCEPT ![reg] = m.s[esp],
                                                        !.esp = esp + 1],
                                      !.s[esp] = Junk]
         [] i[1] = "peek" -> [m EXCEPT !.r[reg] = m.s[esp + i[3]]]
         [] i[1] = "move" -> [m EXCEPT !.r[reg] = m.r[i[3]]]
         [] i[1] = "add" -> [m EXCEPT !.r[reg] = @ + 1]
         [] i[1] = "store" -> [m EXCEPT !.ts[m.r.eax].regs[i[3]] = m.r[reg]]
         [] i[1] = "load" -> [m EXCEPT !.r[reg] = m.ts[m.r.eax].regs[i[3]]]
         [] i[1] = "xchg" -> [m EXCEPT !.r[reg] = m.s[esp], !.s[esp] = m.r[reg]]

\* m after each instruction of code; the CHOOSE has TLC evaluate it once.
Steps(m, code) ==
    LET after[n \in 0..Len(code)] ==
            IF n = 0 THEN m
            ELSE CHOOSE b \in {Execute(a, code[n]) : a \in {after[n - 1]}} : TRUE
    IN after

\* The call with its two arguments, which the caller drops when it is back.
Called(last, next) == [r |-> [cpu EXCEPT !.esp = @ - 3], ts |-> tasks,
                       s |-> [stack EXCEPT ![cpu.esp - 1] = next,
                                           ![cpu.esp - 2] = last,
                                           ![cpu.esp - 3] = Return]]
switchTask(last, next) ==
    \E back \in {Steps(Called(last, next), Kept)[Len(Kept)]} :
       /\ cpu' = IF back.r.eip = Return THEN [back.r EXCEPT !.esp = @ + 2]
                 ELSE back.r
       /\ stack' = back.s /\ tasks' = back.ts
       /\ left' = [t \in DOMAIN left \cup {last} |->
                      IF t = last THEN [cpu EXCEPT !.eip = Return] ELSE left[t]]

\* next ? next : &processes[0]
Successor(t) == IF tasks[t].next = NULL THEN 0 ELSE tasks[t].next

\* The test reads through a null pointer; without it the ten rounds change
\* nothing.
k_preempt ==
    IF armed
    THEN /\ curProcessIndex' = (curProcessIndex + 1) % MAX_PROCESSES
         /\ runningTask' = Successor(runningTask)
         /\ switchTask(runningTask, Successor(runningTask))
         /\ resumed' = TRUE
         /\ UNCHANGED <<armed, processesCount>>
    ELSE UNCHANGED taskvars

\* Between two calls a task uses its registers.
Work == /\ cpu' = [Own(runningTask) EXCEPT !.esp = cpu.esp, !.eip = cpu.eip]
        /\ resumed' = FALSE
        /\ UNCHANGED <<armed, tasks, runningTask, curProcessIndex,
                       processesCount, stack, left>>

-----------------------------------------------------------------------------
\* A task comes back to exactly the registers, stack pointer, flags and address
\* space it called switchTask with, whatever the other tasks and interrupts
\* between any two of its instructions did (kernel.s:40).
ContextKept == resumed => cpu = left[runningTask]
=============================================================================
