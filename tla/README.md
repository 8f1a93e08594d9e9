# Verification of teletopdukan

TLA+ models, TLC runs and TLAPS proofs for the hobby kernel in this repository
(C and NASM, i386, one processor, GRUB multiboot). `PROJECT.json` lists the
components, runs, mutants, the map from definitions to source lines, hazards,
findings and theorems. File names below are relative to `src/src/`.

## 1. The system

One kernel program, `kmain`, runs on one stack and never ends. Interrupt
handlers run on the same stack between any two of its instructions, with
interrupts disabled, and share plain global variables with it. There are no
locks. There is no persistence: a restart is a boot.

| Component | State | Operations | Interacts with |
|---|---|---|---|
| Keyboard buffer (`kb.c`) | `kb_buf`, `kb_buf_first`, `kb_buf_last` | `keyboard_handler` (IRQ 1), `keyboard_read_next`, callers `kgetch`, `wait_any_key`, the SPACE BAR loop | console (echo), `jump_usermode` on F2 |
| Interrupt dispatch (`isrs.c`, `asm/start.s`) | `irq_routines`, `irq_counts`, `irq_spurious`, names; the in-service bits of two 8259 | stubs, `irq_handler`, `irq_ack`, `fault_handler`, install functions | every driver |
| Real-time clock (`timer.c`) | locals of `read_rtc`; the CMOS registers | `read_rtc` | the clock, which updates while it is read |
| Timer (`timer.c`) | `_timer_ticks`, `_next_preempt` | `timer_handler` (IRQ 0), `delay_ms`, `delay_ticks`, `delay_s` | everything that waits |
| PS/2 bring-up (`kb.c`) | controller configuration, `mouse_mode`, `is_dual_device` | `ps2_install` | controller and device reply queues |
| Mouse (`kb.c`) | `mouse_cycle`, `mouse_byte`, position, buttons, packet ring | `mouse_handler` (IRQ 12), getters, `read_next_packet` | `kmain`'s last loop |
| Console (`scrn.c`) | cursor, attribute, text memory, hardware cursor | `kputch`, `kscroll`, `move_csr`, `cls`, `kwritef` | written by `kmain` and by IRQ 1 |
| Number formatting (`scrn.c`) | none | `writeInt`, `writeUInt`, `writeUInt64`, `div64_slow`, `writeReal`, the directives of `kwritef` | console, serial port |
| Traces (`scrn.c`, `system.h`) | `cursor`, which counts columns | `trace`, `kwritef` with its padding, `serial_write_b` | `kputch` and the traces of interrupt handlers, which count in the same `cursor` |
| Memory routines (`main.c`) | none | `kmemmove`, `kmemchr`, `kmemset` and others | everyone |
| Heap (`mm.c`) | `free_ptr`, `blocks_used` | `init_mm`, `kmalloc_b`, `kfree_b` | `kmain` |
| Paging (`mm.c`) | `pageDirectory`, `firstPageTable` | `init_page_directory`, `get_physaddr`, the fault routine | enabled by `kmain` before the tasks start |
| Tasks (`task.c`, `asm/kernel.s`) | `processes`, `runningTask` | `initTasking`, `createTask`, `k_preempt`, `switchTask` | `kmain`'s last loop |
| ATA (`hd.c`) | the drive's registers | waits, reset, PIO read and write | `test_harddisk` |
| VGA (`vga.c`) | the adapter's registers | `init_graph_vga`, lines, polygons | `kmain` |
| Descriptor tables (`gdt.c`, `isrs.c`) | GDT, TSS, IDT, the 8259's words | `gdt_install`, `idt_install`, `irq_remap` | processor, controllers |

What is hard in this code: shared bytes without locks between `kmain` and the
handlers; unbounded and bounded polling of devices; a clock and devices that
change while they are read; indices and counters that wrap; errors that are
reported and then ignored. Every place is a line of `hazards` in
`PROJECT.json`, with the properties that cover it or a note.

What makes each component correct:

* keyboard: each key is handed out once, in order; "empty" is true; waiting ends;
* interrupts: no interrupt nests in another, EOIs balance in-service bits, counters
  tell the truth,
  requests are taken;
* clock: the time returned is one the clock showed;
* timer: a delay lasts what was asked, and ends;
* mouse and PS/2: bring-up ends; driver and devices agree; the pointer is where
  the user moved it, and is found again after a lost byte;
* console: the screen shows the end of what was printed, the cursor stays on it;
* formatting: what is printed reads back as the number; messages of traces line up;
* heap: blocks do not overlap, marks match blocks; paging: no page moves;
* tasks: a context comes back unchanged, every task runs;
* ATA: what is read is what was written;
* VGA, tables: the hardware is left in the state that was meant.

## 2. What is modelled

### Keyboard (`Keyboard.tla`, abstract promise in `ScanQueue.tla`)

Variables carry the source's names. The handler is one step, as it runs with
interrupts disabled. `keyboard_read_next` is cut at each access to shared
memory, in the order of the unoptimised build the makefile makes: `LoadFirst`,
`CompareEmpty`/`CompareNonEmpty`, `LoadIndex`, `StoreFirst`, `LoadSlot`. `caller`
says which loop of the main program is reading. `accepted`, `delivered` and
`overrun` are history variables: no guard reads them, except `MaxKeys`.

The byte behind the 255-byte array is modelled explicitly (`Aliased`): with the
unoptimised build the variables follow each other and `kb_buf[255]` is
`kb_buf_first`; the other layout has an unused byte there. Both are checked.

`ScanQueue` is the promise: keys come out in order, once each, while fewer than
`Life` keys have arrived; after that it may break. `ImplementsQueue` is the
refinement.

### Interrupts (`Irq.tla`)

The two 8259 and the processor are external parts, modelled from what `isrs.c`
relies on: fully nested priorities, the cascade, requests that vanish between
INTR and INTA so that vector 7 or 15 is invented, `sti` taking effect one
instruction late, interrupt gates (vectors from 32 up) that clear IF, `iret`
restoring it. A frame on `stack` goes through the steps of `irq_handler` and its
stub. Drivers' routines are opaque, apart from F2's `jump_usermode`.

Vectors 0 to 31 have trap gates (`isrs.c:198-232`), which leave IF as it was, up to
the `cli` their stub begins with (`StubCli`). An interrupt may come before it: then
its frame lies on that of the exception, and the stack has two. An exception's
handler returns to the instruction that faulted, which faults again (`faulting`);
interrupts are taken between two rounds of it, if they were enabled.

Keyboard and Irq meet in one assumption: handlers do not interleave with each
other. `Irq` establishes it (`NoNesting`) and `Keyboard` uses it by making
the handler a single step.

### Clock (`Rtc.tla`)

The clock moves along a timeline of moments, one register at a time in any order
while its update flag is up. `read_rtc` looks at the flag, reads six registers
one by one, repeats until two passes agree, and converts. `century_register` is
always 0 in this kernel. Timing assumption, in `BeginUpdate`: between the
beginning of one pass and the end of the next at most one update begins, since
passes take microseconds and updates are a second apart.

### Pointer (`Ps2.tla`, `Mouse.tla`, composed in `Pointer.tla`)

`Ps2` has `ps2_install` as the list of port accesses still to be made, `todo`.
The three decisions of the routine (is there a second port, is it really there,
what does the mouse say it is) put their continuation in front of the list. The
controller's replies queue in `obuf`; `ps2_wait_read` takes one or gives up, and
`inb` then returns the byte read last, `latch`. A poll may also give up on a
reply that is on its way (`MaxLate` times). Controllers have one or two ports and
no mouse, a plain one, one with a wheel or one with five buttons; the user may
type during the bring-up.

`Mouse` has `mouse_handler` with the packet in `mouse_byte`, and the packet ring,
which is only written. `Pointer` composes both with a mouse that reports
movements, bytes that get lost, the interrupt, and `kmain`'s last loop, where
`CLAMP` compares one reading of the position and takes another, and `fillrect`
writes `Side` by `Side` pixels from there (`pixels` are their offsets in video
memory). `seen`, a history variable, has the positions the mouse had during the
round. The square may leave the screen without any interrupt, since the bound of
`CLAMP` is the screen's size. `SquareWherePointerWas` says which positions it has
and how far it may reach.

### Console (`Console.tla`)

`kputch` is a small program over memory and port accesses (`"where"`, `"put"`,
`"loadx"`, ...). The operator `Exec` runs one of them. `kmain` runs one at a time,
the keyboard routine a whole echo between any two. The abstract screen is
`paper`, an endless roll on which the same text is typed; `ShownIsPrinted` says
that the screen shows its last rows. Copying the rows is one access, as an echo
in the middle of it writes into rows that are copied again or not at all, and
`ShownIsPrinted` promises nothing then. Two rows below the screen are modelled,
to see where an interrupted `kputch` may write. Left out are the bytes of a drive's
identification that `test_harddisk` prints unchecked, which could be control
characters.

### Traces (`Trace.tla`)

A trace prints `file::line: `, pads to column 30 and prints its message.
The padding is what `cursor` lacks to 30, and `cursor` is added to by
`serial_write_b`, `kwritef` and `kputch`. `kmain`'s trace is cut at its
accesses to `cursor`: `++cursor` is a load and a store, literals have two
of them. Between any two accesses a handler may echo a key, which counts 13
characters, a tab or a backspace among them, and 80 more where the line wraps; may
answer Enter, which counts 80 for its newline; or may trace itself, which begins with
`cursor = 0`. Texts are their lengths.

`Scrn.tla` has both writers of `scrn.c` in one specification: in a behaviour `kmain`
either prints on the screen or traces on the serial line. It never does both at
once; what one leaves in `csr_x` is the other's `Margins`.

### kmain (`Timer.tla`, `Ata.tla`, `Heap.tla`, `Paging.tla`, `Tasks.tla`, composed in `Kmain.tla`)

`Kmain` has what `kmain` calls from `sti` to its last loop as a list, like `Ps2`.
`Timer` has the tick, one request that waits while interrupts are off, and the
polling loop; `since` and `wanted` count the periods of the running delay.
`Ata` has the three wait loops as they are (they leave when the bit is clear), the
command sequences and a drive: fast (never busy when looked at), slow, or none.
`Heap` keeps the bytes of the marks, since `kmemset` counts bytes and the marks are
`u32`; `Mark` reads one as the `u32` it is. `Paging` has the
directory, the table and the processor's walk. `Tasks` executes `switchTask`
instruction by instruction on registers and stack words; `Execute` also overwrites
the word below the stack pointer after every pop, as an interrupt may.
`k_preempt` reads through a null pointer; `armed` is what it finds there.

### Routines (`MemoryOps.tla`, `Format.tla`, `Vga.tla`, `Descriptors.tla`, called in `Routines.tla`)

Sequential code is modelled as operators: memory as a function of addresses, text
as a sequence of characters, a mode switch and the initialisation of the 8259 as
the sequence of their port writes, descriptors as bytes. The devices that take
those writes, and the processor that reads the descriptors, are external. Each
behaviour of `Routines` is one call with one argument from a bounded set, and the
properties compare its result with what the routine is for. A `real64` is a
numerator and a power of two; above `INT32_MAX` `writeReal` prints its exponent and
its mantissa instead (`writeRealDebug`), of which `bit_mask(52)` keeps the low 32
bits.

`Loops.tla` has loops: `Loop(body, x, rounds)` applies `body[1]`, `body[2]`, ... to
the record `x` of the loop's variables. A `while` loop has as many rounds as it
could need (one per byte, bit or pixel), and those it does not need change
nothing. The loops are written this way, and not as RECURSIVE operators, so that
theorems can be about them.

## 3. The runs

| Run | Expect | Shows | Bounds |
|---|---|---|---|
| `keyboard` | pass | `KeysInOrder`, `EmptyMeansAllDelivered`, `KgetchReturns`, `ImplementsQueue` | indices of 4 values, a ring of 3 slots, 3 scancodes (ordinary, space, F2), 6 keys, both layouts |
| `keyboard_wrap` | violation | the slot the array does not have breaks the ring | same |
| `irq` | pass | `NoNesting`, `NothingLeftInService`, `CountsExact`, `RoutineInPlace`, `RequestsAreTaken` | lines 0, 1, 7, 12, three requests, any number of exceptions |
| `irq_spurious` | violation | a spurious vector is acknowledged to its controller | same |
| `rtc` | pass | `Consistent`, `RightTime`, `ReadReturns` | three timelines of three seconds (noon of a leap day, new year, new century), four register formats |
| `rtc_noon` | violation | twelve o'clock is converted wrongly on a 12 hour clock | same |
| `pointer` | pass | `BringUpReturns`, `HandlersMatchPorts`, `NothingLeft`, `TracksReports`, `CalmReportResynchronises`, `SquareWherePointerWas` | controllers with one port, or two and each kind of mouse, a stray byte at the start, one key typed, one late reply, four movements (one scrolls up, one overflows), two reports, one lost byte, a 6 by 4 range over a 4 by 2 screen, squares of 2 by 2, a packet ring of 2 |
| `pointer_scroll` | violation | a wheel mouse is put in four-byte mode and read as three-byte | same, no typing, no late reply |
| `console` | pass | `CursorOnScreen`, `ShownIsPrinted`, `HardwareCursorFollows`, `PaddingLinesUp` | 2 rows of 4 columns, tab stops every 2, four characters printed of four kinds, two echoes of four kinds (a letter, a newline, a backspace, a letter and a tab); traces with names of 10 characters and 25, numbers of 1 digit and 3, a cursor at column 70 of 80, two interrupts |
| `kmain` | pass | `DelayExact`, `FastDriveRoundTrip`, `BlocksApart`, `PagesInPlace`, `ContextKept`, `KmainReachesItsLoop`, `EveryTaskRuns` | a counter of 6 values, delays of 2 ticks and 1, sectors of 2 words, 2 polls, 16 heap bytes, 8 pages per table, 16 stack words, three kinds of drive, both values of `armed` |
| `disk_slow` | violation | a slow drive is written before it asks | the slow drive of `kmain` |
| `routines` | pass | `MemoryAsPromised`, `NumbersReadBack`, `ModeAsAsked`, `LinesReach`, `TablesAsMeant` | 10 bytes of memory with every overlap and alignment, numbers of 12 bits, those of the 64-bit routines to 1400 in 12 bits (`LongBits`), reals on both sides of `INT32_MAX` (here 2047) with mantissas of 14 bits, of which 12 are printed, all widths and heights of the tables and some beside them, triangles on a 4 by 4 grid of coordinates 0 to 6, TSS addresses on both sides of 1 MB |

The bounds are small where the behaviour is uniform and large enough for the
cases that matter: six keys fill the ring, wrap both indices, meet the missing
slot and overrun it; three requests give a request in service, one pending above
or below it and one that vanishes; lines 7 and 12 are the invented vector's own
line and a line of the slave controller; the timelines change one register, all
six, or the ones that carry at noon. The delays of `kmain` reach the last value of
the counter and wrap around it; its heap is exactly filled, and the
allocation after that is refused. The pointer's mouse moves over all edges, overflows
and scrolls; two reports and one lost byte put a packet together across a boundary. Two rows and
four columns make the console scroll, wrap and tab to the edge. The shorter name of
the traces is padded and the longer is not; one echo, or a trace in between, may fall
into each increment, and a second one undo what the first did. The `routines` run does not
check deadlock: each behaviour ends after its call.
Each property is broken by the mutant of the code listed for it, under the same
bounds.

Fairness. Keyboard: the program that is reading goes on (`WF` of `Reading`): the
processor executes it between interrupts. Irq: the processor takes interrupts it
is told of, finishes handlers, and `kmain` boots, leaves its `cli` sections and runs
again into the exception it has run into.
`RequestsAreTaken` also rests on the bound on requests: a line may starve under
an endless stream of more urgent ones, as on the hardware. Rtc: updates
end and `read_rtc` goes on; `ReadReturns` rests on the timelines being
finite, as an update in every second pass would keep the passes apart.
Pointer: `ps2_install` goes on, with interrupts disabled and nothing to hold it
up; later the processor takes interrupts and runs the loop. That keys and late
replies are bounded is part of `BringUpReturns`: a user who types for ever, or a
device that is late for ever, is not considered. Kmain: strong fairness of
`kmain`, because every tick disables it for the length of an interrupt and it
runs again between any two; weak fairness of the timer, its routine, the
drive and `k_preempt`. The timer asks for the next interrupt only after the
polling loop has looked, since a loop takes microseconds and a period 10 ms.
The console, the traces and the routines have no liveness property.

Only the keyboard properties are conditional on the past: `Intact` says that the
ring was never overrun and that, on the layout where the next byte is
`kb_buf_first`, the write index has not reached it. `keyboard_wrap` shows why it
is needed. Elsewhere conditions name what is not promised: an echo in the middle of a
`kputch` (`raced`) or of a trace, a byte lost or left over (`clean`), a delay beyond the end of
the counter, a machine without a slave drive, a second port without a mouse.

## 4. What the violations say

* `keyboard_wrap`: after 255 keys the next one is written behind `kb_buf`.
  `kb.c:55` and `kb.c:60` promise 255 buffered keys and indices that wrap.
* `irq_spurious`: `irq_handler` counts a spurious vector and acknowledges it;
  the comment at `isrs.c:512` says it must not be. The run `irq`
  shows why nothing has come of it: interrupts do not nest, so the extra EOI finds
  no in-service bit to clear.
* `rtc_noon`: on a 12 hour clock noon becomes 0 and midnight stays 12.
* `pointer_scroll`: `GET_MOUSE_ID` is answered by an ACK and an identity, and one
  byte is read (`kb.c:562`). From there on each answer is read one command late.
  Its ACK loops pass on the ACK of the command before, `result` is an ACK
  where 3 is looked for, and `mouse_mode` stays 0. `NothingLeft` shows that the
  loops that enable streaming catch up, so that no byte stays in the queue. On a mouse that
  did change its mode `TracksReports` only holds while no fourth byte looks like
  the beginning of a packet, which scrolling up does.
* `disk_slow`: the waits for DRQ end when DRQ is clear (`hd.c:32`, `hd.c:50`). A
  fast drive has set it before the first look, so the loop times out and the
  transfer is right. On a slow one the loop ends at once and the words are lost.

Smaller observations the passing runs state exactly: `writeUInt64` is wrong for
numbers in whose division by ten a partial dividend is 10 times a power of two or one more
(`NumbersReadBack`), and a real above `INT32_MAX` is printed with 32 of its
mantissa's 52 bits; messages of undisturbed traces line up in column 26 and not 30, and
one in whose padding a key is echoed starts further left, though `system.h:739` says the
padding is there to line them up (`PaddingLinesUp`); `kmemset` sets as many bytes of marks
as a block has, but marks are `u32` (`mm.c:142`): of 5 bytes the first mark becomes
0x05050505, the second 5, and the others, which `mm.c:140` means to mark as used, stay 0
and are listed as free (`BlocksApart`); the square of the mouse is drawn beyond the screen, and beyond
video memory when the mouse moves at the wrong moment (`SquareWherePointerWas`); the
564 line mode begins its retrace before its blanking, so
`ModeAsAsked` orders neither against the other; the TSS limit is an address
(`TablesAsMeant`).

## 5. What is proved

All proofs are for every value of the constants.

`KeyboardProofs.tla`: `TypeCorrect`, `InOrder`, `EmptyIsEmpty` and `Refinement`,
from `KeyboardAssumption`. The inductive invariant `IInv` adds to the types:
the *lockstep* of the indices with the histories (while the ring is intact each
index is the number of keys that went past it, modulo the index's width, and
every slot between them holds the key of its turn), and what the reader has in
`reg` at each of its program points. `KeysInOrder` alone is not inductive:
it does not say that the register the reader is about to store or to use as an
index is still the first index. The proof has one lemma per group of actions
(`HandlerKeepsLockstep`, `StoreFirstKeepsLockstep`, ...). `Refinement` maps each
step to `Arrive`, `Take`, `Break`, `AfterBreak` or a stutter.

`IrqProofs.tla`: `TypeCorrect`, `Flat`, `Balanced`, `Exact` and `Installed`, from
`IrqAssumption`. The invariant says where the top frame on the stack has got to and
what follows: interrupts are off, or shadowed by the `sti` before `iret`, or the
frame is that of an exception before its `cli`, and only on such a frame is there a
second one (`Guarded`); which bits it has still to clear (`InService`); what it has still to
count (`Counted`); and that interrupts are enabled only after every routine is
installed (`Enabled`). `NothingLeftInService` alone is not inductive: an EOI
clears the *lowest* bit in service, and that this is the frame's own
needs `NoNesting` and the two stages of the cascade.

`RtcProofs.tla`: `PassesConsistent`, `ReturnsRightTime` and `TypeCorrect`, from
`RtcAssumption`. While no update has begun since the reader looked at the flag, the
clock is idle and what was read is the current moment (`PassReads`). Once one has,
none began in the pass before, which therefore read a single moment
(`PassBefore`). Either way two equal passes are one moment. The conversions undo
the clock's encoding in each of the four formats; twelve o'clock on a 12 hour
clock is excepted, as in `RightTime`.

`TasksProofs.tla` has the lemmas about `switchTask`: one for each kind of
instruction, and from them what its two halves do with the registers and the stack
of the task that leaves and of the one that comes back, on stacks of every size.
The number of instructions being fixed, each half is executed symbolically, one
step of the proof for each instruction.

`KmainProofs.tla`: `DelaysAreExact`, `FastRoundTrip`, `BlocksStayApart`,
`PagesStayInPlace`, `ContextsKept` and `TypeCorrect`, all from `Inductive`. The
invariant `IInv` says that what is left to execute is a suffix of `kmain`'s code
(`Suffix`), so that each position in it says what has been done, and:

* `DelayInv`: while a delay runs, `timer_ticks`, with the request that waits, is as
  far from `eticks` as `since` is from `wanted`, and the loop has not missed its end;
* `FastInv`: on the fast drive the words written so far are in its buffer, those read
  so far in `kmain`'s, and it takes or has exactly as many as the code has left;
* `HeapInv`: blocks end at or before `free_ptr`, the marks behind it are 0, and no byte
  of a mark is overwritten, since the next block's marks begin four bytes of
  marks per byte of this block further on, and it was given one per byte;
* `PagingInv`: with paging on the table is the identity and its entry is present;
* `TasksInv`: only `kmain` runs until its code is done; from then on each task but
  the running one can be resumed from its struct alone (`Resumable`);
* `FlagInv`: the types of what the others share.

Assumed are `KmainAssumption` (delays are natural numbers; blocks are not empty),
and those of the five components.

`PointerProofs.tla`: `TypeCorrect`, `SquarePlaced`, `SendsToItsRoutine`,
`PortsHaveHandlers`, `LeavesNothing`, `Resynchronises` and `FollowsTheHand`, from `Ps2Assumption`, `MouseAssumption` and
`PointerAssumption`, for every noise at the start, key, and movement. `Inductive`
combines:

* `SquareInv`: the position is one of those `seen` in this round, a coordinate that was
  taken is one of them or the bound, and if `CLAMP` let it through one of them was
  below the bound (`Placed`); so a square beyond the reach of one at the bound needs a
  crossing (`FillWithin`);
* `StepInv` (`CalmLeft`): what is left of a calm report cannot begin a packet and
  has at least as many bytes as the packet at hand still needs;
* `StreamInv`: what is left of `ps2_install` lets the mouse send only behind the
  installation of its routine (`Guarded`), whatever it decided and whatever
  replies it got;
* `TrackInv` (`Taken`): of the movement under way, `j` bytes have been taken, the
  rest are in the queue, and the hand is where they will bring the position.

`PortsHaveHandlers` (`HandlersMatchPorts`) and `LeavesNothing` (`NothingLeft`) have an
invariant of their own, `BringUpInv`. `ps2_install` is four stretches of straight code
between two decisions (`Probe`, `Confirming`, `One`, `Two`: 9, 6, 19 and 66
instructions); `On(code)` says that what is left of it is the end of one of them, or is
at a dummy read, or at the second read behind an answered reset, and `left` is the
position. The tables `ProbeIs`, `ConfirmingIs`, `OneIs` and `TwoIs` say which
instruction that is. For each position the invariant has the configuration byte, the
routines installed, and how many replies wait and which of them are ACKs (`Holds`):

* before the second decision the keyboard's clock is off, so that only the replies asked
  for arrive, whatever was typed before (`Probing`, `Deciding`);
* on one port, and on two with a mouse, what waits is known as long as no key was typed
  (`WaitingOne`, `WaitingTwo`); with keys the rest still is. From `GET_MOUSE_ID` on one
  reply more waits than the code believes, up to the ACK loop behind the last of them;
* on a second port without a mouse the loop at kb.c:544 waits for an ACK nobody sends,
  and a key typed does not help (`Unanswered`): that end is never reached.

TLC checked `PortsInv` on the run's constants, and with two keys, before the proof, which
has one lemma for each of the four stretches (`ProbingNext`, `DecidingNext`,
`OnePortNext`, `TwoPortsNext`), one for a key (`PortsKey`) and one for what comes later
(`PortsLater`). Both theorems suppose that no key is sent as 0xFA, the byte of an ACK, as
none is by a PC keyboard, and that the three dummy reads find at most three bytes
(`Drained`: with more, the configuration byte would be read from a key).
`ThreeReadsDrain` shows the second of the constants, for noise and keys of three bytes
together, as in the run. Replies given up are excluded by the properties themselves.

Two more of the theorems have a hypothesis. `Resynchronises` takes a mouse whose
reports are at least as long as the packets expected (`LongEnough`): a key whose
code is 3, typed at the right moment, makes the driver believe that a plain mouse
has a wheel, and reports of three bytes read as packets of four do not put
themselves right. No scancode typed in the run is 3. `FollowsTheHand` is about
`MOUSE_DEFAULT`, packets of three bytes: in the other mode the fourth byte is used
for the buttons, and a wheel sets one. Because of what `pointer_scroll` shows, the
driver only reaches that mode after such a stray 3.

`ConsoleProofs.tla`: `TypeCorrect`, `OnTheScreen`, `CursorFollows` and
`ScreenShows`, from `ConsoleAssumption`, for screens of every size and texts and
echoes of every length. `ConsoleInv` has three parts:

* `Mine`: for each of the 24 things that may be left of a `kputch`, where the cursor
  may be and what may be in the register, whatever was echoed meanwhile. An echo
  leaves this true (`EchoKeeps`), because it leaves the cursor on the screen, and on
  the last row if it found it there or below;
* `Straight`: the bytes of the hardware cursor sent so far, if no echo fell into
  them (`cursor_raced`);
* `Pictured`: the screen shows the roll as it is after the accesses made so far, if
  no echo fell into a `kputch` (`raced`). That each of the accesses draws what the
  character does to the endless roll is `NewLineShows`, `PutShows`, `MoveShows`,
  `ScrollShows` and, for a whole character, `TypeShows`.

That an echo ends within the accesses `Longest` allows is `Alone`: each thing that
may be left has a budget, and each access uses some of it up.

`TracesLineUp` is about `Trace.tla`, from `TraceAssumption`, for names, numbers and
margins of every size and any number of interrupts. `TraceInv` says what `cursor`,
and the value loaded from it by an increment under way, are worth (`Behind`): as many
as the increments made so far (`Counted`) if nothing came in between, and at least
as many if only keys did, because an echo's backspace takes back no more than the
characters around it add (`EchoesCount`). After a trace in a handler only the last conjunct is
left: what the padding still lacks is bounded by 30 per such trace. `BothWriters` carries the
theorems about `Console` and `Trace` over to `Scrn`.

`RoutinesProofs.tla`: `MemoryKeepsItsPromise`, `TablesRead`, `LinesAreStraight`,
`IntegersRead`, `DivSlowIs`, `NumbersRead` and `ModesAreShown`, from
`RoutinesAssumption`, `NumbersAssumption`, `MemoryOpsAssumption`, `DescriptorsAssumption`
and `FormatAssumption` (memory holds bytes, `size_t` counts
more than 255, TSS addresses have 32 bits, a `u32` has a whole number of nibbles and
holds every number printed as one, `Char` has the characters the routines write; a `u64`
has `LongBits` bits; a real is one whose fraction the ten digits of `writeReal` can
express, a number of 2^-10ths or coarser, not below the least `i64`, and beyond
`INT32_MAX` one that a mantissa of `MantissaBits` bits holds exactly).
A behaviour is one call, so that the work is not in an invariant but in what the loops
compute. `LoopKeeps` says that what each round keeps holds at the end, `LoopEnds`
that a `while` loop is through when its bound has come down to 0; with them:

* `Upwards`, `Downwards`: the bytes moved so far are those of the old memory,
  and none still to be read has been written. This is where the direction counts;
  that a word moves at once does not, because within it all is read before
  anything is written;
* `ChrIs`: a word skipped by `kmemchr` has none of its bytes equal to `c`;
* `WrittenTo`: the twelve writes of `irq_remap`, two at a time, on a controller
  whose five states are written out; the descriptors are arithmetic on the bytes
  of a 32-bit number (`BytesAre`);
* `Walked`: after `i` rounds of a line there are numbers `c` of short steps with
  `c * long + e = long / 2 + i * short`, and `e` is below `long`. So the error is at most
  half of `long` (`ErrorIs`), and after `long` rounds `c` is `short` (`WalkIs`): the
  line ends at its second point. `CrossIs` carries the distance over from the first
  octant to the others;
* `Decimal`: while `writeUInt` has rounds to go, what is left of the number times the
  power of ten of the digits written, and their value, make up the number
  (`DigitStep`); after as many rounds as it has bits nothing is left (`UIntIs`).
  `FixedIs` does the same for the numbers of a fixed length. This is
  `IntegersReadBack`, the half of `NumbersReadBack` about 32 bits;
* `DivSlowIs`, the other half's foundation: for every dividend of `LongBits` bits, 10 times
  the quotient and the remainder of `div64_slow` make up the dividend less `Lost`, which is
  5 where the division slips and 0 elsewhere. The first loop doubles the divisor until
  it reaches half of the dividend (`Doubled`, `DoubleIs`). In the second, a round takes the
  divisor away where it fits and halves it (`Dividing`, `AwayAbove`). A dividend of twice
  the doubled divisor, or one more, leaves 10 or 11 behind the round of the divisor itself:
  the next takes half of it away, 5, and counts nothing (`Spilling`, `AwayLast`,
  `SubtractIs`). `SlipsAre` says that these dividends are those `Slips` names, by
  comparing powers of two (`PowersGrow`, `PowersOrder`);
* `Progress`: while `writeUInt64` prints, the digits made and the number still to be
  printed are worth the number as long as the reference `Exact` has met no slip, and less
  from then on (`LongStep`, `LongIs`): digits lost never come back, so that the text reads
  back *exactly* when no step slips (`LongReads`);
* `Remaining`: what is left of a fraction has one more factor of two after each round of
  `writeReal`, so that ten rounds leave nothing of it (`Halved`, `FractionIs`); the dot is
  found between the two parts (`DottedIs`), and they are those of the number (`PartsAre`);
* `MantissaIs`: exponent and mantissa are those of the number; `LargeReads`, with
  `FourTexts`, finds them in the text of a real beyond `INT32_MAX`;
* `StaysWritten`: a register of the adapter holds what was last written to it, if it
  took it; registers 0 to 7 do between the first of the 22 writes and the thirteenth,
  which protects them again. `Switched` is those writes in their order, for any width
  and height of the tables, `RegistersAre` what they leave, and `WidthsFit` and
  `HeightsFit` the tables' rows. `ModesAreShown` takes any sizes asked for, the run
  only some.

Recursive functions (loops, the instructions of `switchTask`, the accesses of an
echo, the characters of a text) are shown to be what they mean by induction over
`Nat` in its set form: a subset of `Nat` that has 0 and the successor of each of its
members is `Nat`. That form follows from `WellFoundedInduction`'s facts about
minimal elements without an operator parameter.

### Only model-checked

* Liveness, which the prover cannot do under fairness: `KgetchReturns`,
  `RequestsAreTaken`, `ReadReturns`, `BringUpReturns`, `KmainReachesItsLoop`,
  `EveryTaskRuns`.
* `TracksReports` in four-byte mode.

## 6. What is not modelled

Not modelled, and why:

* code nobody calls: `write_to_CMOS`, `read_next_packet`, `kfree_b`, `map_page`,
  `idpaging`, `removeTask`, `delay_ticks`, `isr_uninstall_handler`,
  `irq_uninstall_handler`, `set_kernel_stack`, `swich_to_8x8_mode`, `write_regs`
  and the fonts, `writeBinary_b` and `writeBinary_w`, `modulo`: the states they
  would lead to are not states of this program;
* stores with nothing to go wrong between them: palettes, `vga_clear`,
  `plot_pixel`, the serial port's set-up, the fields inside the TSS;
* the two loops of `kmain` that send traces to the screen (`main.c:560`, `main.c:728`);
* the names kept by the install functions, which are only printed
  (`isr_install_handler` copies them into the table of the IRQs);
* `kmain`'s demonstrations and its listing of VBE modes, the text of messages;
* `vesa.c`, `gui.c`, `fs.c`, `string.c`: empty, stubbed or unused at this commit;
  vendored and generated files.

## 7. Running

    tlc -workers 2 -config MCKmain.cfg MCKmain
    tlapm KeyboardProofs.tla

`PROJECT.json` lists every run with its module and configuration. Proofs:
`KeyboardProofs`, `IrqProofs`, `RtcProofs`, `TasksProofs`, `KmainProofs`,
`PointerProofs`, `ConsoleProofs`, `RoutinesProofs`.
