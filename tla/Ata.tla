-------------------------------- MODULE Ata --------------------------------
(***************************************************************************)
(* The ATA driver (hd.c) and test_harddisk (main.c), which identifies the  *)
(* slave drive, writes its sector 1 and reads it back.  The three wait     *)
(* loops poll a status bit at most Polls + 1 times and go on when it is    *)
(* CLEAR, also those that wait for DRQ and for ready.  A fast drive has    *)
(* its data before the first poll, a slow one some time after.             *)
(***************************************************************************)
EXTENDS Integers, Sequences

CONSTANTS Words,      \* words of a sector, 256
          Polls,      \* 10000
          Drives      \* subset of {"none", "fast", "slow"}

ASSUME AtaAssumption == /\ Words \in Nat \ {0} /\ Polls \in Nat
                        /\ Drives \subseteq {"none", "fast", "slow"}

VARIABLES drive,      \* kind, busy, the command, words to transfer
          buffer,     \* the drive's
          sector,     \* what is on the medium
          polls,      \* polls made by the running wait loop
          data2       \* what was read

atavars == <<drive, buffer, sector, polls, data2>>
All(w) == [i \in 1..Words |-> w]
data == All("5A")

AtaInit == /\ drive \in [kind : Drives, bsy : {FALSE}, cmd : {"none"}, left : {0}]
           /\ buffer = All("00") /\ sector = All("old")
           /\ polls = 0 /\ data2 = All("stack")

Fitted == drive.kind # "none"
BSY == Fitted /\ drive.bsy
RDY == Fitted /\ (drive.bsy => drive.cmd # "reset")
DRQ == Fitted /\ ~drive.bsy /\ drive.left > 0

-----------------------------------------------------------------------------
(* The drive *)

Take(c) == drive' = IF ~Fitted \/ (drive.bsy /\ c # "reset") THEN drive
                    ELSE [drive EXCEPT !.bsy = (@ \/ drive.kind = "slow"),
                                       !.cmd = c,
                                       !.left = IF c = "reset" THEN 0 ELSE Words]

\* The slow drive gets ready, or is through with writing the medium.
DriveStep == /\ BSY /\ drive' = [drive EXCEPT !.bsy = FALSE]
             /\ sector' = IF drive.cmd = "write" /\ drive.left = 0 THEN buffer
                          ELSE sector
             /\ UNCHANGED <<buffer, polls, data2>>

Place == Words - drive.left + 1

-----------------------------------------------------------------------------
(* The driver: each step is a port access *)

O(op, arg) == [op |-> op, arg |-> arg]
Each(op) == [i \in 1..Words |-> O(op, i)]
Cli == <<O("if", FALSE)>>
Sti == <<O("if", TRUE)>>

ata_soft_reset == <<O("cmd", "reset"), O("wait", "BSY")>>
identify == Cli \o <<O("wait", "RDY"), O("cmd", "identify"), O("wait", "DRQ")>>
            \o Each("skip") \o Sti
\* Presence, asked of two controllers and four drives with interrupts off; the
\* answer is only reported.
ata_present == Cli \o Sti \o Cli \o Sti \o Cli \o Sti
\* mutant of ata_pio_write_w: one word short
WriteShort == <<O("cmd", "write"), O("wait", "DRQ")>>
              \o SubSeq(Each("outw"), 1, Words - 1)
ata_pio_write_w == <<O("cmd", "write"), O("wait", "DRQ")>> \o Each("outw")
ata_pio_read_w == <<O("cmd", "read"), O("wait", "DRQ")>> \o Each("inw")
test_harddisk == ata_soft_reset \o identify \o ata_present \o ata_present
                 \o ata_pio_write_w \o <<O("idle", 0)>> \o ata_pio_read_w

Status(bit) == CASE bit = "BSY" -> BSY [] bit = "RDY" -> RDY [] bit = "DRQ" -> DRQ

Waited(bit) == ~Status(bit) \/ polls = Polls

Command(c) == Take(c) /\ UNCHANGED <<buffer, sector, polls, data2>>
\* mutant of Wait: the polls are not counted
WaitUncounted(bit) == UNCHANGED atavars
Wait(bit) == /\ polls' = IF Waited(bit) THEN 0 ELSE polls + 1
             /\ UNCHANGED <<drive, buffer, sector, data2>>

\* outw without DRQ is lost, inw without DRQ returns anything.
outw(i) == /\ IF DRQ
              THEN /\ buffer' = [buffer EXCEPT ![Place] = data[i]]
                   /\ drive' = [drive EXCEPT !.left = @ - 1,
                                             !.bsy = (drive.kind = "slow"
                                                      /\ drive.left = 1)]
                   /\ sector' = IF drive.kind = "fast" /\ drive.left = 1
                                THEN buffer' ELSE sector
              ELSE UNCHANGED <<drive, buffer, sector>>
           /\ UNCHANGED <<polls, data2>>
inw(i) == /\ drive' = IF DRQ THEN [drive EXCEPT !.left = @ - 1] ELSE drive
          /\ data2' = [data2 EXCEPT ![i] = IF DRQ THEN sector[Place] ELSE "junk"]
          /\ UNCHANGED <<buffer, sector, polls>>
skip(i) == /\ drive' = IF DRQ THEN [drive EXCEPT !.left = @ - 1] ELSE drive
           /\ UNCHANGED <<buffer, sector, polls, data2>>
\* while((inb(HD_ST_ALT) & 0xc0) != 0x40)
Idle == ~BSY /\ RDY
=============================================================================
