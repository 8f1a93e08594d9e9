-------------------------------- MODULE Rtc --------------------------------
(***************************************************************************)
(* read_rtc of timer.c against the CMOS clock it reads.                    *)
(*                                                                         *)
(* The clock shows one moment of its timeline after the other.  For each   *)
(* it raises its update-in-progress flag and rewrites its registers, one   *)
(* by one.  read_rtc waits for the flag to be clear, reads the registers   *)
(* one by one, and repeats until two passes agree: an update may begin     *)
(* right after it looked at the flag, and an interrupt may be handled      *)
(* between any two reads.  Then it converts what it read.                  *)
(*                                                                         *)
(* century_register is 0 in this kernel: the century is never read.        *)
(***************************************************************************)
EXTENDS Integers, Sequences

CONSTANTS Timelines,  \* what the clock may show, second after second
          Modes       \* settings of register B: [binary, hours24 : BOOLEAN]

Fields == <<"second", "minute", "hour", "day", "month", "year">>
Field == {"second", "minute", "hour", "day", "month", "year"}
Unread == -1
kCurrentYear == 2016

Time == [second : 0..59, minute : 0..59, hour : 0..23,
         day : 1..31, month : 1..12, year : kCurrentYear..kCurrentYear + 99]

ASSUME RtcAssumption == /\ Timelines \subseteq Seq(Time) \ {<<>>}
                        /\ Modes \subseteq [binary : BOOLEAN, hours24 : BOOLEAN]

VARIABLES timeline, now,  \* the moments of the clock, the index of the current one
          regs,           \* the clock's registers
          uip,            \* update in progress
          mode,           \* register B
          pc,             \* read_rtc: "idle", "wait", "read"
          next,           \* number of the register to read next
          cur, last,      \* the values read in this pass and in the one before
          started,        \* history: now when the last-but-one pass began, and the last
          result          \* what read_rtc returned

clock == <<timeline, now, regs, uip, mode>>
reader == <<pc, next, cur, last, result>>
vars == <<clock, reader, started>>

Nothing == [f \in Field |-> Unread]

-----------------------------------------------------------------------------
(* The clock *)

Bcd(n) == ((n \div 10) * 16) + (n % 10)

\* On a 12 hour clock noon and midnight are twelve o'clock, and bit 7 marks the
\* afternoon.
Hour12(h) == IF h % 12 = 0 THEN 12 ELSE h % 12

EncodeHour(h, m) ==
    IF m.hours24 THEN IF m.binary THEN h ELSE Bcd(h)
    ELSE (IF m.binary THEN Hour12(h) ELSE Bcd(Hour12(h))) + (IF h >= 12 THEN 128 ELSE 0)

Encode(t, m) ==
    LET code(n) == IF m.binary THEN n ELSE Bcd(n)
    IN  [second |-> code(t.second), minute |-> code(t.minute),
         hour |-> EncodeHour(t.hour, m), day |-> code(t.day),
         month |-> code(t.month), year |-> code(t.year % 100)]

Shown == Encode(timeline[now], mode)

\* A pass takes microseconds, and the updates are a second apart: between the
\* beginning of one pass and the end of the next at most one update begins.
BeginUpdate ==
    /\ ~uip /\ now < Len(timeline)
    /\ pc # "idle" => started[1] = now
    /\ uip' = TRUE /\ now' = now + 1
    /\ UNCHANGED <<timeline, regs, mode, reader, started>>

UpdateRegister(f) ==
    /\ uip /\ regs[f] # Shown[f]
    /\ regs' = [regs EXCEPT ![f] = Shown[f]]
    /\ UNCHANGED <<timeline, now, uip, mode, reader, started>>

EndUpdate == /\ uip /\ regs = Shown
             /\ uip' = FALSE
             /\ UNCHANGED <<timeline, now, regs, mode, reader, started>>

Clock == BeginUpdate \/ EndUpdate \/ \E f \in Field : UpdateRegister(f)

-----------------------------------------------------------------------------
(* read_rtc *)

Init == /\ timeline \in Timelines /\ now = 1
        /\ mode \in Modes
        /\ regs = Encode(timeline[1], mode) /\ uip = FALSE
        /\ pc = "idle" /\ next = 1
        /\ cur = Nothing /\ last = Nothing /\ result = Nothing
        /\ started = <<1, 1>>

\* kmain calls read_rtc.
Call == /\ pc = "idle"
        /\ pc' = "wait" /\ next' = 1
        /\ cur' = Nothing /\ last' = Nothing
        /\ started' = <<now, now>>
        /\ UNCHANGED <<clock, result>>

\* mutant of LookAtFlag: the flag is only looked at before the first pass
LookAtFlagOnce ==
    /\ pc = "wait" /\ (last = Nothing => ~uip)
    /\ pc' = "read" /\ next' = 1
    /\ started' = IF last = Nothing THEN <<now, now>> ELSE <<started[2], now>>
    /\ UNCHANGED <<clock, cur, last, result>>

\* while (get_update_in_progress_flag());
LookAtFlag ==
    /\ pc = "wait" /\ ~uip
    /\ pc' = "read" /\ next' = 1
    /\ started' = IF last = Nothing THEN <<now, now>> ELSE <<started[2], now>>
    /\ UNCHANGED <<clock, cur, last, result>>

get_RTC_register ==
    /\ pc = "read" /\ next <= Len(Fields)
    /\ cur' = [cur EXCEPT ![Fields[next]] = regs[Fields[next]]]
    /\ next' = next + 1
    /\ UNCHANGED <<clock, pc, last, started, result>>

PassEnds == pc = "read" /\ next > Len(Fields)

\* mutant of ReadAgain: the last_ variables are set once, before the loop
ReadAgainKeepLast ==
    /\ PassEnds /\ cur # last
    /\ pc' = "wait"
    /\ last' = IF last = Nothing THEN cur ELSE last
    /\ UNCHANGED <<clock, next, cur, started, result>>

\* Any of the values differs from the pass before, or there was none.
ReadAgain ==
    /\ PassEnds /\ cur # last
    /\ pc' = "wait" /\ last' = cur
    /\ UNCHANGED <<clock, next, cur, started, result>>

U8(n) == n % 256
FromBcd(n) == (n % 16) + ((n \div 16) * 10)

\* mutant of Decode24: bit 7 of the hour is taken for a BCD digit
Decode24Bit7(h, m) == IF m.binary THEN h ELSE U8(FromBcd(h))

\* The hour before the 12 hour conversion, bit 7 kept.
Decode24(h, m) == IF m.binary THEN h ELSE U8(FromBcd(h % 128)) + ((h \div 128) * 128)

\* mutant of FullYear: the current year is put into the next century
FullYearNext(y) == IF y + 2000 <= kCurrentYear THEN y + 2100 ELSE y + 2000

\* year += (kCurrentYear / 100) * 100; if(year < kCurrentYear) year += 100;
FullYear(y) ==
    LET year == y + (kCurrentYear \div 100) * 100
    IN  IF year < kCurrentYear THEN year + 100 ELSE year

\* A 12 hour clock whose hour has bit 7 is half a day further.
FullHour(h, m) == IF ~m.hours24 /\ h >= 128 THEN (h - 128 + 12) % 24 ELSE h

\* The conversions at the end of read_rtc.
Convert(r, m) ==
    LET plain(n) == IF m.binary THEN n ELSE U8(FromBcd(n))
    IN  [second |-> plain(r.second), minute |-> plain(r.minute),
         hour |-> FullHour(Decode24(r.hour, m), m), day |-> plain(r.day),
         month |-> plain(r.month), year |-> FullYear(plain(r.year))]

Finish ==
    /\ PassEnds /\ cur = last
    /\ pc' = "idle"
    /\ result' = Convert(cur, mode)
    /\ UNCHANGED <<clock, next, cur, last, started>>

read_rtc == LookAtFlag \/ get_RTC_register \/ ReadAgain \/ Finish

Next == Clock \/ Call \/ read_rtc

Spec == Init /\ [][Next]_vars /\ WF_vars(Clock) /\ WF_vars(read_rtc)

-----------------------------------------------------------------------------
(* Properties *)

TypeOK == /\ timeline \in Timelines /\ now \in 1..Len(timeline)
          /\ regs \in [Field -> 0..255] /\ uip \in BOOLEAN
          /\ mode \in Modes
          /\ pc \in {"idle", "wait", "read"} /\ next \in 1..Len(Fields) + 1
          /\ cur \in [Field -> 0..255 \cup {Unread}]
          /\ last \in [Field -> 0..255 \cup {Unread}]
          /\ started \in (1..Len(timeline)) \X (1..Len(timeline))
          /\ result \in [Field -> 0..kCurrentYear + 99] \cup {Nothing}

\* The moments the clock showed since the last-but-one pass began.
Window == started[1]..now

\* Two passes that agree have read one moment, never a mixture of two: reading
\* until the values repeat makes up for the flag being stale as soon as it has
\* been looked at (timer.c:156).
Consistent ==
    PassEnds /\ cur = last => \E k \in Window : cur = Encode(timeline[k], mode)

\* read_rtc returns a time the clock showed while it was reading, whatever the
\* clock's mode; twelve o'clock on a 12 hour clock is excepted.
RightTime ==
    [][Finish => \E k \in Window :
            \/ result' = timeline[k]
            \/ ~mode.hours24 /\ timeline[k].hour % 12 = 0]_vars

\* The passes come to agree, and read_rtc returns.
ReadReturns == pc # "idle" ~> pc = "idle"

\* timer.c:222 announces the conversion of the 12 hour clock to a 24 hour clock:
\* the time returned is one the clock showed, at twelve o'clock too.
RightTimeAlways == [][Finish => \E k \in Window : result' = timeline[k]]_vars
=============================================================================
