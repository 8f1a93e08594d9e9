----------------------------- MODULE RtcProofs -----------------------------
(***************************************************************************)
(* Two passes of read_rtc that agree have read one moment of the clock,    *)
(* and the conversions give that moment back but for twelve o'clock, for   *)
(* every timeline and every mode.                                          *)
(*                                                                         *)
(* The argument is about the one update that may begin during two passes.  *)
(* While none has begun since the last look at the flag, the clock is not  *)
(* updating and the pass has read the current moment.  Once one has, none  *)
(* began during the pass before, which has read a single moment.           *)
(***************************************************************************)
EXTENDS Rtc, TLAPS

Settings == [binary : BOOLEAN, hours24 : BOOLEAN]
Moment(k) == Encode(timeline[k], mode)

\* What the steps need to know of the values.
Types == /\ timeline \in Timelines /\ mode \in Modes
         /\ now \in 1..Len(timeline)
         /\ started \in (1..Len(timeline)) \X (1..Len(timeline))
         /\ next \in 1..Len(Fields) + 1
         /\ pc \in {"idle", "wait", "read"}
         /\ uip \in BOOLEAN
         /\ regs \in [Field -> Nat]
         /\ cur \in [Field -> Int]
         /\ last \in [Field -> Int]

\* An idle clock shows the current moment.
Settled == ~uip => regs = Moment(now)

\* At most one update begins between the beginning of a pass and the end of the next.
OneUpdate == pc # "idle" => /\ started[1] <= started[2]
                            /\ started[2] <= now
                            /\ now <= started[1] + 1

\* As long as no update has begun, a pass reads the moment it began in.
PassReads == pc = "read" /\ now = started[2] =>
                /\ ~uip
                /\ \A i \in 1..Len(Fields) :
                      i < next => cur[Fields[i]] = Moment(now)[Fields[i]]

\* An undisturbed pass before has read the moment it began in.
PassBefore == /\ pc = "wait" /\ last # Nothing /\ now = started[2]
                    => last = Moment(now)
              /\ pc = "read" /\ last # Nothing /\ started[1] = started[2]
                    => last = Moment(started[1])

\* A pass that has read a register is told from no pass at all.
Something == pc = "read" /\ next > 1 => cur["second"] >= 0

IInv == Types /\ Settled /\ OneUpdate /\ PassReads /\ PassBefore /\ Something

-----------------------------------------------------------------------------

\* The order in which the registers are read names each of them once.
LEMMA FieldNames ==
    /\ Len(Fields) = 6
    /\ Fields[1] = "second" /\ Fields[2] = "minute" /\ Fields[3] = "hour"
    /\ Fields[4] = "day" /\ Fields[5] = "month" /\ Fields[6] = "year"
    /\ \A i \in 1..6 : Fields[i] \in Field
    /\ \A f \in Field : \E i \in 1..6 : f = Fields[i]
<1>1. /\ Len(Fields) = 6
      /\ Fields[1] = "second" /\ Fields[2] = "minute" /\ Fields[3] = "hour"
      /\ Fields[4] = "day" /\ Fields[5] = "month" /\ Fields[6] = "year"
  BY DEF Fields
<1>2. \A i \in 1..6 : \/ i = 1 \/ i = 2 \/ i = 3 \/ i = 4 \/ i = 5 \/ i = 6
  OBVIOUS
<1>. QED BY <1>1, <1>2 DEF Field

\* What the registers encode is a natural number.
LEMMA CodeNat ==
    ASSUME NEW n \in Nat
    PROVE  Bcd(n) \in Nat
<1>1. n \div 10 \in Nat /\ n % 10 \in Nat
  OBVIOUS
<1>. QED BY <1>1 DEF Bcd

LEMMA EncodeNat ==
    ASSUME NEW t \in Time, NEW m \in Settings
    PROVE  Encode(t, m) \in [Field -> Nat]
<1>1. /\ t.year \in Nat /\ t.hour \in Nat /\ t.second \in Nat
      /\ t.minute \in Nat /\ t.day \in Nat /\ t.month \in Nat
  BY DEF Time, kCurrentYear
<1>2. t.year % 100 \in Nat /\ Hour12(t.hour) \in Nat
  <2>1. t.hour % 12 \in Nat
    BY <1>1
  <2>. QED BY <1>1, <2>1 DEF Hour12
<1>3. \A n \in Nat : Bcd(n) \in Nat
  BY CodeNat
<1>4. EncodeHour(t.hour, m) \in Nat
  <2>1. Bcd(t.hour) \in Nat /\ Bcd(Hour12(t.hour)) \in Nat
    BY <1>1, <1>2, <1>3
  <2>. QED BY <1>1, <1>2, <2>1 DEF EncodeHour
<1>5. ASSUME NEW n \in Nat
      PROVE  (IF m.binary THEN n ELSE Bcd(n)) \in Nat
  BY <1>3
<1>. QED BY <1>1, <1>2, <1>4, <1>5 DEF Encode, Field

LEMMA MomentNat ==
    ASSUME timeline \in Timelines, mode \in Modes, NEW k \in 1..Len(timeline)
    PROVE  Moment(k) \in [Field -> Nat]
<1>1. timeline[k] \in Time /\ mode \in Settings
  BY RtcAssumption DEF RtcAssumption, Settings
<1>. QED BY <1>1, EncodeNat DEF Moment

\* A pass that has read every register of a moment has read the moment.
LEMMA WholePass ==
    ASSUME Types, PassEnds,
           \A i \in 1..Len(Fields) : i < next => cur[Fields[i]] = Moment(now)[Fields[i]]
    PROVE  cur = Moment(now)
<1>1. Moment(now) \in [Field -> Nat]
  BY MomentNat DEF Types
<1>2. cur \in [Field -> Int] /\ next \in 1..Len(Fields) + 1
  BY DEF Types
<1>3. \A i \in 1..6 : cur[Fields[i]] = Moment(now)[Fields[i]]
  BY <1>2, FieldNames DEF PassEnds
<1>4. \A f \in Field : cur[f] = Moment(now)[f]
  BY <1>3, FieldNames
<1>. QED BY <1>1, <1>2, <1>4

\* A pass in which all registers were read has a second to show for it.
LEMMA NotNothing ==
    ASSUME Types, Something, PassEnds
    PROVE  cur # Nothing
<1>0. next \in Int
  BY DEF Types
<1>1. cur["second"] >= 0
  BY <1>0, FieldNames DEF Something, PassEnds
<1>2. Nothing["second"] = -1
  BY DEF Nothing, Field, Unread
<1>. QED BY <1>1, <1>2

LEMMA IInvConsistent ==
    ASSUME IInv
    PROVE  Consistent
<1>. SUFFICES ASSUME PassEnds, cur = last
              PROVE  \E k \in Window : cur = Moment(k)
  BY DEF Consistent, Moment
<1>1. now \in Int /\ started[1] \in Int /\ started[2] \in Int
  BY DEF IInv, Types
<1>2. started[1] <= started[2] /\ started[2] <= now /\ now <= started[1] + 1
  BY DEF IInv, OneUpdate, PassEnds
<1>3. CASE now = started[2]
  <2>1. cur = Moment(now)
    BY <1>3, WholePass DEF IInv, PassReads, PassEnds
  <2>. QED BY <1>1, <1>2, <2>1 DEF Window
<1>4. CASE now # started[2]
  <2>1. started[1] = started[2]
    BY <1>1, <1>2, <1>4
  <2>2. cur # Nothing
    BY NotNothing DEF IInv
  <2>3. cur = Moment(started[1])
    BY <2>1, <2>2 DEF IInv, PassBefore, PassEnds
  <2>. QED BY <1>1, <1>2, <2>3 DEF Window
<1>. QED BY <1>3, <1>4

-----------------------------------------------------------------------------
(* The conversions at the end of read_rtc, against those of the clock *)

\* Two decimal digits go through BCD unchanged, in fewer than eight bits.
LEMMA BcdBack ==
    ASSUME NEW n \in 0..99
    PROVE  /\ Bcd(n) \in 0..153 /\ (n < 24 => Bcd(n) < 36)
           /\ FromBcd(Bcd(n)) = n /\ U8(n) = n
<1>1. PICK q \in 0..9, r \in 0..9 : n = (10 * q) + r /\ n \div 10 = q /\ n % 10 = r
  OBVIOUS
<1>2. Bcd(n) = (16 * q) + r
  BY <1>1 DEF Bcd
<1>3. ((16 * q) + r) % 16 = r /\ ((16 * q) + r) \div 16 = q
  OBVIOUS
<1>. QED BY <1>1, <1>2, <1>3 DEF FromBcd, U8

\* The year read_rtc assumes, for the hundred years from the current one on.
LEMMA YearBack ==
    ASSUME NEW y \in kCurrentYear..kCurrentYear + 99
    PROVE  y % 100 \in 0..99 /\ FullYear(y % 100) = y
<1>1. kCurrentYear = 2016 /\ kCurrentYear \div 100 = 20
  BY DEF kCurrentYear
<1>. QED BY <1>1 DEF FullYear

\* The hour comes back but for twelve o'clock on a 12 hour clock, where midnight
\* and noon change places.
HourBack(h, m) == IF m.hours24 \/ h % 12 # 0 THEN h ELSE 12 - h

LEMMA HourComesBack ==
    ASSUME NEW h \in 0..23, NEW m \in Settings
    PROVE  /\ EncodeHour(h, m) \in 0..255
           /\ FullHour(Decode24(EncodeHour(h, m), m), m) = HourBack(h, m)
<1>0. m.binary \in BOOLEAN /\ m.hours24 \in BOOLEAN
  BY DEF Settings
<1>1. CASE m.hours24
  <2>1. /\ Bcd(h) \in 0..35 /\ FromBcd(Bcd(h)) = h /\ U8(h) = h
    <3>1. h \in 0..99 /\ h < 24
      OBVIOUS
    <3>2. Bcd(h) \in 0..153 /\ Bcd(h) < 36
      BY <3>1, BcdBack
    <3>3. Bcd(h) \in 0..35
      BY <3>2
    <3>4. FromBcd(Bcd(h)) = h /\ U8(h) = h
      BY <3>1, BcdBack
    <3>. QED BY <3>3, <3>4
  <2>2. Bcd(h) % 128 = Bcd(h) /\ Bcd(h) \div 128 = 0
    BY <2>1
  <2>3. EncodeHour(h, m) = IF m.binary THEN h ELSE Bcd(h)
    BY <1>1 DEF EncodeHour
  <2>4. Decode24(EncodeHour(h, m), m) = h
    BY <1>0, <2>1, <2>2, <2>3 DEF Decode24
  <2>. QED BY <1>0, <1>1, <2>1, <2>3, <2>4 DEF FullHour, HourBack
<1>2. CASE ~m.hours24
  <2>. DEFINE g == Hour12(h)
              pm == IF h >= 12 THEN 1 ELSE 0
              code == IF m.binary THEN g ELSE Bcd(g)
  <2>1. g \in 1..12 /\ pm \in 0..1
    BY DEF Hour12
  <2>. HIDE DEF g, pm
  <2>2. Bcd(g) \in 0..35 /\ FromBcd(Bcd(g)) = g /\ U8(g) = g
    <3>1. g \in 0..99 /\ g < 24
      BY <2>1
    <3>2. Bcd(g) \in 0..153 /\ Bcd(g) < 36
      BY <3>1, BcdBack
    <3>3. Bcd(g) \in 0..35
      BY <3>2
    <3>4. FromBcd(Bcd(g)) = g /\ U8(g) = g
      BY <3>1, BcdBack
    <3>. QED BY <3>3, <3>4
  <2>3. code \in 0..35
    BY <1>0, <2>1, <2>2
  <2>4. EncodeHour(h, m) = code + (128 * pm)
    BY <1>0, <1>2, <2>3 DEF EncodeHour, g, pm
  <2>5. Decode24(EncodeHour(h, m), m) = g + (128 * pm)
    <3>1. CASE m.binary
      BY <2>4, <3>1 DEF Decode24
    <3>2. CASE ~m.binary
      <4>1. /\ (Bcd(g) + (128 * pm)) % 128 = Bcd(g)
            /\ (Bcd(g) + (128 * pm)) \div 128 = pm
        BY <2>1, <2>2
      <4>. QED BY <2>1, <2>2, <2>4, <3>2, <4>1 DEF Decode24
    <3>. QED BY <1>0, <3>1, <3>2
  <2>6. FullHour(g + (128 * pm), m) = IF pm = 1 THEN (g + 12) % 24 ELSE g
    BY <1>2, <2>1 DEF FullHour
  <2>7. (IF pm = 1 THEN (g + 12) % 24 ELSE g) = HourBack(h, m)
    BY <1>2 DEF g, pm, Hour12, HourBack
  <2>. QED BY <2>1, <2>3, <2>4, <2>5, <2>6, <2>7
<1>. QED BY <1>0, <1>1, <1>2

\* What read_rtc makes of the registers of a moment, in every register format.
LEMMA MomentComesBack ==
    ASSUME NEW t \in Time, NEW m \in Settings
    PROVE  /\ Encode(t, m) \in [Field -> 0..255]
           /\ Convert(Encode(t, m), m) = [t EXCEPT !.hour = HourBack(@, m)]
<1>0. /\ m.binary \in BOOLEAN
      /\ t = [second |-> t.second, minute |-> t.minute, hour |-> t.hour,
              day |-> t.day, month |-> t.month, year |-> t.year]
  BY DEF Settings, Time
<1>1. /\ t.second \in 0..99 /\ t.minute \in 0..99 /\ t.hour \in 0..23
      /\ t.day \in 0..99 /\ t.month \in 0..99
      /\ t.year \in kCurrentYear..kCurrentYear + 99
  BY DEF Time
<1>2. t.year % 100 \in 0..99 /\ FullYear(t.year % 100) = t.year
  BY <1>1, YearBack
<1>. DEFINE code(n) == IF m.binary THEN n ELSE Bcd(n)
            plain(n) == IF m.binary THEN n ELSE U8(FromBcd(n))
            r == Encode(t, m)
<1>3. ASSUME NEW n \in 0..99
      PROVE  code(n) \in 0..255 /\ plain(code(n)) = n
  BY SMTT(30), <1>0, BcdBack
<1>4. /\ EncodeHour(t.hour, m) \in 0..255
      /\ FullHour(Decode24(EncodeHour(t.hour, m), m), m) = HourBack(t.hour, m)
  BY <1>1, HourComesBack
<1>5. r = [second |-> code(t.second), minute |-> code(t.minute),
           hour |-> EncodeHour(t.hour, m), day |-> code(t.day),
           month |-> code(t.month), year |-> code(t.year % 100)]
  BY DEF Encode
<1>6. Convert(r, m) =
         [second |-> plain(r.second), minute |-> plain(r.minute),
          hour |-> FullHour(Decode24(r.hour, m), m), day |-> plain(r.day),
          month |-> plain(r.month), year |-> FullYear(plain(r.year))]
  BY DEF Convert
<1>7. /\ code(t.second) \in 0..255 /\ plain(code(t.second)) = t.second
      /\ code(t.minute) \in 0..255 /\ plain(code(t.minute)) = t.minute
      /\ code(t.day) \in 0..255 /\ plain(code(t.day)) = t.day
      /\ code(t.month) \in 0..255 /\ plain(code(t.month)) = t.month
      /\ code(t.year % 100) \in 0..255 /\ plain(code(t.year % 100)) = t.year % 100
  BY <1>1, <1>2, <1>3
<1>. HIDE DEF code, plain, r
<1>8. r \in [Field -> 0..255]
  <2>1. r \in [Field -> Nat]
    BY EncodeNat DEF r
  <2>2. /\ r["second"] \in 0..255 /\ r["minute"] \in 0..255 /\ r["hour"] \in 0..255
        /\ r["day"] \in 0..255 /\ r["month"] \in 0..255 /\ r["year"] \in 0..255
    BY <1>4, <1>5, <1>7
  <2>3. \A f \in Field : r[f] \in 0..255
    BY <2>2 DEF Field
  <2>. QED BY <2>1, <2>3
<1>9. Convert(r, m) = [second |-> t.second, minute |-> t.minute,
                       hour |-> HourBack(t.hour, m), day |-> t.day,
                       month |-> t.month, year |-> t.year]
  BY <1>2, <1>4, <1>5, <1>6, <1>7
<1>10. [t EXCEPT !.hour = HourBack(@, m)] = Convert(r, m)
  BY <1>0, <1>9
<1>. QED BY <1>8, <1>10 DEF r

-----------------------------------------------------------------------------

\* The moment that read_rtc returns.
LEMMA FinishReturns ==
    ASSUME IInv, Finish
    PROVE  \E k \in Window : /\ k \in 1..Len(timeline) /\ timeline[k] \in Time
                             /\ result' = [timeline[k] EXCEPT
                                              !.hour = HourBack(@, mode)]
<1>1. PICK k \in Window : cur = Encode(timeline[k], mode)
  BY IInvConsistent DEF Consistent, Finish
<1>2. k \in 1..Len(timeline)
  BY <1>1 DEF Window, IInv, Types
<1>3. timeline[k] \in Time /\ mode \in Settings
  BY <1>2, RtcAssumption DEF RtcAssumption, IInv, Types, Settings
<1>. QED BY <1>1, <1>2, <1>3, MomentComesBack DEF Finish

LEMMA FinishRight ==
    ASSUME IInv, Finish
    PROVE  \E k \in Window : \/ result' = timeline[k]
                             \/ ~mode.hours24 /\ timeline[k].hour % 12 = 0
<1>1. PICK k \in Window : /\ timeline[k] \in Time
                          /\ result' = [timeline[k] EXCEPT !.hour = HourBack(@, mode)]
  BY FinishReturns
<1>2. CASE mode.hours24 \/ timeline[k].hour % 12 # 0
  BY <1>1, <1>2 DEF HourBack, Time
<1>. QED BY <1>2

-----------------------------------------------------------------------------
(* The inductive invariant *)

LEMMA InitIInv == Init => IInv
<1>. SUFFICES ASSUME Init PROVE IInv
  OBVIOUS
<1>1. timeline \in Seq(Time) \ {<<>>} /\ now \in 1..Len(timeline)
  BY RtcAssumption DEF Init, RtcAssumption
<1>2. regs \in [Field -> Nat] /\ regs = Moment(now)
  BY <1>1, MomentNat DEF Init, Moment
<1>3. Nothing \in [Field -> Int]
  BY DEF Nothing, Unread
<1>4. Types
  <2>1. started \in (1..Len(timeline)) \X (1..Len(timeline)) /\ next \in 1..Len(Fields) + 1
    <3>1. 1 \in 1..Len(timeline)
      BY <1>1 DEF Init
    <3>. QED BY <3>1, FieldNames DEF Init
  <2>2. cur \in [Field -> Int] /\ last \in [Field -> Int]
    BY <1>3 DEF Init
  <2>3. timeline \in Timelines /\ mode \in Modes /\ pc = "idle" /\ uip \in BOOLEAN
    BY DEF Init
  <2>. QED BY <1>1, <1>2, <2>1, <2>2, <2>3 DEF Types
<1>. QED BY <1>2, <1>4 DEF Init, IInv, Settled, OneUpdate, PassReads, PassBefore, Something

LEMMA ClockKeepsIInv ==
    ASSUME IInv, Clock
    PROVE  IInv'
<1>1. /\ timeline \in Timelines /\ mode \in Modes /\ now \in 1..Len(timeline)
      /\ started[1] \in Int /\ started[2] \in Int /\ now \in Int
      /\ regs \in [Field -> Nat]
  BY DEF IInv, Types
<1>2. CASE BeginUpdate
  <2>1. Types'
    BY <1>1, <1>2 DEF BeginUpdate, IInv, Types, reader
  <2>2. Settled'
    BY <1>2 DEF BeginUpdate, Settled
  <2>3. OneUpdate'
    BY <1>1, <1>2 DEF BeginUpdate, IInv, OneUpdate, reader
  <2>4. pc # "idle" => now' # started'[2]
    BY <1>1, <1>2 DEF BeginUpdate, IInv, OneUpdate
  <2>5. PassReads' /\ Something'
    BY <1>2, <2>4 DEF BeginUpdate, PassReads, Something, IInv, reader
  <2>6. PassBefore'
    BY <1>2, <2>4 DEF BeginUpdate, PassBefore, IInv, reader, Moment
  <2>. QED BY <2>1, <2>2, <2>3, <2>5, <2>6 DEF IInv
<1>3. ASSUME NEW f \in Field, UpdateRegister(f)
      PROVE  IInv'
  <2>1. Shown[f] \in Nat
    BY <1>1, MomentNat DEF Shown, Moment
  <2>2. Types'
    BY <1>1, <1>3, <2>1 DEF UpdateRegister, IInv, Types, reader
  <2>3. Settled' /\ OneUpdate' /\ PassReads' /\ PassBefore' /\ Something'
    BY <1>3 DEF UpdateRegister, Settled, OneUpdate, PassReads, PassBefore, Something,
                IInv, reader, Moment
  <2>. QED BY <2>2, <2>3 DEF IInv
<1>4. CASE EndUpdate
  <2>1. Types'
    BY <1>4 DEF EndUpdate, IInv, Types, reader
  <2>2. Settled'
    BY <1>4 DEF EndUpdate, Settled, Shown, Moment
  <2>3. OneUpdate' /\ PassReads' /\ PassBefore' /\ Something'
    BY <1>4 DEF EndUpdate, OneUpdate, PassReads, PassBefore, Something, IInv, reader, Moment
  <2>. QED BY <2>1, <2>2, <2>3 DEF IInv
<1>. QED BY <1>2, <1>3, <1>4 DEF Clock

LEMMA ReaderKeepsIInv ==
    ASSUME IInv, Call \/ read_rtc
    PROVE  IInv'
<1>1. /\ timeline \in Timelines /\ mode \in Modes /\ now \in 1..Len(timeline)
      /\ started \in (1..Len(timeline)) \X (1..Len(timeline))
      /\ Len(timeline) \in Nat /\ started[1] \in Int /\ started[2] \in Int /\ now \in Nat
      /\ regs \in [Field -> Nat] /\ next \in Int /\ Len(Fields) = 6
  <2>1. timeline \in Seq(Time)
    BY RtcAssumption DEF RtcAssumption, IInv, Types
  <2>2. Len(timeline) \in Nat
    BY <2>1
  <2>. QED BY <2>2, FieldNames DEF IInv, Types
<1>2. Nothing \in [Field -> Int]
  BY DEF Nothing, Unread
<1>3. UNCHANGED clock
  BY DEF Call, read_rtc, LookAtFlag, get_RTC_register, ReadAgain, Finish
<1>4. Settled'
  BY <1>3 DEF IInv, Settled, Moment, clock
<1>5. CASE Call
  <2>1. Types'
    <3>1. started' \in (1..Len(timeline)) \X (1..Len(timeline)) /\ next' \in 1..Len(Fields) + 1
      BY <1>1, <1>5 DEF Call
    <3>2. cur' \in [Field -> Int] /\ last' \in [Field -> Int]
      BY <1>2, <1>5 DEF Call
    <3>. QED BY <1>3, <1>5, <3>1, <3>2 DEF Call, IInv, Types, clock
  <2>2. OneUpdate' /\ PassReads' /\ PassBefore' /\ Something'
    BY <1>1, <1>3, <1>5 DEF Call, OneUpdate, PassReads, PassBefore, Something, clock
  <2>. QED BY <1>4, <2>1, <2>2 DEF IInv
<1>6. CASE LookAtFlag
  <2>1. started' \in (1..Len(timeline)) \X (1..Len(timeline))
    BY <1>1, <1>6 DEF LookAtFlag
  <2>2. Types'
    BY <1>1, <1>3, <1>6, <2>1 DEF LookAtFlag, IInv, Types, clock
  <2>3. started'[2] = now
    BY <1>1, <1>6 DEF LookAtFlag
  <2>4. OneUpdate'
    BY <1>1, <1>3, <1>6 DEF LookAtFlag, IInv, OneUpdate, clock
  <2>5. PassReads'
    <3>1. \A i \in 1..Len(Fields) : ~(i < next')
      BY <1>1, <1>6 DEF LookAtFlag
    <3>. QED BY <1>3, <1>6, <3>1 DEF LookAtFlag, PassReads, clock
  <2>6. PassBefore'
    <3>1. ASSUME last # Nothing, started'[1] = started'[2]
          PROVE  last = Moment(now)
      BY <1>1, <1>6, <3>1 DEF LookAtFlag, IInv, PassBefore
    <3>. QED BY <1>3, <1>6, <2>3, <3>1 DEF LookAtFlag, PassBefore, clock, Moment
  <2>7. Something'
    BY <1>6 DEF LookAtFlag, Something
  <2>. QED BY <1>4, <2>2, <2>4, <2>5, <2>6, <2>7 DEF IInv
<1>7. CASE get_RTC_register
  <2>1. next \in 1..6 /\ Fields[next] \in Field
    <3>1. next \in 1..7 /\ next <= 6
      BY <1>7, FieldNames DEF get_RTC_register, IInv, Types
    <3>2. next \in 1..6
      BY <3>1
    <3>. QED BY <3>2, FieldNames
  <2>2. /\ cur \in [Field -> Int]
        /\ cur' = [cur EXCEPT ![Fields[next]] = regs[Fields[next]]]
        /\ regs[Fields[next]] \in Nat
    BY <1>1, <1>7, <2>1 DEF get_RTC_register, IInv, Types
  <2>3. cur' \in [Field -> Int] /\ next' = next + 1
    BY <1>7, <2>1, <2>2 DEF get_RTC_register
  <2>4. Types'
    BY <1>1, <1>3, <1>7, <2>1, <2>3 DEF get_RTC_register, IInv, Types, clock
  <2>5. OneUpdate' /\ PassBefore'
    BY <1>3, <1>7 DEF get_RTC_register, IInv, OneUpdate, PassBefore, clock, Moment
  <2>6. PassReads'
    <3>1. SUFFICES ASSUME now = started[2]
                   PROVE  /\ ~uip
                          /\ \A i \in 1..Len(Fields) : i < next + 1
                                => cur'[Fields[i]] = Moment(now)[Fields[i]]
      BY <1>3, <1>7, <2>3 DEF get_RTC_register, PassReads, clock, Moment
    <3>2. /\ ~uip
          /\ \A i \in 1..Len(Fields) :
                i < next => cur[Fields[i]] = Moment(now)[Fields[i]]
      BY <1>7, <3>1 DEF get_RTC_register, IInv, PassReads
    <3>3. regs = Moment(now)
      BY <3>2 DEF IInv, Settled
    <3>4. ASSUME NEW i \in 1..Len(Fields), i < next + 1
          PROVE  cur'[Fields[i]] = Moment(now)[Fields[i]]
      <4>1. Fields[i] \in Field
        BY FieldNames
      <4>2. CASE Fields[i] = Fields[next]
        BY <2>1, <2>2, <3>3, <4>1, <4>2
      <4>3. CASE Fields[i] # Fields[next]
        <5>1. i < next
          BY <1>1, <3>4, <4>3
        <5>. QED BY <2>2, <3>2, <4>1, <4>3, <5>1
      <4>. QED BY <4>2, <4>3
    <3>. QED BY <3>2, <3>4
  <2>7. Something'
    <3>1. "second" \in Field /\ (Fields[next] = "second" \/ next > 1)
      BY <2>1, FieldNames DEF Field
    <3>2. cur'["second"] >= 0
      <4>1. CASE Fields[next] = "second"
        BY <2>2, <3>1, <4>1
      <4>2. CASE Fields[next] # "second"
        BY <1>7, <2>2, <3>1, <4>2 DEF get_RTC_register, IInv, Something
      <4>. QED BY <4>1, <4>2
    <3>. QED BY <3>2 DEF Something
  <2>. QED BY <1>4, <2>4, <2>5, <2>6, <2>7 DEF IInv
<1>8. CASE ReadAgain
  <2>1. Types'
    BY <1>1, <1>3, <1>8 DEF ReadAgain, IInv, Types, clock
  <2>2. OneUpdate' /\ PassReads' /\ Something'
    BY <1>3, <1>8 DEF ReadAgain, PassEnds, IInv, OneUpdate, PassReads, Something, clock
  <2>3. now = started[2] => cur = Moment(now)
    BY <1>8, WholePass DEF ReadAgain, IInv, PassReads, PassEnds
  <2>4. PassBefore'
    BY <1>3, <1>8, <2>3 DEF ReadAgain, PassBefore, clock, Moment
  <2>. QED BY <1>4, <2>1, <2>2, <2>4 DEF IInv
<1>9. CASE Finish
  <2>1. Types'
    BY <1>1, <1>3, <1>9 DEF Finish, IInv, Types, clock
  <2>2. OneUpdate' /\ PassReads' /\ PassBefore' /\ Something'
    BY <1>9 DEF Finish, OneUpdate, PassReads, PassBefore, Something
  <2>. QED BY <1>4, <2>1, <2>2 DEF IInv
<1>. QED BY <1>5, <1>6, <1>7, <1>8, <1>9 DEF read_rtc

-----------------------------------------------------------------------------
(* Theorems *)

\* The strengthened invariant holds of read_rtc and the clock.
THEOREM Inductive == Spec => []IInv
<1>1. IInv /\ [Next]_vars => IInv'
  <2>. SUFFICES ASSUME IInv, [Next]_vars PROVE IInv'
    OBVIOUS
  <2>1. CASE Next
    BY <2>1, ClockKeepsIInv, ReaderKeepsIInv DEF Next
  <2>2. CASE UNCHANGED vars
    BY <2>2 DEF vars, clock, reader, IInv, Types, Settled, OneUpdate, PassReads,
                PassBefore, Something, Moment
  <2>. QED BY <2>1, <2>2
<1>. QED BY InitIInv, <1>1, PTL DEF Spec

\* Passes of read_rtc that agree have read one moment, for every timeline.
THEOREM PassesConsistent == Spec => []Consistent
BY Inductive, IInvConsistent, PTL

\* What read_rtc returns is a time the clock showed while it was reading, in every
\* register format, but for twelve o'clock on a 12 hour clock.
THEOREM ReturnsRightTime == Spec => RightTime
<1>1. IInv /\ [Next]_vars =>
         [Finish => \E k \in Window :
            \/ result' = timeline[k]
            \/ ~mode.hours24 /\ timeline[k].hour % 12 = 0]_vars
  BY FinishRight
<1>. QED BY Inductive, <1>1, PTL DEF RightTime, Spec

-----------------------------------------------------------------------------
(* Types *)

Bytes == 0..255
ByteOrUnread == 0..255 \cup {Unread}

LEMMA MomentBytes ==
    ASSUME Types, NEW k \in 1..Len(timeline)
    PROVE  Moment(k) \in [Field -> Bytes]
<1>1. timeline[k] \in Time /\ mode \in Settings
  BY RtcAssumption DEF RtcAssumption, Types, Settings
<1>. QED BY <1>1, MomentComesBack DEF Moment, Bytes

LEMMA InitTypeOK == ASSUME Init PROVE TypeOK
<1>1. IInv /\ Types /\ 1 \in 1..Len(timeline) /\ now = 1
  BY InitIInv DEF IInv, Types, Init
<1>2. regs \in [Field -> Bytes]
  BY <1>1, MomentBytes DEF Init, Moment
<1>3. Nothing \in [Field -> ByteOrUnread]
  BY DEF Nothing, ByteOrUnread
<1>. QED BY <1>1, <1>2, <1>3 DEF Init, TypeOK, Types, Bytes, ByteOrUnread

LEMMA ResultType ==
    ASSUME IInv, Finish
    PROVE  result' \in [Field -> 0..kCurrentYear + 99]
<1>1. PICK k \in Window : /\ timeline[k] \in Time
                          /\ result' = [timeline[k] EXCEPT !.hour = HourBack(@, mode)]
  BY FinishReturns
<1>. DEFINE t == timeline[k]
<1>2. /\ t.second \in 0..59 /\ t.minute \in 0..59 /\ t.hour \in 0..23
      /\ t.day \in 1..31 /\ t.month \in 1..12
      /\ t.year \in kCurrentYear..kCurrentYear + 99
      /\ t = [second |-> t.second, minute |-> t.minute, hour |-> t.hour,
              day |-> t.day, month |-> t.month, year |-> t.year]
  BY <1>1 DEF Time
<1>3. HourBack(t.hour, mode) \in 0..24
  BY <1>2 DEF HourBack
<1>. DEFINE r == [second |-> t.second, minute |-> t.minute,
                  hour |-> HourBack(t.hour, mode), day |-> t.day,
                  month |-> t.month, year |-> t.year]
<1>4. result' = r
  BY <1>1, <1>2
<1>. HIDE DEF t
<1>5. \A f \in Field : r[f] \in 0..kCurrentYear + 99
  BY SMTT(30), <1>2, <1>3 DEF Field, kCurrentYear
<1>6. r = [f \in Field |-> r[f]]
  BY DEF Field
<1>. QED BY <1>4, <1>5, <1>6

LEMMA NextTypeOK ==
    ASSUME IInv, IInv', TypeOK, [Next]_vars
    PROVE  TypeOK'
<1>1. Types /\ Types' /\ timeline' = timeline
  BY DEF IInv, Next, Clock, BeginUpdate, UpdateRegister, EndUpdate, Call, read_rtc,
         LookAtFlag, get_RTC_register, ReadAgain, Finish, vars, clock
<1>2. regs' \in [Field -> Bytes]
  <2>1. ASSUME NEW f \in Field, UpdateRegister(f)
        PROVE  regs' \in [Field -> Bytes]
    <3>1. Shown[f] \in Bytes
      BY <1>1, MomentBytes DEF Types, Shown, Moment
    <3>. QED BY <2>1, <3>1 DEF UpdateRegister, TypeOK, Bytes
  <2>2. ASSUME ~\E f \in Field : UpdateRegister(f)
        PROVE  regs' = regs
    BY <2>2 DEF Next, Clock, BeginUpdate, EndUpdate, Call, read_rtc,
         LookAtFlag, get_RTC_register, ReadAgain, Finish, vars, clock
  <2>. QED BY ZenonT(30), <2>1, <2>2 DEF TypeOK, Bytes
<1>3. cur' \in [Field -> ByteOrUnread] /\ last' \in [Field -> ByteOrUnread]
  <2>1. /\ Nothing \in [Field -> ByteOrUnread] /\ cur \in [Field -> ByteOrUnread]
        /\ last \in [Field -> ByteOrUnread] /\ regs \in [Field -> Bytes]
        /\ Bytes \subseteq ByteOrUnread
    BY DEF Nothing, TypeOK, ByteOrUnread, Bytes
  <2>2. CASE get_RTC_register
    <3>1. next \in 1..6
      BY <1>1, <2>2, FieldNames DEF get_RTC_register, Types
    <3>2. regs[Fields[next]] \in ByteOrUnread
      BY <2>1, <3>1, FieldNames
    <3>. QED BY <2>1, <2>2, <3>2 DEF get_RTC_register
  <2>3. CASE ~get_RTC_register
    BY <2>1, <2>3 DEF Next, Clock, BeginUpdate, UpdateRegister, EndUpdate, Call,
         read_rtc, LookAtFlag, ReadAgain, Finish, vars, reader
  <2>. QED BY <2>2, <2>3
<1>4. result' \in [Field -> 0..kCurrentYear + 99] \cup {Nothing}
  <2>1. CASE Finish
    BY <2>1, ResultType
  <2>2. CASE ~Finish
    <3>1. result' = result
      BY <2>2 DEF Next, Clock, BeginUpdate, UpdateRegister, EndUpdate, Call,
         read_rtc, LookAtFlag, get_RTC_register, ReadAgain, vars, reader
    <3>. QED BY <3>1 DEF TypeOK
  <2>. QED BY <2>1, <2>2
<1>. QED BY <1>1, <1>2, <1>3, <1>4 DEF TypeOK, Types, Bytes, ByteOrUnread

\* Every register and every value read is a byte, and what is returned stays
\* within the hundred years from the current one on.
THEOREM TypeCorrect == Spec => []TypeOK
<1>1. IInv /\ IInv' /\ TypeOK /\ [Next]_vars => TypeOK'
  BY NextTypeOK
<1>. QED BY Inductive, InitTypeOK, <1>1, PTL DEF Spec
=============================================================================
