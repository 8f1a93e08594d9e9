------------------------------- MODULE MCRtc -------------------------------
(* Three seconds around the moments when many registers change at once:    *)
(* noon, the end of a year, and the end of the century read_rtc assumes.   *)
EXTENDS Rtc

At(y, mo, d, h, mi, s) == [year |-> y, month |-> mo, day |-> d,
                           hour |-> h, minute |-> mi, second |-> s]

MCTimelines == {
    <<At(2016, 2, 29, 11, 59, 59), At(2016, 2, 29, 12, 0, 0), At(2016, 2, 29, 12, 0, 1)>>,
    <<At(2019, 12, 31, 23, 59, 58), At(2019, 12, 31, 23, 59, 59), At(2020, 1, 1, 0, 0, 0)>>,
    <<At(2099, 12, 31, 23, 59, 59), At(2100, 1, 1, 0, 0, 0), At(2100, 1, 1, 0, 0, 1)>> }
AllModes == [binary : BOOLEAN, hours24 : BOOLEAN]
=============================================================================
