-------------------------------- MODULE MCRtc --------------------------------
(* Times a few seconds before carries, and settings before and behind them.  *)
EXTENDS Rtc

At24(y, mo, d, h, mi, s) ==
  [year |-> y, month |-> mo, date |-> d, hour |-> h, minute |-> mi, second |-> s]

MCStartTimes == {At24(15, 12, 31, 23, 59, 58), At24(16, 2, 28, 23, 59, 59),
                 At24(15, 8, 9, 19, 29, 59), At24(99, 12, 31, 23, 59, 59)}

(* The clock has lost its battery: the second reads 58, 60 and 85. *)
MCHaltedSeconds == {16 * 13 + 8, 16 * 14, 255}

(* The second one counts the months from 0, the third one has sixty minutes. *)
MCPhoneTimes == {At24(15, 12, 31, 23, 59, 59), At24(16, 0, 29, 0, 0, 0),
                 At24(99, 10, 10, 20, 60, 60), At24(100, 13, 32, 24, 61, 61)}
=============================================================================
