--------------------------------- MODULE Rtc ---------------------------------
(***************************************************************************)
(* The real-time clock (rtc.c): a DS1302, read and set one register after   *)
(* the other over three pins while it runs.                                 *)
(*                                                                          *)
(* GetSensorData reads the time, in the main loop and, when a phone         *)
(* connects, in the BLE interrupt, into the same struct; the main loop also *)
(* sets it for the phone.  A transfer is two steps: the chip is enabled,    *)
(* and takes or gives the byte unless the interrupt's transfers have        *)
(* disabled it again.  The chip and its clock are external.                 *)
(***************************************************************************)
EXTENDS Naturals, Sequences

CONSTANTS StartTimes,     \* what the clock may show at power-on
          HaltedSeconds,  \* what its second register may hold if it stands then
          PhoneTimes,     \* what the phone may set
          FloatingBytes,  \* samples of what a read from a disabled chip gives
          MaxSeconds,     \* bound: seconds that pass
          MaxCalls        \* bound: settings, and readings in the interrupt

(* The order GetCalenderTime reads in; SetCalenderTime goes the other way.   *)
Order == <<"second", "minute", "hour", "date", "month", "year">>
Fields == {Order[i] : i \in 1 .. 6}
Bytes == 0 .. 255

ASSUME RtcAssumption ==
  /\ StartTimes \subseteq {t \in [Fields -> 0 .. 99] : t["second"] <= 59}
  /\ HaltedSeconds \subseteq 128 .. 255
  /\ PhoneTimes \subseteq [Fields -> Bytes]
  /\ FloatingBytes \subseteq Bytes /\ FloatingBytes # {}
  /\ MaxSeconds \in Nat /\ MaxCalls \in Nat

VARIABLES
  registers,      \* external: of the chip; bit 7 of the second stops the clock
  enabled,        \* DS1302_RST_PIN is on
  local_rtc,      \* of main.c's m_sensor
  frames,         \* of the calls, in the main loop and in the interrupt
  initialised,    \* InitRtc has run
  seconds,        \* external: seconds passed
  calls,          \* external: settings, and readings in the interrupt, so far
  began,          \* what the main loop's call found, for the properties:
  disturbed       \* whether a minute was carried, the last year ended, or a
                  \* transfer was cut, in it

chip == <<registers, enabled>>
vars == <<chip, local_rtc, frames, initialised, seconds, calls, began, disturbed>>

Contexts == {"main", "interrupt"}

-----------------------------------------------------------------------------

(* GET_RTC_TIME_8BIT_FORMAT, and the way back: each field's mask keeps some   *)
(* bits of the tens.                                                          *)
Bcd(n) == (n % 10) + (n \div 10) * 16

Tens(field) == CASE field \in {"second", "minute"} -> 8
                 [] field \in {"hour", "date"}     -> 4
                 [] field = "month"                -> 2
                 [] field = "year"                 -> 16

(* Mutant: the seconds are read with the mask of the years. *)
UnmaskedSeconds(field, byte) ==
  ((byte \div 16) % (IF field = "second" THEN 16 ELSE Tens(field))) * 10 + (byte % 16)

Decimal(field, byte) == ((byte \div 16) % Tens(field)) * 10 + (byte % 16)

(* Mutant: the months are counted from 0. *)
AcceptsMonthsFromZero(field, n) ==
  CASE field \in {"second", "minute"} -> n <= 60
    [] field = "hour"  -> n <= 23
    [] field = "date"  -> n \in 1 .. 31
    [] field = "month" -> n \in 0 .. 11
    [] field = "year"  -> n <= 99

(* SetSecond to SetYear return -1 for the others. *)
Accepts(field, n) ==
  CASE field \in {"second", "minute"} -> n <= 60
    [] field = "hour"  -> n <= 23
    [] field = "date"  -> n \in 1 .. 31
    [] field = "month" -> n \in 1 .. 12
    [] field = "year"  -> n <= 99

Shown == [f \in Fields |-> Decimal(f, registers[f])]

Stopped == registers["second"] >= 128

Idle == [op |-> "idle", at |-> 1, pc |-> "enable", byte |-> 0, ct |-> [f \in Fields |-> 0]]

Undisturbed == [carried |-> FALSE, wrapped |-> FALSE, cut |-> FALSE]

(* The clock runs on its battery, or has lost it and stands, whatever is left *)
(* in the register of its seconds.                                            *)
Init ==
  /\ \E t \in StartTimes : \E second \in HaltedSeconds \cup {Bcd(t["second"])} :
       /\ registers = [f \in Fields |-> IF f = "second" THEN second ELSE Bcd(t[f])]
       /\ began = t
  /\ enabled = FALSE
  /\ local_rtc = [f \in Fields |-> 0]
  /\ frames = [c \in Contexts |-> Idle]
  /\ initialised = FALSE
  /\ seconds = 0 /\ calls = 0
  /\ disturbed = Undisturbed

-----------------------------------------------------------------------------

(* InitRtc, before anything can interrupt: StartRtcClock sets the second it   *)
(* reads of a clock that stands, and does not look at what SetSecond returns. *)
InitRtc ==
  /\ ~initialised /\ initialised' = TRUE
  /\ LET second == Decimal("second", registers["second"])
     IN  registers' = IF Stopped /\ Accepts("second", second)
                        THEN [registers EXCEPT !["second"] = Bcd(second)]
                        ELSE registers
  /\ UNCHANGED <<enabled, local_rtc, frames, seconds, calls, began, disturbed>>

Running(c) == c = "interrupt" \/ frames["interrupt"].op = "idle"

Call(c, op, ct) ==
  /\ initialised /\ Running(c) /\ frames[c].op = "idle"
  /\ frames' = [frames EXCEPT ![c] = [Idle EXCEPT !.op = op, !.ct = ct]]
  /\ UNCHANGED <<chip, local_rtc, initialised, seconds>>

BeginMain(op, ct) ==
  /\ Call("main", op, ct)
  /\ began' = Shown
  /\ disturbed' = Undisturbed

GetCalenderTime == BeginMain("get", Idle.ct) /\ UNCHANGED calls

SetCalenderTime ==
  /\ calls < MaxCalls /\ calls' = calls + 1
  /\ \E ct \in PhoneTimes : BeginMain("set", ct)

(* A phone connects: the interrupt may cut a transfer of the main loop.       *)
GetInInterrupt ==
  /\ calls < MaxCalls /\ calls' = calls + 1
  /\ Call("interrupt", "get", Idle.ct)
  /\ disturbed' = [disturbed EXCEPT !.cut = @ \/ frames["main"].pc = "transfer"]
  /\ UNCHANGED began

-----------------------------------------------------------------------------

(* Mutant: the year is read first. *)
FieldFromYear(c) == Order[7 - frames[c].at]

Field(c) == IF frames[c].op = "get" THEN Order[frames[c].at] ELSE Order[7 - frames[c].at]

At(c, op, pc) == Running(c) /\ frames[c].op = op /\ frames[c].pc = pc

(* Mutant: the hour is read with the command of the minute. *)
EnableMinuteForHour(c) ==
  /\ Running(c) /\ frames[c].op # "idle" /\ frames[c].pc = "enable"
  /\ frames[c].op = "set" => Accepts(Field(c), frames[c].ct[Field(c)])
  /\ enabled' = TRUE
  /\ frames' = [frames EXCEPT ![c].pc = "transfer",
                  ![c].byte = registers[IF Field(c) = "hour" THEN "minute" ELSE Field(c)]]
  /\ UNCHANGED <<registers, local_rtc, initialised, seconds, calls, began, disturbed>>

(* EnableRtc.  The chip latches its registers for a reading.                  *)
Enable(c) ==
  /\ Running(c) /\ frames[c].op # "idle" /\ frames[c].pc = "enable"
  /\ frames[c].op = "set" => Accepts(Field(c), frames[c].ct[Field(c)])
  /\ enabled' = TRUE
  /\ frames' = [frames EXCEPT ![c].pc = "transfer", ![c].byte = registers[Field(c)]]
  /\ UNCHANGED <<registers, local_rtc, initialised, seconds, calls, began, disturbed>>

(* The call goes on with the next register, or returns.                       *)
NextField(c) ==
  frames' = [frames EXCEPT ![c] =
               IF frames[c].at < 6
                 THEN [frames[c] EXCEPT !.at = @ + 1, !.pc = "enable", !.byte = 0]
                 ELSE Idle]

(* RtcReadByte and DisableRtc.  From a disabled chip the pin floats.          *)
Read(c) ==
  /\ At(c, "get", "transfer")
  /\ \E byte \in IF enabled THEN {frames[c].byte} ELSE FloatingBytes :
       local_rtc' = [local_rtc EXCEPT ![Field(c)] = Decimal(Field(c), byte)]
  /\ enabled' = FALSE
  /\ NextField(c)
  /\ UNCHANGED <<registers, initialised, seconds, calls, began, disturbed>>

(* Mutant: the number is written as it is. *)
WriteBinary(c) ==
  /\ At(c, "set", "transfer")
  /\ registers' = IF enabled
                    THEN [registers EXCEPT ![Field(c)] = frames[c].ct[Field(c)]]
                    ELSE registers
  /\ enabled' = FALSE
  /\ NextField(c)
  /\ UNCHANGED <<local_rtc, initialised, seconds, calls, began, disturbed>>

(* RtcWriteByte and DisableRtc.  A disabled chip takes nothing.               *)
Write(c) ==
  /\ At(c, "set", "transfer")
  /\ registers' = IF enabled
                    THEN [registers EXCEPT ![Field(c)] = Bcd(frames[c].ct[Field(c)])]
                    ELSE registers
  /\ enabled' = FALSE
  /\ NextField(c)
  /\ UNCHANGED <<local_rtc, initialised, seconds, calls, began, disturbed>>

(* The return value -1 is not looked at.                                      *)
Refuse(c) ==
  /\ At(c, "set", "enable") /\ ~Accepts(Field(c), frames[c].ct[Field(c)])
  /\ NextField(c)
  /\ UNCHANGED <<chip, local_rtc, initialised, seconds, calls, began, disturbed>>

Step(c) == Enable(c) \/ Read(c) \/ Write(c) \/ Refuse(c)

-----------------------------------------------------------------------------

DaysIn(t) == CASE t["month"] = 2 -> IF t["year"] % 4 = 0 THEN 29 ELSE 28
               [] t["month"] \in {4, 6, 9, 11} -> 30
               [] OTHER -> 31

Last(t) == [second |-> 59, minute |-> 59, hour |-> 23,
            date |-> DaysIn(t), month |-> 12, year |-> 99]
First == [second |-> 0, minute |-> 0, hour |-> 0, date |-> 1, month |-> 1, year |-> 0]

(* After the year 99 comes the year 0. *)
AtLast(t) == \A f \in Fields : t[f] >= Last(t)[f]

(* A field goes on if all before it are at their last value. *)
Later(t) ==
  [f \in Fields |->
     LET i == CHOOSE k \in 1 .. 6 : Order[k] = f
     IN  IF \A k \in 1 .. i - 1 : t[Order[k]] >= Last(t)[Order[k]]
           THEN IF t[f] >= Last(t)[f] THEN First[f] ELSE t[f] + 1
           ELSE t[f]]

(* External: a second passes. *)
Tick ==
  /\ seconds < MaxSeconds /\ ~Stopped
  /\ seconds' = seconds + 1
  /\ registers' = [f \in Fields |-> Bcd(Later(Shown)[f])]
  /\ disturbed' = [disturbed EXCEPT !.carried = @ \/ Shown["second"] >= 59,
                                  !.wrapped = @ \/ AtLast(Shown)]
  /\ UNCHANGED <<enabled, local_rtc, frames, initialised, calls, began>>

Next ==
  \/ InitRtc \/ GetCalenderTime \/ SetCalenderTime \/ GetInInterrupt \/ Tick
  \/ \E c \in Contexts : Step(c)

Spec == Init /\ [][Next]_vars

-----------------------------------------------------------------------------

Calls == [op : {"idle", "get", "set"}, at : 1 .. 6, pc : {"enable", "transfer"},
          byte : Bytes, ct : [Fields -> Bytes]]

TypeOK ==
  /\ registers \in [Fields -> Bytes] /\ enabled \in BOOLEAN
  /\ local_rtc \in [Fields -> 0 .. 165]
  /\ frames \in [Contexts -> Calls]
  /\ initialised \in BOOLEAN /\ seconds \in 0 .. MaxSeconds /\ calls \in 0 .. MaxCalls
  /\ began \in [Fields -> 0 .. 165] /\ disturbed \in [carried : BOOLEAN, wrapped : BOOLEAN, cut : BOOLEAN]

(* The clock stands after the initialisation only if its second register was  *)
(* left with more than 60: StartRtcClock then writes nothing, and the register*)
(* stays as it is until the phone sets a second.  Otherwise reading the second*)
(* masks the bit that stops the clock, writing it back starts it, and nothing *)
(* the phone sets stops it (rtc.c:98, 158, 264-268, 281).                     *)
StandingSecond ==
  LET byte == registers["second"] - 128
  IN  10 * (byte \div 16) + (byte % 16)
RunsOnceInitialised == initialised /\ Stopped => StandingSecond > 60

(* The inductive strengthening.  The registers hold two decimal digits, those *)
(* of the second of a clock that runs at most 60.                             *)
TwoDigits ==
  /\ \A f \in Fields \ {"second"} : \E n \in 0 .. 99 : registers[f] = Bcd(n)
  /\ ~Stopped => \E n \in 0 .. 60 : registers["second"] = Bcd(n)

(* A call is made after the initialisation, and what it transfers to a        *)
(* register is of its kind.                                                   *)
CallsInOrder ==
  \A c \in Contexts :
    /\ frames[c].op # "idle" => initialised
    /\ frames[c].op = "set" /\ frames[c].pc = "transfer" =>
         Accepts(Field(c), frames[c].ct[Field(c)])

DigitsInv == TypeOK /\ RunsOnceInitialised /\ TwoDigits /\ CallsInOrder

(* The interrupt only reads, and as long as it has cut no transfer of the     *)
(* main loop the chip is enabled in the transfer that is going on.            *)
TransfersEnabled ==
  /\ frames["interrupt"].op \in {"idle", "get"}
  /\ At("interrupt", "get", "transfer") => enabled
  /\ frames["main"].pc = "transfer" /\ ~disturbed.cut =>
       frames["interrupt"].op = "idle" /\ enabled

(* The call that runs, its place, and what it is about to read.               *)
Current == IF frames["interrupt"].op = "idle" THEN "main" ELSE "interrupt"
Place == frames[Current].at
Latched == Decimal(Order[Place], frames[Current].byte)

NotBefore(t, u) ==
  \/ \A i \in 1 .. 6 : t[i] = u[i]
  \/ \E i \in 1 .. 6 : t[i] > u[i] /\ \A k \in i + 1 .. 6 : t[k] = u[k]

(* The time of which the first fields have been read and the others are shown.*)
Mixed(i) == [k \in 1 .. 6 |-> IF k < i THEN local_rtc[Order[k]] ELSE Shown[Order[k]]]
Beginning == [k \in 1 .. 6 |-> began[Order[k]]]

(* What is read, whoever reads it, only ever completes to a time not before   *)
(* the beginning: a later step makes what it has not yet read later.          *)
ReadingSoFar ==
  frames["main"].op = "get" /\ ~disturbed.cut /\ ~disturbed.wrapped =>
    /\ \A i \in 1 .. Place : NotBefore(Mixed(i), Beginning)
    /\ frames[Current].pc = "transfer" =>
         NotBefore([Mixed(Place) EXCEPT ![Place] = Latched], Beginning)

(* While no minute is carried only the second goes on.                        *)
Between(f, n) ==
  IF f = "second" THEN began[f] <= n /\ n <= Shown[f] ELSE n = began[f] /\ n = Shown[f]

ExactSoFar ==
  frames["main"].op = "get" /\ ~disturbed.cut /\ ~disturbed.carried =>
    /\ \A i \in 1 .. 6 : Between(Order[i], Shown[Order[i]])
    /\ \A i \in 1 .. Place - 1 : Between(Order[i], local_rtc[Order[i]])
    /\ frames[Current].pc = "transfer" => Between(Order[Place], Latched)

(* What a setting has passed is as it was sent; the second is its last.       *)
SettingSoFar ==
  frames["main"].op = "set" /\ ~disturbed.cut /\ ~disturbed.carried =>
    \A i \in 1 .. 5 :
      LET f == Order[7 - i] n == frames["main"].ct[Order[7 - i]]
      IN  Shown[f] = IF i < frames["main"].at /\ Accepts(f, n) THEN n ELSE began[f]

CallsSoFar == TransfersEnabled /\ ReadingSoFar /\ ExactSoFar /\ SettingSoFar

RtcInv == DigitsInv /\ CallsSoFar

Returns(op) ==
  /\ frames["main"].op = op /\ frames["main"].at = 6
  /\ frames'["main"].op = "idle"

AtLeast(t, u) ==
  \/ t = u
  \/ \E i \in 1 .. 6 : /\ t[Order[i]] > u[Order[i]]
                       /\ \A k \in i + 1 .. 6 : t[Order[k]] = u[Order[k]]

(* What a reading of the main loop returns is not earlier than the time it    *)
(* began at, whatever the clock carries meanwhile, but from the year 99 to 0, *)
(* and whatever the interrupt reads into the same struct between two          *)
(* transfers: the small fields are read first (rtc.c:230-238, sensor.c:26).   *)
NeverBehind ==
  [][Returns("get") /\ ~disturbed.cut /\ ~disturbed.wrapped =>
       AtLeast(local_rtc', began)]_vars

(* If moreover no minute is carried, it is a time the clock has shown since.  *)
ExactWithoutCarry ==
  [][Returns("get") /\ ~disturbed.cut /\ ~disturbed.carried =>
       /\ AtLeast(local_rtc', began) /\ AtLeast(Shown, local_rtc')
       /\ \A f \in Fields \ {"second"} : local_rtc'[f] = began[f]]_vars

(* What a time of day and a date are made of.  A month is 1 to 12 here and on *)
(* the chip, not 0 to 11 as rtc.h:80 has it.                                  *)
Numbers(field) == CASE field = "second" -> 0 .. 60
                    [] field = "minute" -> 0 .. 59
                    [] field = "hour"   -> 0 .. 23
                    [] field = "date"   -> 1 .. 31
                    [] field = "month"  -> 1 .. 12
                    [] field = "year"   -> 0 .. 99

(* A setting sets every field that is a number of its kind, and leaves the    *)
(* others as they were, if no minute is carried and no transfer is cut        *)
(* meanwhile; a second left alone goes on.  Nothing is said of a 60th minute, *)
(* which the code sets though rtc.h:83 knows none (rtc.c:156-228).            *)
SetAsSent ==
  [][Returns("set") /\ ~disturbed.cut /\ ~disturbed.carried =>
       LET ct == frames["main"].ct
       IN  \A f \in Fields :
             \/ ct[f] \in Numbers(f) /\ Shown'[f] = ct[f]
             \/ ct[f] \notin Numbers(f) /\ (Shown'[f] = began[f] \/ f = "second")
             \/ f = "minute" /\ ct[f] = 60]_vars
=============================================================================
