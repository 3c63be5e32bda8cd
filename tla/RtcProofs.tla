----------------------------- MODULE RtcProofs -----------------------------
(* Proofs about the real-time clock, for every set of times it may show, the *)
(* phone may set and a floating pin may give.                                *)
EXTENDS Rtc, TLAPS

(* The order the registers are read in names each field.                      *)
LEMMA FieldNames ==
  /\ Fields = {"second", "minute", "hour", "date", "month", "year"}
  /\ \A i \in 1 .. 6 : Order[i] \in Fields
BY DEF Fields, Order

(* The two digits of a register and the number they stand for.               *)
LEMMA BcdOfNumber ==
  ASSUME NEW n \in 0 .. 99
  PROVE  /\ Bcd(n) \in 0 .. 153
         /\ Bcd(n) \div 16 = n \div 10
         /\ Bcd(n) % 16 = n % 10
         /\ n <= 60 => Bcd(n) <= 96
<1> DEFINE tens == n \div 10
           units == n % 10
<1>1. tens \in 0 .. 9 /\ units \in 0 .. 9 /\ n = 10 * tens + units
  OBVIOUS
<1>2. Bcd(n) = units + tens * 16
  BY DEF Bcd
<1> HIDE DEF tens, units
<1>3. (units + tens * 16) \div 16 = tens /\ (units + tens * 16) % 16 = units
  BY <1>1
<1>4. QED
  BY <1>1, <1>2, <1>3 DEF tens, units

(* A field that is read is at most what its two digits can be.               *)
LEMMA DecimalOfByte ==
  ASSUME NEW f \in Fields, NEW byte \in Bytes
  PROVE  Decimal(f, byte) \in 0 .. 165
<1> DEFINE tens == byte \div 16
           units == byte % 16
<1>1. tens \in 0 .. 15 /\ units \in 0 .. 15
  BY DEF Bytes
<1>2. Tens(f) \in {2, 4, 8, 16}
  BY FieldNames DEF Tens
<1>3. Decimal(f, byte) = (tens % Tens(f)) * 10 + units
  BY DEF Decimal
<1> HIDE DEF tens, units
<1>4. tens % Tens(f) \in 0 .. 15
  BY <1>1, <1>2
<1>5. QED
  BY <1>1, <1>3, <1>4

(* Of a register with two decimal digits it is at most 99.                    *)
LEMMA DecimalOfBcd ==
  ASSUME NEW f \in Fields, NEW n \in 0 .. 99
  PROVE  /\ Decimal(f, Bcd(n)) = ((n \div 10) % Tens(f)) * 10 + (n % 10)
         /\ Decimal(f, Bcd(n)) \in 0 .. 99
<1>1. Decimal(f, Bcd(n)) = ((n \div 10) % Tens(f)) * 10 + (n % 10)
  BY BcdOfNumber DEF Decimal
<1>2. Tens(f) \in {2, 4, 8, 16}
  BY FieldNames DEF Tens
<1> DEFINE tens == n \div 10
           units == n % 10
<1>3. tens \in 0 .. 9 /\ units \in 0 .. 9
  OBVIOUS
<1> HIDE DEF tens, units
<1>4. tens % Tens(f) \in 0 .. 9
  BY <1>2, <1>3
<1>5. (tens % Tens(f)) * 10 + units \in 0 .. 99
  BY <1>3, <1>4
<1>6. QED
  BY <1>1, <1>5 DEF tens, units

(* What a setter accepts are two decimal digits that fit the field's mask.    *)
LEMMA AcceptedFits ==
  ASSUME NEW f \in Fields, NEW n \in Bytes, Accepts(f, n)
  PROVE  /\ n \in 0 .. 99
         /\ n \div 10 < Tens(f)
         /\ f = "second" => n \in 0 .. 60
<1>1. CASE f \in {"second", "minute"}
  <2>1. n <= 60 /\ Tens(f) = 8
    BY <1>1 DEF Accepts, Tens
  <2>2. QED
    BY <2>1 DEF Bytes
<1>2. CASE f = "hour"
  <2>1. n <= 23 /\ Tens(f) = 4
    BY <1>2 DEF Accepts, Tens
  <2>2. QED
    BY <1>2, <2>1 DEF Bytes
<1>3. CASE f = "date"
  <2>1. n \in 1 .. 31 /\ Tens(f) = 4
    BY <1>3 DEF Accepts, Tens
  <2>2. QED
    BY <1>3, <2>1 DEF Bytes
<1>4. CASE f = "month"
  <2>1. n \in 1 .. 12 /\ Tens(f) = 2
    BY <1>4 DEF Accepts, Tens
  <2>2. QED
    BY <1>4, <2>1 DEF Bytes
<1>5. CASE f = "year"
  <2>1. n <= 99 /\ Tens(f) = 16
    BY <1>5 DEF Accepts, Tens
  <2>2. QED
    BY <1>5, <2>1 DEF Bytes
<1>6. QED
  BY <1>1, <1>2, <1>3, <1>4, <1>5, FieldNames

(* A number whose tens fit the field's mask is read back as it was written.   *)
LEMMA FittingReadBack ==
  ASSUME NEW f \in Fields, NEW n \in 0 .. 99, n \div 10 < Tens(f)
  PROVE  Decimal(f, Bcd(n)) = n
<1>1. Decimal(f, Bcd(n)) = ((n \div 10) % Tens(f)) * 10 + (n % 10)
  BY DecimalOfBcd
<1>2. Tens(f) \in {2, 4, 8, 16}
  BY FieldNames DEF Tens
<1> DEFINE tens == n \div 10
           units == n % 10
<1>3. tens \in 0 .. 9 /\ units \in 0 .. 9 /\ n = tens * 10 + units
  OBVIOUS
<1>4. tens < Tens(f)
  OBVIOUS
<1> HIDE DEF tens, units
<1>5. tens % Tens(f) = tens
  BY <1>2, <1>3, <1>4
<1>6. Decimal(f, Bcd(n)) = (tens % Tens(f)) * 10 + units
  BY <1>1 DEF tens, units
<1>7. QED
  BY <1>3, <1>5, <1>6

(* What a setter accepts is read back as it was set: the mask of the field   *)
(* keeps all of its digits (rtc.c:95-217).                                    *)
THEOREM ReadBackAsSet ==
  ASSUME NEW f \in Fields, NEW n \in Bytes, Accepts(f, n)
  PROVE  Decimal(f, Bcd(n)) = n
BY AcceptedFits, FittingReadBack

-----------------------------------------------------------------------------

(* What the invariant says of the registers alone: it is all that the rest of *)
(* it needs of a step that changes one of them or all of them.                *)
RegistersOK == registers \in [Fields -> Bytes] /\ TwoDigits

(* One of the fields is the second.                                           *)
LEMMA SecondIsField == "second" \in Fields
BY FieldNames

(* A register that holds two digits is not the one of a stopped second.      *)
LEMMA BcdIsByte ==
  ASSUME NEW n \in 0 .. 99
  PROVE  /\ Bcd(n) \in Bytes
         /\ n \in 0 .. 60 => Bcd(n) \in 0 .. 96 /\ ~(Bcd(n) >= 128)
<1>1. Bcd(n) \in 0 .. 153
  BY BcdOfNumber
<1>2. n <= 60 => Bcd(n) <= 96
  BY BcdOfNumber
<1>3. QED
  BY <1>1, <1>2 DEF Bytes

(* The registers of a running clock hold two digits and nothing else.         *)
LEMMA RunningDigits ==
  ASSUME RegistersOK, ~Stopped, NEW f \in Fields
  PROVE  \E n \in 0 .. 99 : registers[f] = Bcd(n)
<1>1. CASE f = "second"
  <2>1. PICK n \in 0 .. 60 : registers["second"] = Bcd(n)
    BY DEF RegistersOK, TwoDigits
  <2>2. n \in 0 .. 99
    OBVIOUS
  <2>3. QED
    BY <1>1, <2>1, <2>2
<1>2. CASE f # "second"
  BY <1>2 DEF RegistersOK, TwoDigits
<1>3. QED
  BY <1>1, <1>2

(* A running clock shows numbers of two digits, and a second of at most 60.   *)
LEMMA ShownIsDecimal ==
  ASSUME RegistersOK, ~Stopped
  PROVE  /\ Shown \in [Fields -> 0 .. 99]
         /\ Shown["second"] <= 60
<1>1. ASSUME NEW f \in Fields PROVE Shown[f] \in 0 .. 99
  <2>1. PICK n \in 0 .. 99 : registers[f] = Bcd(n)
    BY RunningDigits
  <2>2. Shown[f] = Decimal(f, Bcd(n))
    BY <2>1 DEF Shown
  <2>3. QED
    BY <2>2, DecimalOfBcd
<1>2. Shown["second"] <= 60
  <2>1. PICK n \in 0 .. 60 : registers["second"] = Bcd(n)
    BY DEF RegistersOK, TwoDigits
  <2>2. n \in Bytes /\ Accepts("second", n)
    BY DEF Bytes, Accepts
  <2>3. Shown["second"] = Decimal("second", Bcd(n))
    BY <2>1, SecondIsField DEF Shown
  <2>4. QED
    BY <2>2, <2>3, ReadBackAsSet, SecondIsField
<1>3. QED
  BY <1>1, <1>2 DEF Shown

(* A second later the fields are of two digits again.                        *)
LEMMA LaterIsDecimal ==
  ASSUME NEW t \in [Fields -> 0 .. 99], t["second"] <= 60
  PROVE  /\ \A f \in Fields : Later(t)[f] \in 0 .. 99
         /\ Later(t)["second"] \in 0 .. 60
<1>1. /\ \A f \in Fields : Last(t)[f] \in 0 .. 99 /\ First[f] \in 0 .. 1
      /\ Last(t)["second"] = 59 /\ First["second"] = 0
  <2>1. DaysIn(t) \in 28 .. 31
    BY DEF DaysIn
  <2>2. QED
    BY <2>1, FieldNames DEF Last, First
<1>2. ASSUME NEW f \in Fields
      PROVE  \/ Later(t)[f] = t[f]
             \/ Later(t)[f] = IF t[f] >= Last(t)[f] THEN First[f] ELSE t[f] + 1
  BY DEF Later
<1>3. \A f \in Fields : Later(t)[f] \in 0 .. 99
  <2>1. TAKE f \in Fields
  <2>2. t[f] \in 0 .. 99 /\ Last(t)[f] \in 0 .. 99 /\ First[f] \in 0 .. 1
    BY <1>1
  <2>3. QED
    BY <1>2, <2>2
<1>4. Later(t)["second"] \in 0 .. 60
  <2>1. t["second"] \in 0 .. 60
    BY SecondIsField
  <2>2. QED
    BY <1>1, <1>2, <2>1, SecondIsField
<1>5. QED
  BY <1>3, <1>4

(* All registers hold two digits, and none of them stops the clock.          *)
LEMMA DigitsRun ==
  ASSUME NEW t \in [Fields -> 0 .. 99], t["second"] \in 0 .. 60,
         registers' = [f \in Fields |-> Bcd(t[f])]
  PROVE  RegistersOK' /\ ~Stopped'
<1>1. \A f \in Fields : Bcd(t[f]) \in Bytes
  BY BcdIsByte
<1>2. Bcd(t["second"]) \in 0 .. 96
  BY BcdIsByte, SecondIsField
<1>3. registers'["second"] = Bcd(t["second"]) /\ ~Stopped'
  BY <1>2, SecondIsField DEF Stopped
<1>4. TwoDigits'
  BY <1>3 DEF TwoDigits
<1>5. QED
  BY <1>1, <1>3, <1>4 DEF RegistersOK

(* One register takes two digits: the clock is stopped after that only if it  *)
(* was before and the register of the second is as it was.                    *)
LEMMA DigitsWritten ==
  ASSUME RegistersOK, NEW f \in Fields, NEW n \in 0 .. 99,
         f = "second" => n \in 0 .. 60,
         registers' = [registers EXCEPT ![f] = Bcd(n)]
  PROVE  /\ RegistersOK'
         /\ Stopped' => Stopped /\ registers'["second"] = registers["second"]
<1>1. Bcd(n) \in Bytes /\ (f = "second" => Bcd(n) \in 0 .. 96)
  BY BcdIsByte
<1>2. registers' \in [Fields -> Bytes]
  BY <1>1 DEF RegistersOK
<1>3. /\ f = "second" => registers'["second"] = Bcd(n) /\ ~Stopped'
      /\ f # "second" => /\ registers'["second"] = registers["second"]
                         /\ Stopped' = Stopped
  BY <1>1, SecondIsField DEF RegistersOK, Stopped
<1>4. TwoDigits'
  <2>1. ASSUME NEW g \in Fields \ {"second"}
        PROVE  \E k \in 0 .. 99 : registers'[g] = Bcd(k)
    BY DEF RegistersOK, TwoDigits
  <2>2. ~Stopped' => \E k \in 0 .. 60 : registers'["second"] = Bcd(k)
    BY <1>3 DEF RegistersOK, TwoDigits
  <2>3. QED
    BY <2>1, <2>2 DEF TwoDigits
<1>5. QED
  BY <1>2, <1>3, <1>4 DEF RegistersOK

-----------------------------------------------------------------------------

USE DEF Contexts

(* A call is always at one of the fields.                                     *)
LEMMA FieldOfCall ==
  ASSUME TypeOK, NEW c \in Contexts
  PROVE  Field(c) \in Fields
<1>1. frames[c].at \in 1 .. 6 /\ 7 - frames[c].at \in 1 .. 6
  BY DEF TypeOK, Calls
<1>2. QED
  BY <1>1, FieldNames DEF Field

(* The frame of no call is a frame.                                           *)
LEMMA IdleIsCall == Idle \in Calls /\ Idle.op = "idle" /\ Idle.ct \in [Fields -> Bytes]
BY DEF Idle, Calls, Bytes

(* Starting or stepping one call leaves the other in order.                   *)
LEMMA OthersInOrder ==
  ASSUME TypeOK, CallsInOrder, NEW c \in Contexts, NEW call \in Calls,
         frames' = [frames EXCEPT ![c] = call],
         initialised => initialised',
         call.op # "idle" => initialised',
         call.op = "set" /\ call.pc = "transfer" =>
           Accepts(Order[7 - call.at], call.ct[Order[7 - call.at]])
  PROVE  CallsInOrder' /\ frames' \in [Contexts -> Calls]
<1>1. frames' \in [Contexts -> Calls]
  BY DEF TypeOK
<1>2. ASSUME NEW d \in Contexts
      PROVE  /\ frames'[d].op # "idle" => initialised'
             /\ frames'[d].op = "set" /\ frames'[d].pc = "transfer" =>
                  Accepts(Field(d)', frames'[d].ct[Field(d)'])
  <2>1. CASE d = c
    <3>1. frames'[d] = call
      BY <2>1 DEF TypeOK
    <3>2. Field(d)' = IF call.op = "get" THEN Order[call.at] ELSE Order[7 - call.at]
      BY <3>1 DEF Field
    <3>3. QED
      BY <3>1, <3>2
  <2>2. CASE d # c
    <3>1. frames'[d] = frames[d]
      BY <2>2 DEF TypeOK
    <3>2. Field(d)' = Field(d)
      BY <3>1 DEF Field
    <3>3. QED
      BY <3>1, <3>2 DEF CallsInOrder
  <2>3. QED
    BY <2>1, <2>2
<1>3. QED
  BY <1>1, <1>2 DEF CallsInOrder

(* The call goes on, or ends: nothing is under transfer then.                 *)
LEMMA NextFieldInOrder ==
  ASSUME TypeOK, CallsInOrder, NEW c \in Contexts, frames[c].op # "idle",
         NextField(c), UNCHANGED initialised
  PROVE  CallsInOrder' /\ frames' \in [Contexts -> Calls]
<1> DEFINE call == IF frames[c].at < 6
                     THEN [frames[c] EXCEPT !.at = @ + 1, !.pc = "enable", !.byte = 0]
                     ELSE Idle
<1>1. frames[c] \in Calls
  BY DEF TypeOK
<1>2. call \in Calls
  <2>1. CASE frames[c].at < 6
    <3>1. frames[c].at + 1 \in 1 .. 6 /\ 0 \in Bytes
      BY <1>1, <2>1 DEF Calls, Bytes
    <3>2. [frames[c] EXCEPT !.at = @ + 1, !.pc = "enable", !.byte = 0] \in Calls
      BY <1>1, <3>1 DEF Calls
    <3>3. QED
      BY <2>1, <3>2
  <2>2. CASE ~(frames[c].at < 6)
    BY <2>2, IdleIsCall
  <2>3. QED
    BY <2>1, <2>2
<1>3. call.pc = "enable"
  BY <1>1 DEF Calls, Idle
<1>4. initialised'
  BY DEF CallsInOrder
<1>5. frames' = [frames EXCEPT ![c] = call]
  BY DEF NextField
<1> HIDE DEF call
<1>6. QED
  BY <1>2, <1>3, <1>4, <1>5, OthersInOrder

(* At power-on the registers hold a time, and the clock runs or is stopped.   *)
LEMMA InitDigits == Init => DigitsInv
<1> SUFFICES ASSUME Init PROVE DigitsInv
  OBVIOUS
<1>0. PICK t \in StartTimes : \E b \in HaltedSeconds \cup {Bcd(t["second"])} :
        /\ registers = [f \in Fields |-> IF f = "second" THEN b ELSE Bcd(t[f])]
        /\ began = t
  BY DEF Init
<1>1. PICK second \in HaltedSeconds \cup {Bcd(t["second"])} :
        /\ registers = [f \in Fields |-> IF f = "second" THEN second ELSE Bcd(t[f])]
        /\ began = t
  BY <1>0
<1>2. t \in [Fields -> 0 .. 99] /\ t["second"] \in 0 .. 59
  BY RtcAssumption, SecondIsField
<1>3. \A f \in Fields : Bcd(t[f]) \in Bytes
  <2>1. TAKE f \in Fields
  <2>2. t[f] \in 0 .. 99
    BY <1>2
  <2>3. QED
    BY <2>2, BcdIsByte
<1>4. registers["second"] = second /\ (second \in 128 .. 255 \/ second = Bcd(t["second"]))
  BY <1>1, RtcAssumption, SecondIsField
<1>5. second \in Bytes
  <2>1. CASE second \in 128 .. 255
    BY <2>1 DEF Bytes
  <2>2. CASE second = Bcd(t["second"])
    BY <2>2, <1>3, SecondIsField
  <2>3. QED
    BY <1>4, <2>1, <2>2
<1>6. registers \in [Fields -> Bytes]
  BY <1>1, <1>3, <1>5
<1>8. TwoDigits
  <2>1. ASSUME NEW f \in Fields \ {"second"}
        PROVE  \E n \in 0 .. 99 : registers[f] = Bcd(n)
    <3>1. registers[f] = Bcd(t[f]) /\ t[f] \in 0 .. 99
      BY <1>1, <1>2
    <3>2. QED
      BY <3>1
  <2>2. ASSUME ~Stopped
        PROVE  \E n \in 0 .. 60 : registers["second"] = Bcd(n)
    <3>1. second = Bcd(t["second"])
      BY <1>4, <2>2 DEF Stopped
    <3>2. QED
      BY <1>2, <1>4, <3>1
  <2>3. QED
    BY <2>1, <2>2 DEF TwoDigits
<1>9. began \in [Fields -> 0 .. 165]
  <2>1. ASSUME NEW f \in Fields PROVE t[f] \in 0 .. 165
    <3>1. t[f] \in 0 .. 99
      BY <1>2
    <3>2. QED
      BY <3>1
  <2>2. QED
    BY <1>1, <1>2, <2>1
<1>10. TypeOK
  <2>0. enabled \in BOOLEAN
    BY DEF Init
  <2>1. local_rtc \in [Fields -> 0 .. 165]
    BY DEF Init
  <2>2. frames \in [Contexts -> Calls]
    BY IdleIsCall DEF Init
  <2>3. initialised \in BOOLEAN /\ disturbed \in [carried : BOOLEAN, wrapped : BOOLEAN, cut : BOOLEAN]
    BY DEF Init, Undisturbed
  <2>4. seconds \in 0 .. MaxSeconds /\ calls \in 0 .. MaxCalls
    BY RtcAssumption DEF Init
  <2>5. QED
    BY <1>6, <1>9, <2>0, <2>1, <2>2, <2>3, <2>4 DEF TypeOK
<1>11. RunsOnceInitialised /\ CallsInOrder
  BY DEF Init, RunsOnceInitialised, CallsInOrder, Idle
<1>12. QED
  BY <1>8, <1>10, <1>11 DEF DigitsInv

(* What is shown are small numbers, and so is what the main loop began with.  *)
LEMMA BeganIsTyped ==
  ASSUME DigitsInv, initialised
  PROVE  Shown \in [Fields -> 0 .. 165]
<1>1. \A f \in Fields : registers[f] \in Bytes
  BY DEF DigitsInv, TypeOK
<1>2. QED
  BY <1>1, DecimalOfByte DEF Shown

(* A step that leaves the registers and the initialisation alone keeps what   *)
(* is said of them.                                                           *)
LEMMA RegistersKept ==
  ASSUME DigitsInv, UNCHANGED <<registers, initialised>>
  PROVE  RunsOnceInitialised' /\ TwoDigits'
BY DEF DigitsInv, RunsOnceInitialised, StandingSecond, TwoDigits, Stopped

(* A call that begins is at an enabling, so it transfers nothing yet.          *)
LEMMA NewCall ==
  ASSUME DigitsInv, NEW c \in Contexts, NEW op \in {"get", "set"},
         NEW ct \in [Fields -> Bytes], Call(c, op, ct)
  PROVE  /\ RunsOnceInitialised' /\ TwoDigits' /\ CallsInOrder'
         /\ frames' \in [Contexts -> Calls]
<1> DEFINE call == [Idle EXCEPT !.op = op, !.ct = ct]
<1>1. call \in Calls /\ call.pc = "enable"
  BY IdleIsCall DEF Calls, Idle
<1>2. frames' = [frames EXCEPT ![c] = call] /\ initialised /\ UNCHANGED <<registers, initialised>>
  BY DEF Call, chip
<1> HIDE DEF call
<1>3. CallsInOrder' /\ frames' \in [Contexts -> Calls]
  BY <1>1, <1>2, OthersInOrder DEF DigitsInv
<1>4. QED
  BY <1>2, <1>3, RegistersKept

(* Beginning a call, in the main loop or in the interrupt.                    *)
LEMMA CallsKeepInv ==
  ASSUME DigitsInv, GetCalenderTime \/ SetCalenderTime \/ GetInInterrupt
  PROVE  DigitsInv'
<1>1. Idle.ct \in [Fields -> Bytes]
  BY IdleIsCall
<1>2. initialised /\ UNCHANGED <<chip, local_rtc, initialised, seconds>>
  BY DEF GetCalenderTime, SetCalenderTime, GetInInterrupt, BeginMain, Call
<1>3. RunsOnceInitialised' /\ TwoDigits' /\ CallsInOrder' /\ frames' \in [Contexts -> Calls]
  <2>1. CASE GetCalenderTime
    BY <2>1, <1>1, NewCall DEF GetCalenderTime, BeginMain
  <2>2. CASE SetCalenderTime
    <3>1. PICK ct \in PhoneTimes : Call("main", "set", ct)
      BY <2>2 DEF SetCalenderTime, BeginMain
    <3>2. ct \in [Fields -> Bytes]
      BY RtcAssumption
    <3>3. QED
      BY <3>1, <3>2, NewCall
  <2>3. CASE GetInInterrupt
    BY <2>3, <1>1, NewCall DEF GetInInterrupt
  <2>4. QED
    BY <2>1, <2>2, <2>3
<1>4. calls' \in 0 .. MaxCalls
  BY RtcAssumption DEF GetCalenderTime, SetCalenderTime, GetInInterrupt, DigitsInv, TypeOK
<1>5. began' \in [Fields -> 0 .. 165] /\ disturbed' \in [carried : BOOLEAN, wrapped : BOOLEAN, cut : BOOLEAN]
  <2>1. Shown \in [Fields -> 0 .. 165]
    BY <1>2, BeganIsTyped
  <2>2. CASE GetInInterrupt
    BY <2>2 DEF GetInInterrupt, DigitsInv, TypeOK
  <2>3. CASE GetCalenderTime \/ SetCalenderTime
    <3>1. began' = Shown /\ disturbed' = Undisturbed
      BY <2>3 DEF GetCalenderTime, SetCalenderTime, BeginMain
    <3>2. QED
      BY <2>1, <3>1 DEF Undisturbed
  <2>4. QED
    BY <2>2, <2>3
<1>6. TypeOK'
  BY <1>2, <1>3, <1>4, <1>5 DEF DigitsInv, TypeOK, chip
<1>7. QED
  BY <1>3, <1>6 DEF DigitsInv

(* The second of a clock that stands is read without the bit that stops it.   *)
LEMMA DecimalOfStanding ==
  ASSUME NEW b \in 128 .. 255
  PROVE  Decimal("second", b) = 10 * ((b - 128) \div 16) + ((b - 128) % 16)
<1>1. (b - 128) \div 16 = b \div 16 - 8 /\ (b - 128) % 16 = b % 16
  OBVIOUS
<1>2. b \div 16 \in 8 .. 15
  OBVIOUS
<1>3. (b \div 16) % 8 = b \div 16 - 8
  BY <1>2
<1>4. QED
  BY <1>1, <1>2, <1>3 DEF Decimal, Tens

(* The initialisation starts a stopped clock with the second it reads, or     *)
(* leaves it with one it may not set.                                         *)
LEMMA InitRtcKeepsInv == DigitsInv /\ InitRtc => DigitsInv'
<1> SUFFICES ASSUME DigitsInv, InitRtc PROVE DigitsInv'
  OBVIOUS
<1> DEFINE second == Decimal("second", registers["second"])
<1>1. RegistersOK
  BY DEF DigitsInv, TypeOK, RegistersOK
<1>2. RegistersOK' /\ RunsOnceInitialised'
  <2>0. second \in 0 .. 165
    BY <1>1, DecimalOfByte, SecondIsField DEF RegistersOK
  <2>1. CASE Stopped /\ Accepts("second", second)
    <3>1. registers' = [registers EXCEPT !["second"] = Bcd(second)]
      BY <2>1 DEF InitRtc
    <3>2. second \in 0 .. 60
      BY <2>0, <2>1 DEF Accepts
    <3> HIDE DEF second
    <3>3. second \in 0 .. 99
      BY <3>2
    <3>4. Bcd(second) \in 0 .. 96 /\ registers'["second"] = Bcd(second)
      BY <1>1, <3>1, <3>2, <3>3, BcdIsByte, SecondIsField DEF RegistersOK
    <3>5. ~Stopped'
      BY <3>4 DEF Stopped
    <3>6. QED
      BY <1>1, <3>1, <3>2, <3>3, <3>5, DigitsWritten, SecondIsField DEF RunsOnceInitialised
  <2>2. CASE ~(Stopped /\ Accepts("second", second))
    <3>1. registers' = registers
      BY <2>2 DEF InitRtc
    <3>2. Stopped => StandingSecond > 60
      <4>1. Stopped => second > 60
        BY <2>0, <2>2 DEF Accepts
      <4>2. Stopped => registers["second"] \in 128 .. 255
        BY <1>1, SecondIsField DEF RegistersOK, Stopped, Bytes
      <4>3. QED
        BY <4>1, <4>2, DecimalOfStanding DEF StandingSecond
    <3>3. QED
      BY <1>1, <3>1, <3>2 DEF RegistersOK, TwoDigits, RunsOnceInitialised, StandingSecond, Stopped
  <2>3. QED
    BY <2>1, <2>2
<1> HIDE DEF second
<1>3. TypeOK'
  BY <1>2 DEF InitRtc, DigitsInv, TypeOK, RegistersOK
<1>4. CallsInOrder'
  BY DEF InitRtc, DigitsInv, CallsInOrder, Field
<1>5. QED
  BY <1>2, <1>3, <1>4 DEF DigitsInv, RegistersOK

(* A setting enables the chip only for what it has accepted.                  *)
LEMMA EnableKeepsInv ==
  ASSUME DigitsInv, NEW c \in Contexts, Enable(c)
  PROVE  DigitsInv'
<1> DEFINE call == [frames[c] EXCEPT !.pc = "transfer", !.byte = registers[Field(c)]]
<1>1. frames[c] \in Calls /\ Field(c) \in Fields
  BY FieldOfCall DEF DigitsInv, TypeOK
<1>2. call \in Calls
  BY <1>1 DEF Calls, DigitsInv, TypeOK
<1>3. /\ frames[c].op = "set" => Accepts(Field(c), frames[c].ct[Field(c)])
      /\ frames' = [frames EXCEPT ![c].pc = "transfer", ![c].byte = registers[Field(c)]]
      /\ frames[c].op # "idle" /\ enabled' = TRUE
  BY DEF Enable
<1>4. UNCHANGED <<registers, local_rtc, initialised, seconds, calls, began, disturbed>>
  BY DEF Enable
<1>5. initialised
  BY <1>3 DEF DigitsInv, CallsInOrder
<1>6. call.op = frames[c].op /\ call.at = frames[c].at /\ call.ct = frames[c].ct
  BY <1>1 DEF Calls
<1>7. frames' = [frames EXCEPT ![c] = call]
  BY <1>3 DEF DigitsInv, TypeOK
<1>8. call.op = "set" => Accepts(Order[7 - call.at], call.ct[Order[7 - call.at]])
  BY <1>3, <1>6 DEF Field
<1> HIDE DEF call
<1>9. CallsInOrder' /\ frames' \in [Contexts -> Calls]
  BY <1>2, <1>4, <1>5, <1>7, <1>8, OthersInOrder DEF DigitsInv
<1>10. enabled' \in BOOLEAN
  BY <1>3
<1>11. TypeOK'
  BY <1>4, <1>9, <1>10 DEF DigitsInv, TypeOK
<1>12. QED
  BY <1>4, <1>9, <1>11, RegistersKept DEF DigitsInv

(* Whatever byte is read, a field of two digits comes of it.                  *)
LEMMA ReadKeepsInv ==
  ASSUME DigitsInv, NEW c \in Contexts, Read(c)
  PROVE  DigitsInv'
<1>1. frames[c] \in Calls /\ Field(c) \in Fields
  BY FieldOfCall DEF DigitsInv, TypeOK
<1>2. PICK byte \in Bytes : local_rtc' = [local_rtc EXCEPT ![Field(c)] = Decimal(Field(c), byte)]
  <2>1. frames[c].byte \in Bytes
    BY <1>1 DEF Calls
  <2>2. QED
    BY <2>1, RtcAssumption DEF Read
<1>3. local_rtc' \in [Fields -> 0 .. 165]
  BY <1>1, <1>2, DecimalOfByte DEF DigitsInv, TypeOK
<1>4. /\ frames[c].op # "idle" /\ NextField(c) /\ enabled' = FALSE
      /\ UNCHANGED <<registers, initialised, seconds, calls, began, disturbed>>
  BY DEF Read, At
<1>5. CallsInOrder' /\ frames' \in [Contexts -> Calls]
  BY <1>4, NextFieldInOrder DEF DigitsInv
<1>6. enabled' \in BOOLEAN
  BY <1>4
<1>7. TypeOK'
  BY <1>3, <1>4, <1>5, <1>6 DEF DigitsInv, TypeOK
<1>8. QED
  BY <1>4, <1>5, <1>7, RegistersKept DEF DigitsInv

(* What is written was accepted, so it stops no clock.                        *)
LEMMA WriteKeepsInv ==
  ASSUME DigitsInv, NEW c \in Contexts, Write(c)
  PROVE  DigitsInv'
<1> DEFINE n == frames[c].ct[Field(c)]
<1>1. frames[c] \in Calls /\ Field(c) \in Fields
  BY FieldOfCall DEF DigitsInv, TypeOK
<1>2. n \in Bytes /\ Accepts(Field(c), n)
  BY <1>1 DEF Calls, DigitsInv, CallsInOrder, Write, At
<1>3. initialised /\ frames[c].op # "idle" /\ NextField(c) /\ enabled' = FALSE
  BY DEF Write, At, DigitsInv, CallsInOrder
<1>4. UNCHANGED <<local_rtc, initialised, seconds, calls, began, disturbed>>
  BY DEF Write
<1>5. CallsInOrder' /\ frames' \in [Contexts -> Calls]
  BY <1>3, <1>4, NextFieldInOrder DEF DigitsInv
<1>6. RegistersOK /\ RunsOnceInitialised
  BY DEF DigitsInv, TypeOK, RegistersOK
<1>7. RegistersOK' /\ RunsOnceInitialised'
  <2>1. CASE enabled
    <3>1. registers' = [registers EXCEPT ![Field(c)] = Bcd(n)]
      BY <2>1 DEF Write
    <3> HIDE DEF n
    <3>2. n \in 0 .. 99 /\ (Field(c) = "second" => n \in 0 .. 60)
      BY <1>1, <1>2, AcceptedFits
    <3>3. /\ RegistersOK'
          /\ Stopped' => Stopped /\ registers'["second"] = registers["second"]
      BY <1>1, <1>6, <3>1, <3>2, DigitsWritten
    <3>4. QED
      BY <1>3, <1>6, <3>3 DEF RunsOnceInitialised, StandingSecond
  <2>2. CASE ~enabled
    <3>1. registers' = registers
      BY <2>2 DEF Write
    <3>2. QED
      BY <1>3, <1>4, <1>6, <3>1
         DEF RegistersOK, TwoDigits, RunsOnceInitialised, StandingSecond, Stopped
  <2>3. QED
    BY <2>1, <2>2
<1>8. enabled' \in BOOLEAN
  BY <1>3
<1>9. TypeOK'
  BY <1>4, <1>5, <1>7, <1>8 DEF DigitsInv, TypeOK, RegistersOK
<1>10. QED
  BY <1>5, <1>7, <1>9 DEF DigitsInv, RegistersOK

(* A refused field is passed over.                                            *)
LEMMA RefuseKeepsInv ==
  ASSUME DigitsInv, NEW c \in Contexts, Refuse(c)
  PROVE  DigitsInv'
<1>1. /\ frames[c].op # "idle" /\ NextField(c)
      /\ UNCHANGED <<chip, local_rtc, initialised, seconds, calls, began, disturbed>>
  BY DEF Refuse, At
<1>2. CallsInOrder' /\ frames' \in [Contexts -> Calls]
  BY <1>1, NextFieldInOrder DEF DigitsInv
<1>3. TypeOK'
  BY <1>1, <1>2 DEF DigitsInv, TypeOK, chip
<1>4. QED
  BY <1>1, <1>2, <1>3, RegistersKept DEF DigitsInv, chip

(* A second passes: two digits are carried into two digits.                  *)
LEMMA TickKeepsInv == DigitsInv /\ Tick => DigitsInv'
<1> SUFFICES ASSUME DigitsInv, Tick PROVE DigitsInv'
  OBVIOUS
<1>1. RegistersOK /\ ~Stopped
  BY DEF Tick, DigitsInv, TypeOK, RegistersOK
<1>2. Shown \in [Fields -> 0 .. 99] /\ Shown["second"] <= 60
  BY <1>1, ShownIsDecimal
<1> DEFINE t == [f \in Fields |-> Later(Shown)[f]]
<1>3. t \in [Fields -> 0 .. 99] /\ t["second"] \in 0 .. 60
  BY <1>2, LaterIsDecimal, SecondIsField
<1>4. registers' = [f \in Fields |-> Bcd(t[f])]
  BY DEF Tick
<1> HIDE DEF t
<1>5. RegistersOK' /\ ~Stopped'
  BY <1>3, <1>4, DigitsRun
<1>6. UNCHANGED <<enabled, local_rtc, frames, initialised, calls, began>>
  BY DEF Tick
<1>7. seconds' \in 0 .. MaxSeconds
  BY RtcAssumption DEF Tick, DigitsInv, TypeOK
<1>8. disturbed' \in [carried : BOOLEAN, wrapped : BOOLEAN, cut : BOOLEAN]
  BY DEF Tick, DigitsInv, TypeOK
<1>9. TypeOK'
  BY <1>5, <1>6, <1>7, <1>8 DEF DigitsInv, TypeOK, RegistersOK
<1>10. CallsInOrder'
  BY <1>6 DEF DigitsInv, CallsInOrder, Field
<1>11. QED
  BY <1>5, <1>9, <1>10 DEF DigitsInv, RegistersOK, RunsOnceInitialised, StandingSecond

-----------------------------------------------------------------------------

(* Each step keeps the digits, and stops no clock.                            *)
LEMMA DigitsStep == DigitsInv /\ [Next]_vars => DigitsInv'
<1> SUFFICES ASSUME DigitsInv, [Next]_vars PROVE DigitsInv'
  OBVIOUS
<1>1. CASE InitRtc
  BY <1>1, InitRtcKeepsInv
<1>2. CASE GetCalenderTime \/ SetCalenderTime \/ GetInInterrupt
  BY <1>2, CallsKeepInv
<1>3. CASE Tick
  BY <1>3, TickKeepsInv
<1>4. ASSUME NEW c \in Contexts, Step(c) PROVE DigitsInv'
  BY <1>4, EnableKeepsInv, ReadKeepsInv, WriteKeepsInv, RefuseKeepsInv DEF Step
<1>5. CASE UNCHANGED vars
  BY <1>5 DEF vars, chip, DigitsInv, TypeOK, RunsOnceInitialised, StandingSecond, Stopped,
              TwoDigits, CallsInOrder, Field
<1>6. QED
  BY <1>1, <1>2, <1>3, <1>4, <1>5 DEF Next

-----------------------------------------------------------------------------

(* The order of times, of which NotBefore is the whole.                       *)
Times == [1 .. 6 -> Nat]

(* A time that is the same everywhere, or later in one place and the same     *)
(* behind it, is not before what the first was not before.                    *)
LEMMA SameIsNotBefore ==
  ASSUME NEW x \in Times, NEW y \in Times, NEW b \in Times, NotBefore(x, b),
         \A i \in 1 .. 6 : y[i] = x[i]
  PROVE  NotBefore(y, b)
BY DEF NotBefore, Times

(* Later in one place.                                                        *)
LEMMA LaterIsNotBefore ==
  ASSUME NEW x \in Times, NEW y \in Times, NEW b \in Times, NotBefore(x, b),
         NEW k \in 1 .. 6, y[k] > x[k], \A i \in k + 1 .. 6 : y[i] = x[i]
  PROVE  NotBefore(y, b)
<1>1. CASE \A i \in 1 .. 6 : x[i] = b[i]
  <2>1. y[k] > b[k] /\ \A i \in k + 1 .. 6 : y[i] = b[i]
    BY <1>1 DEF Times
  <2> QED
    BY <2>1 DEF NotBefore
<1>2. ASSUME NEW q \in 1 .. 6, x[q] > b[q], \A i \in q + 1 .. 6 : x[i] = b[i]
      PROVE  NotBefore(y, b)
  <2>1. CASE q < k
    <3>1. y[k] > b[k]
      BY <1>2, <2>1 DEF Times
    <3>2. \A i \in k + 1 .. 6 : y[i] = b[i]
      BY <1>2, <2>1
    <3> QED
      BY <3>1, <3>2 DEF NotBefore
  <2>2. CASE q = k
    <3>1. y[k] > b[k]
      BY <1>2, <2>2 DEF Times
    <3> QED
      BY <1>2, <2>2, <3>1 DEF NotBefore
  <2>3. CASE q > k
    <3>1. y[q] > b[q] /\ \A i \in q + 1 .. 6 : y[i] = b[i]
      BY <1>2, <2>3
    <3> QED
      BY <3>1 DEF NotBefore
  <2> QED
    BY <2>1, <2>2, <2>3
<1> QED
  BY <1>1, <1>2 DEF NotBefore

(* No field is read twice.                                                    *)
LEMMA OrderPlaces ==
  /\ \A i, k \in 1 .. 6 : Order[i] = Order[k] => i = k
  /\ \A f \in Fields : \E i \in 1 .. 6 : f = Order[i]
  /\ Order[1] = "second" /\ \A i \in 2 .. 6 : Order[i] \in Fields \ {"second"}
<1>1. ASSUME NEW i \in 1 .. 6, NEW k \in 1 .. 6, Order[i] = Order[k]
      PROVE  i = k
  BY <1>1 DEF Order
<1>2. \A i \in 2 .. 6 : Order[i] \in Fields \ {"second"}
  <2>1. TAKE i \in 2 .. 6
  <2>2. Order[i] # "second"
    BY DEF Order
  <2> QED
    BY <2>2, FieldNames
<1> QED
  BY <1>1, <1>2 DEF Fields, Order

(* A field goes on if all before it are at their last value.                  *)
LEMMA LaterAt ==
  ASSUME NEW t, NEW i \in 1 .. 6
  PROVE  Later(t)[Order[i]] =
           IF \A k \in 1 .. i - 1 : t[Order[k]] >= Last(t)[Order[k]]
             THEN IF t[Order[i]] >= Last(t)[Order[i]] THEN First[Order[i]] ELSE t[Order[i]] + 1
             ELSE t[Order[i]]
<1>1. (CHOOSE k \in 1 .. 6 : Order[k] = Order[i]) = i
  BY OrderPlaces
<1>2. Order[i] \in Fields
  BY FieldNames
<1> QED
  BY <1>1, <1>2 DEF Later

(* But for the last second of the year 99, one field goes on by one and those *)
(* behind it stay.                                                            *)
LEMMA LaterCarries ==
  ASSUME NEW t \in [Fields -> 0 .. 99], ~AtLast(t)
  PROVE  \E k \in 1 .. 6 : /\ Later(t)[Order[k]] = t[Order[k]] + 1
                           /\ \A i \in k + 1 .. 6 : Later(t)[Order[i]] = t[Order[i]]
<1> DEFINE P(k) == t[Order[k]] >= Last(t)[Order[k]]
<1>1. \E k \in 1 .. 6 : ~P(k)
  BY OrderPlaces DEF AtLast
<1>2. \E k \in 1 .. 6 : ~P(k) /\ \A i \in 1 .. k - 1 : P(i)
  <2> HIDE DEF P
  <2>1. \/ ~P(1)
        \/ P(1) /\ ~P(2)
        \/ P(1) /\ P(2) /\ ~P(3)
        \/ P(1) /\ P(2) /\ P(3) /\ ~P(4)
        \/ P(1) /\ P(2) /\ P(3) /\ P(4) /\ ~P(5)
        \/ P(1) /\ P(2) /\ P(3) /\ P(4) /\ P(5) /\ ~P(6)
    BY <1>1
  <2>2. /\ \A i \in 1 .. 0 : P(i)
        /\ P(1) => \A i \in 1 .. 1 : P(i)
        /\ P(1) /\ P(2) => \A i \in 1 .. 2 : P(i)
        /\ P(1) /\ P(2) /\ P(3) => \A i \in 1 .. 3 : P(i)
        /\ P(1) /\ P(2) /\ P(3) /\ P(4) => \A i \in 1 .. 4 : P(i)
        /\ P(1) /\ P(2) /\ P(3) /\ P(4) /\ P(5) => \A i \in 1 .. 5 : P(i)
    OBVIOUS
  <2>3. ~P(1) => 1 \in 1 .. 6 /\ ~P(1) /\ \A i \in 1 .. 1 - 1 : P(i)
    BY <2>2
  <2>4. P(1) /\ ~P(2) => 2 \in 1 .. 6 /\ ~P(2) /\ \A i \in 1 .. 2 - 1 : P(i)
    BY <2>2
  <2>5. P(1) /\ P(2) /\ ~P(3) => 3 \in 1 .. 6 /\ ~P(3) /\ \A i \in 1 .. 3 - 1 : P(i)
    BY <2>2
  <2>6. P(1) /\ P(2) /\ P(3) /\ ~P(4) =>
          4 \in 1 .. 6 /\ ~P(4) /\ \A i \in 1 .. 4 - 1 : P(i)
    BY <2>2
  <2>7. P(1) /\ P(2) /\ P(3) /\ P(4) /\ ~P(5) =>
          5 \in 1 .. 6 /\ ~P(5) /\ \A i \in 1 .. 5 - 1 : P(i)
    BY <2>2
  <2>8. P(1) /\ P(2) /\ P(3) /\ P(4) /\ P(5) /\ ~P(6) =>
          6 \in 1 .. 6 /\ ~P(6) /\ \A i \in 1 .. 6 - 1 : P(i)
    BY <2>2
  <2> QED
    BY <2>1, <2>3, <2>4, <2>5, <2>6, <2>7, <2>8
<1>3. PICK k \in 1 .. 6 : ~P(k) /\ \A i \in 1 .. k - 1 : P(i)
  BY <1>2
<1>4. Later(t)[Order[k]] = t[Order[k]] + 1
  BY <1>3, LaterAt
<1>5. ASSUME NEW i \in k + 1 .. 6
      PROVE  Later(t)[Order[i]] = t[Order[i]]
  <2>1. i \in 1 .. 6 /\ k \in 1 .. i - 1
    OBVIOUS
  <2>2. ~ \A l \in 1 .. i - 1 : t[Order[l]] >= Last(t)[Order[l]]
    BY <1>3, <2>1
  <2> QED
    BY <2>1, <2>2, LaterAt
<1> QED
  BY <1>4, <1>5

(* Before the second 59 only the second goes on.                              *)
LEMMA OnlySecond ==
  ASSUME NEW t \in [Fields -> 0 .. 99], t["second"] < 59
  PROVE  /\ Later(t)["second"] = t["second"] + 1
         /\ \A i \in 2 .. 6 : Later(t)[Order[i]] = t[Order[i]]
         /\ ~AtLast(t)
<1>1. Last(t)["second"] = 59 /\ t["second"] \in 0 .. 99
  BY SecondIsField DEF Last
<1>2. ~(t[Order[1]] >= Last(t)[Order[1]])
  BY <1>1, OrderPlaces
<1>3. Later(t)[Order[1]] = t[Order[1]] + 1
  BY <1>2, LaterAt
<1>4. ASSUME NEW i \in 2 .. 6
      PROVE  Later(t)[Order[i]] = t[Order[i]]
  <2>1. i \in 1 .. 6 /\ 1 \in 1 .. i - 1
    OBVIOUS
  <2> QED
    BY <1>2, <2>1, LaterAt
<1> QED
  BY <1>2, <1>3, <1>4, OrderPlaces, SecondIsField DEF AtLast

(* The masks of the fields lose nothing of what is shown.                     *)
LEMMA ShownFits ==
  ASSUME RegistersOK, ~Stopped, NEW f \in Fields
  PROVE  Shown[f] \div 10 < Tens(f)
<1>1. PICK n \in 0 .. 99 : registers[f] = Bcd(n)
  BY RunningDigits
<1>2. Shown[f] = ((n \div 10) % Tens(f)) * 10 + (n % 10)
  BY <1>1, DecimalOfBcd DEF Shown
<1>3. Tens(f) \in {2, 4, 8, 16}
  BY FieldNames DEF Tens
<1> DEFINE tens == (n \div 10) % Tens(f)
           units == n % 10
<1>4. n \div 10 \in 0 .. 9 /\ units \in 0 .. 9
  OBVIOUS
<1>5. tens \in 0 .. 15 /\ tens < Tens(f)
  BY <1>3, <1>4
<1>6. Shown[f] = tens * 10 + units
  BY <1>2
<1> HIDE DEF tens, units
<1>7. (tens * 10 + units) \div 10 = tens
  BY <1>4, <1>5
<1> QED
  BY <1>5, <1>6, <1>7

(* Nor of what is shown a second later.                                       *)
LEMMA LaterFits ==
  ASSUME NEW t \in [Fields -> 0 .. 99], NEW f \in Fields, t[f] \div 10 < Tens(f)
  PROVE  Later(t)[f] \div 10 < Tens(f)
<1>1. t[f] \in 0 .. 99
  OBVIOUS
<1>2. \/ Later(t)[f] = t[f]
      \/ Later(t)[f] = IF t[f] >= Last(t)[f] THEN First[f] ELSE t[f] + 1
  BY DEF Later
<1>3. First[f] \in 0 .. 1 /\ Tens(f) \in {2, 4, 8, 16}
  BY FieldNames DEF First, Tens
<1>4. CASE Later(t)[f] = t[f]
  BY <1>4
<1>5. CASE Later(t)[f] = First[f]
  BY <1>3, <1>5
<1>6. CASE Later(t)[f] = t[f] + 1 /\ ~(t[f] >= Last(t)[f])
  <2>1. DaysIn(t) \in 28 .. 31
    BY DEF DaysIn
  <2>2. CASE f \in {"second", "minute"}
    <3>1. Last(t)[f] = 59 /\ Tens(f) = 8
      BY <2>2 DEF Last, Tens
    <3> QED
      BY <1>1, <1>6, <3>1
  <2>3. CASE f = "hour"
    <3>1. Last(t)[f] = 23 /\ Tens(f) = 4
      BY <2>3 DEF Last, Tens
    <3> QED
      BY <1>1, <1>6, <3>1
  <2>4. CASE f = "date"
    <3>1. Last(t)[f] \in 28 .. 31 /\ Tens(f) = 4
      BY <2>1, <2>4 DEF Last, Tens
    <3> QED
      BY <1>1, <1>6, <3>1
  <2>5. CASE f = "month"
    <3>1. Last(t)[f] = 12 /\ Tens(f) = 2
      BY <2>5 DEF Last, Tens
    <3> QED
      BY <1>1, <1>6, <3>1
  <2>6. CASE f = "year"
    <3>1. Last(t)[f] = 99 /\ Tens(f) = 16
      BY <2>6 DEF Last, Tens
    <3> QED
      BY <1>1, <1>6, <3>1
  <2> QED
    BY <2>2, <2>3, <2>4, <2>5, <2>6, FieldNames
<1> QED
  BY <1>2, <1>4, <1>5, <1>6

(* When a second passes, the next one is shown.                               *)
LEMMA TickShows ==
  ASSUME DigitsInv, Tick
  PROVE  /\ Shown \in [Fields -> 0 .. 99]
         /\ \A f \in Fields : Shown'[f] = Later(Shown)[f]
<1>1. RegistersOK /\ ~Stopped
  BY DEF Tick, DigitsInv, TypeOK, RegistersOK
<1>2. Shown \in [Fields -> 0 .. 99] /\ Shown["second"] <= 60
  BY <1>1, ShownIsDecimal
<1>3. ASSUME NEW f \in Fields
      PROVE  Shown'[f] = Later(Shown)[f]
  <2>1. Shown[f] \div 10 < Tens(f)
    BY <1>1, ShownFits
  <2>2. Later(Shown)[f] \in 0 .. 99
    BY <1>2, LaterIsDecimal
  <2>3. Later(Shown)[f] \div 10 < Tens(f)
    BY <1>2, <2>1, LaterFits
  <2>4. registers'[f] = Bcd(Later(Shown)[f])
    BY DEF Tick
  <2>5. Shown'[f] = Decimal(f, registers'[f])
    BY DEF Shown
  <2> QED
    BY <2>2, <2>3, <2>4, <2>5, FittingReadBack
<1> QED
  BY <1>2, <1>3

-----------------------------------------------------------------------------

(* What is compared are times.                                                *)
LEMMA TimesCompared ==
  ASSUME DigitsInv, initialised
  PROVE  /\ Shown \in [Fields -> Nat] /\ local_rtc \in [Fields -> Nat]
         /\ began \in [Fields -> Nat]
         /\ Beginning \in Times
         /\ \A i \in 1 .. 7 : Mixed(i) \in Times
<1>1. Shown \in [Fields -> 0 .. 165]
  BY BeganIsTyped
<1>2. Shown \in [Fields -> Nat] /\ local_rtc \in [Fields -> Nat] /\ began \in [Fields -> Nat]
  <2>1. local_rtc \in [Fields -> 0 .. 165] /\ began \in [Fields -> 0 .. 165]
    BY DEF DigitsInv, TypeOK
  <2>2. \A n \in 0 .. 165 : n \in Nat
    OBVIOUS
  <2> QED
    BY <1>1, <2>1, <2>2
<1> QED
  BY <1>2, FieldNames DEF Beginning, Mixed, Times

(* The call that steps is the current one; only the main loop sets.           *)
LEMMA CurrentCall ==
  ASSUME DigitsInv, TransfersEnabled, NEW c \in Contexts, Running(c), frames[c].op # "idle"
  PROVE  /\ Current = c /\ Place = frames[c].at /\ Place \in 1 .. 6
         /\ c = "main" => frames["interrupt"].op = "idle"
         /\ frames[c].op = "get" => Field(c) = Order[Place]
         /\ frames[c].op = "set" => c = "main" /\ Field(c) = Order[7 - Place]
         /\ frames[c].op \in {"get", "set"}
         /\ initialised
<1>1. frames[c].at \in 1 .. 6 /\ frames[c].op \in {"idle", "get", "set"}
  BY DEF DigitsInv, TypeOK, Calls
<1>2. Current = c
  BY DEF Current, Running, TransfersEnabled
<1> QED
  BY <1>1, <1>2 DEF Place, Field, Running, TransfersEnabled, DigitsInv, CallsInOrder

(* The next frame of a call that has transferred or refused a field.          *)
LEMMA NextFrame ==
  ASSUME DigitsInv, NEW c \in Contexts, NextField(c)
  PROVE  /\ \A d \in Contexts : d # c => frames'[d] = frames[d]
         /\ frames'[c].pc = "enable"
         /\ frames[c].at < 6 => /\ frames'[c].op = frames[c].op
                                /\ frames'[c].at = frames[c].at + 1
                                /\ frames'[c].ct = frames[c].ct
         /\ ~(frames[c].at < 6) => frames'[c].op = "idle"
<1> DEFINE call == IF frames[c].at < 6
                     THEN [frames[c] EXCEPT !.at = @ + 1, !.pc = "enable", !.byte = 0]
                     ELSE Idle
<1>1. frames'[c] = call /\ \A d \in Contexts : d # c => frames'[d] = frames[d]
  BY DEF NextField, DigitsInv, TypeOK
<1>2. frames[c] \in Calls
  BY DEF DigitsInv, TypeOK
<1>3. CASE frames[c].at < 6
  <2>1. call = [frames[c] EXCEPT !.at = @ + 1, !.pc = "enable", !.byte = 0]
    BY <1>3
  <2>2. call.pc = "enable" /\ call.op = frames[c].op
        /\ call.at = frames[c].at + 1 /\ call.ct = frames[c].ct
    BY <1>2, <2>1 DEF Calls
  <2> HIDE DEF call
  <2> QED
    BY <1>1, <1>3, <2>2
<1>4. CASE ~(frames[c].at < 6)
  BY <1>1, <1>4 DEF Idle
<1> QED
  BY <1>3, <1>4

(* Before the initialisation no call is made.                                 *)
LEMMA InitRtcKeepsCalls ==
  ASSUME RtcInv, InitRtc
  PROVE  CallsSoFar'
<1>1. frames'["main"].op = "idle" /\ UNCHANGED <<frames, enabled, disturbed>>
  BY DEF InitRtc, RtcInv, DigitsInv, CallsInOrder
<1>2. TransfersEnabled'
  BY <1>1 DEF RtcInv, CallsSoFar, TransfersEnabled, At, Running
<1> QED
  BY <1>1, <1>2 DEF CallsSoFar, ReadingSoFar, ExactSoFar, SettingSoFar

(* The main loop begins with what is shown.                                   *)
LEMMA BeginKeepsCalls ==
  ASSUME RtcInv, NEW op \in {"get", "set"}, NEW ct, BeginMain(op, ct)
  PROVE  CallsSoFar'
<1>1. /\ initialised /\ frames["interrupt"].op = "idle"
      /\ UNCHANGED <<chip, local_rtc>> /\ began' = Shown /\ disturbed' = Undisturbed
  BY DEF BeginMain, Call, Running
<1>2. /\ frames'["interrupt"] = frames["interrupt"]
      /\ frames'["main"].op = op /\ frames'["main"].at = 1 /\ frames'["main"].pc = "enable"
  BY DEF BeginMain, Call, Idle, RtcInv, DigitsInv, TypeOK
<1>3. UNCHANGED <<Shown, enabled>>
  BY <1>1 DEF Shown, chip
<1>4. Current' = "main" /\ Place' = 1
  BY <1>1, <1>2 DEF Current, Place
<1>5. Shown \in [Fields -> Nat]
  BY <1>1, TimesCompared DEF RtcInv
<1>6. TransfersEnabled'
  BY <1>1, <1>2 DEF RtcInv, CallsSoFar, TransfersEnabled, At
<1>7. ReadingSoFar'
  <2>1. \A i \in 1 .. 6 : Mixed(1)'[i] = Beginning'[i]
    BY <1>1, <1>3 DEF Mixed, Beginning
  <2>2. NotBefore(Mixed(1)', Beginning')
    BY <2>1 DEF NotBefore
  <2> QED
    BY <1>2, <1>4, <2>2 DEF ReadingSoFar
<1>8. \A i \in 1 .. 6 : Between(Order[i], Shown[Order[i]])'
  BY <1>1, <1>3, <1>5, FieldNames DEF Between
<1>9. ExactSoFar'
  BY <1>2, <1>4, <1>8 DEF ExactSoFar
<1>10. SettingSoFar'
  BY <1>1, <1>2, <1>3 DEF SettingSoFar
<1> QED
  BY <1>6, <1>7, <1>9, <1>10 DEF CallsSoFar

(* The interrupt begins to read: it cuts a transfer, or what is said of what  *)
(* the main loop has read is not needed until it has read all itself.         *)
LEMMA InterruptKeepsCalls ==
  ASSUME RtcInv, GetInInterrupt
  PROVE  CallsSoFar'
<1>1. /\ initialised /\ frames["interrupt"].op = "idle"
      /\ UNCHANGED <<chip, local_rtc, began>>
      /\ disturbed' = [disturbed EXCEPT !.cut = @ \/ frames["main"].pc = "transfer"]
  BY DEF GetInInterrupt, Call, Running
<1>2. /\ frames'["main"] = frames["main"]
      /\ frames'["interrupt"].op = "get" /\ frames'["interrupt"].at = 1
      /\ frames'["interrupt"].pc = "enable"
  BY DEF GetInInterrupt, Call, Idle, RtcInv, DigitsInv, TypeOK
<1>3. UNCHANGED <<Shown, enabled>>
  BY <1>1 DEF Shown, chip
<1>4. Current' = "interrupt" /\ Place' = 1
  BY <1>2 DEF Current, Place
<1>5. /\ ~disturbed'.cut => ~disturbed.cut /\ frames["main"].pc # "transfer"
      /\ disturbed'.carried = disturbed.carried /\ disturbed'.wrapped = disturbed.wrapped
  BY <1>1 DEF RtcInv, DigitsInv, TypeOK
<1>6. TransfersEnabled'
  BY <1>2, <1>5 DEF RtcInv, CallsSoFar, TransfersEnabled, At
<1>7. Place \in 1 .. 6
  BY DEF RtcInv, DigitsInv, TypeOK, Calls, Place, Current
<1>8. ReadingSoFar'
  <2>1. Mixed(1)' = Mixed(1) /\ Beginning' = Beginning
    BY <1>1, <1>3 DEF Mixed, Beginning
  <2>2. 1 \in 1 .. Place
    BY <1>7
  <2>3. frames["main"].op = "get" /\ ~disturbed.cut /\ ~disturbed.wrapped =>
          NotBefore(Mixed(1), Beginning)
    BY <2>2 DEF RtcInv, CallsSoFar, ReadingSoFar
  <2> QED
    BY <1>2, <1>4, <1>5, <2>1, <2>3 DEF ReadingSoFar
<1>9. ExactSoFar'
  <2>1. \A i \in 1 .. 6 : Between(Order[i], Shown[Order[i]])' = Between(Order[i], Shown[Order[i]])
    BY <1>1, <1>3 DEF Between
  <2> QED
    BY <1>2, <1>4, <1>5, <2>1 DEF RtcInv, CallsSoFar, ExactSoFar
<1>10. SettingSoFar'
  BY <1>1, <1>2, <1>3, <1>5 DEF RtcInv, CallsSoFar, SettingSoFar
<1> QED
  BY <1>6, <1>8, <1>9, <1>10 DEF CallsSoFar

(* The byte that a reading latches is the one of what is shown.              *)
LEMMA EnableKeepsCalls ==
  ASSUME RtcInv, NEW c \in Contexts, Enable(c)
  PROVE  CallsSoFar'
<1>1. Running(c) /\ frames[c].op # "idle" /\ enabled' = TRUE
  BY DEF Enable
<1>2. /\ Current = c /\ Place = frames[c].at /\ Place \in 1 .. 6
      /\ c = "main" => frames["interrupt"].op = "idle"
      /\ frames[c].op = "get" => Field(c) = Order[Place]
      /\ frames[c].op = "set" => c = "main"
      /\ frames[c].op \in {"get", "set"}
      /\ initialised
  BY <1>1, CurrentCall DEF RtcInv, CallsSoFar
<1>3. UNCHANGED <<registers, local_rtc, began, disturbed>> /\ UNCHANGED Shown
  BY DEF Enable, Shown
<1>4. /\ \A d \in Contexts : d # c => frames'[d] = frames[d]
      /\ frames'[c].op = frames[c].op /\ frames'[c].at = frames[c].at
      /\ frames'[c].ct = frames[c].ct /\ frames'[c].pc = "transfer"
      /\ frames'[c].byte = registers[Field(c)]
  BY DEF Enable, RtcInv, DigitsInv, TypeOK, Calls
<1>5. Current' = c /\ Place' = Place
  BY <1>2, <1>4 DEF Current, Place
<1>6. frames'["main"].op = "get" => Latched' = Shown[Order[Place]]
  <2> SUFFICES ASSUME frames'["main"].op = "get"
               PROVE  Latched' = Shown[Order[Place]]
    OBVIOUS
  <2>1. frames[c].op = "get"
    BY <1>2, <1>4
  <2>2. Latched' = Decimal(Order[Place], registers[Order[Place]])
    BY <1>2, <1>4, <1>5, <2>1 DEF Latched
  <2> QED
    BY <1>2, <2>2, FieldNames DEF Shown
<1>7. TransfersEnabled'
  BY <1>1, <1>2, <1>3, <1>4 DEF RtcInv, CallsSoFar, TransfersEnabled, At, Running
<1>8. frames'["main"].op = frames["main"].op /\ frames'["main"].at = frames["main"].at
      /\ frames'["main"].ct = frames["main"].ct
  BY <1>4
<1>9. ReadingSoFar'
  <2> SUFFICES ASSUME frames["main"].op = "get", ~disturbed.cut, ~disturbed.wrapped
               PROVE  /\ \A i \in 1 .. Place : NotBefore(Mixed(i)', Beginning')
                      /\ NotBefore([Mixed(Place)' EXCEPT ![Place] = Latched'], Beginning')
    BY <1>3, <1>5, <1>8 DEF ReadingSoFar
  <2>1. /\ Beginning' = Beginning
        /\ \A i \in 1 .. Place : Mixed(i)' = Mixed(i) /\ NotBefore(Mixed(i), Beginning)
    BY <1>3 DEF Beginning, Mixed, RtcInv, CallsSoFar, ReadingSoFar
  <2>2. Mixed(Place)[Place] = Latched'
    BY <1>2, <1>6, <1>8 DEF Mixed
  <2>3. [Mixed(Place) EXCEPT ![Place] = Latched'] = Mixed(Place)
    BY <2>2 DEF Mixed
  <2>4. Mixed(Place)' = Mixed(Place)
    BY <1>3, <1>5 DEF Mixed
  <2>5. \A i \in 1 .. Place : NotBefore(Mixed(i)', Beginning')
    BY <2>1
  <2>6. NotBefore(Mixed(Place), Beginning)
    BY <1>2, <2>1
  <2> QED
    BY <2>1, <2>3, <2>4, <2>5, <2>6
<1>10. ExactSoFar'
  <2> SUFFICES ASSUME frames["main"].op = "get", ~disturbed.cut, ~disturbed.carried
               PROVE  /\ \A i \in 1 .. 6 : Between(Order[i], Shown[Order[i]])'
                      /\ \A i \in 1 .. Place - 1 : Between(Order[i], local_rtc[Order[i]])'
                      /\ Between(Order[Place], Latched)'
    BY <1>3, <1>5, <1>8 DEF ExactSoFar
  <2>1. \A i \in 1 .. 6 : Between(Order[i], Shown[Order[i]])
    BY DEF RtcInv, CallsSoFar, ExactSoFar
  <2>2. \A i \in 1 .. Place - 1 : Between(Order[i], local_rtc[Order[i]])
    BY DEF RtcInv, CallsSoFar, ExactSoFar
  <2>3. Between(Order[Place], Shown[Order[Place]])
    BY <1>2, <2>1
  <2> QED
    BY <1>3, <1>5, <1>6, <1>8, <2>1, <2>2, <2>3 DEF Between
<1>11. SettingSoFar'
  BY <1>3, <1>8 DEF RtcInv, CallsSoFar, SettingSoFar
<1> QED
  BY <1>7, <1>9, <1>10, <1>11 DEF CallsSoFar

(* What a reading that is not cut takes is what it has latched.               *)
LEMMA ReadTakesLatched ==
  ASSUME RtcInv, NEW c \in Contexts, Read(c), ~disturbed.cut
  PROVE  /\ Current = c /\ Place = frames[c].at /\ Place \in 1 .. 6
         /\ initialised
         /\ frames[c].op = "get" /\ frames[c].pc = "transfer"
         /\ c = "main" => frames["interrupt"].op = "idle"
         /\ local_rtc' = [local_rtc EXCEPT ![Order[Place]] = Latched]
         /\ \A i \in 1 .. 6 :
              local_rtc'[Order[i]] = IF i = Place THEN Latched ELSE local_rtc[Order[i]]
<1>1. Running(c) /\ frames[c].op = "get" /\ frames[c].pc = "transfer"
  BY DEF Read, At
<1>2. /\ Current = c /\ Place = frames[c].at /\ Place \in 1 .. 6
      /\ Field(c) = Order[Place] /\ initialised
      /\ c = "main" => frames["interrupt"].op = "idle"
  BY <1>1, CurrentCall DEF RtcInv, CallsSoFar
<1>3. enabled
  BY <1>1 DEF RtcInv, CallsSoFar, TransfersEnabled, At, Running
<1>4. local_rtc' = [local_rtc EXCEPT ![Order[Place]] = Latched]
  BY <1>2, <1>3 DEF Read, Latched
<1>5. local_rtc \in [Fields -> Nat]
  BY <1>2, TimesCompared DEF RtcInv
<1>6. \A i \in 1 .. 6 :
        local_rtc'[Order[i]] = IF i = Place THEN Latched ELSE local_rtc[Order[i]]
  BY <1>2, <1>4, <1>5, OrderPlaces, FieldNames
<1> QED
  BY <1>1, <1>2, <1>4, <1>6

(* The fields read so far, one more: whoever reads them.                      *)
LEMMA ReadKeepsCalls ==
  ASSUME RtcInv, NEW c \in Contexts, Read(c)
  PROVE  CallsSoFar'
<1>1. /\ Running(c) /\ frames[c].op = "get" /\ frames[c].pc = "transfer" /\ NextField(c)
      /\ enabled' = FALSE /\ UNCHANGED <<registers, began, disturbed>> /\ UNCHANGED Shown
  BY DEF Read, At, Shown
<1>2. /\ \A d \in Contexts : d # c => frames'[d] = frames[d]
      /\ frames'[c].pc = "enable"
      /\ frames[c].at < 6 => /\ frames'[c].op = "get"
                             /\ frames'[c].at = frames[c].at + 1
      /\ ~(frames[c].at < 6) => frames'[c].op = "idle"
  BY <1>1, NextFrame DEF RtcInv
<1>3. c = "main" => frames["interrupt"].op = "idle"
  BY <1>1 DEF Running
<1>4. TransfersEnabled'
  BY <1>1, <1>2, <1>3 DEF RtcInv, CallsSoFar, TransfersEnabled, At
<1>5. SettingSoFar'
  <2> SUFFICES ASSUME frames'["main"].op = "set"
               PROVE  c # "main"
    BY <1>1, <1>2 DEF RtcInv, CallsSoFar, SettingSoFar
  <2> QED
    BY <1>2
<1>6. ASSUME frames'["main"].op = "get", ~disturbed.cut
      PROVE  /\ frames["main"].op = "get"
             /\ frames["main"].pc # "transfer" \/ c = "main"
             /\ Place' \in 1 .. Place + 1 /\ Place' \in 1 .. 6 /\ Place \in 1 .. 6
             /\ frames'[Current'].pc # "transfer"
             /\ initialised
             /\ \A i \in 1 .. 6 :
                  local_rtc'[Order[i]] = IF i = Place THEN Latched ELSE local_rtc[Order[i]]
  <2>1. /\ Current = c /\ Place = frames[c].at /\ Place \in 1 .. 6 /\ initialised
        /\ \A i \in 1 .. 6 :
             local_rtc'[Order[i]] = IF i = Place THEN Latched ELSE local_rtc[Order[i]]
    BY <1>6, ReadTakesLatched
  <2>2. frames["main"].op = "get"
    BY <1>1, <1>2, <1>6
  <2>3. frames["main"].pc # "transfer" \/ c = "main"
    BY <1>1, <1>6 DEF RtcInv, CallsSoFar, TransfersEnabled
  <2>4. frames["main"].at \in 1 .. 6
    BY DEF RtcInv, DigitsInv, TypeOK, Calls
  <2>5. CASE frames[c].at < 6
    <3>1. Current' = c
      BY <1>1, <1>2, <1>3, <2>5 DEF Current
    <3>2. Place' = Place + 1
      BY <1>2, <2>1, <2>5, <3>1 DEF Place
    <3> QED
      BY <1>2, <2>1, <2>2, <2>3, <2>5, <3>1, <3>2
  <2>6. CASE ~(frames[c].at < 6)
    <3>1. c = "interrupt"
      BY <1>2, <1>6, <2>6
    <3>2. Current' = "main" /\ Place' = frames["main"].at
      BY <1>2, <2>6, <3>1 DEF Current, Place
    <3>3. Place = 6
      BY <2>1, <2>6
    <3> QED
      BY <1>2, <2>1, <2>2, <2>3, <2>4, <3>1, <3>2, <3>3
  <2> QED
    BY <2>5, <2>6
<1>7. ReadingSoFar'
  <2> SUFFICES ASSUME frames'["main"].op = "get", ~disturbed.cut, ~disturbed.wrapped,
                      NEW i \in 1 .. Place'
               PROVE  NotBefore(Mixed(i)', Beginning)
    <3>1. Beginning' = Beginning
      BY <1>1 DEF Beginning
    <3> QED
      BY <1>1, <1>6, <3>1 DEF ReadingSoFar
  <2>1. /\ \A k \in 1 .. Place : NotBefore(Mixed(k), Beginning)
        /\ NotBefore([Mixed(Place) EXCEPT ![Place] = Latched], Beginning)
    <3>1. frames["main"].op = "get" /\ frames[Current].pc = "transfer"
      BY <1>1, <1>6, ReadTakesLatched
    <3> QED
      BY <3>1 DEF RtcInv, CallsSoFar, ReadingSoFar
  <2>2. i \in 1 .. 6 /\ i \in 1 .. Place + 1 /\ Place \in 1 .. 6
    BY <1>6
  <2>3. CASE i <= Place
    <3>1. Mixed(i)' = Mixed(i)
      BY <1>1, <1>6, <2>2, <2>3 DEF Mixed
    <3> QED
      BY <2>1, <2>2, <2>3, <3>1
  <2>4. CASE i = Place + 1
    <3>1. Mixed(i)' = [Mixed(Place) EXCEPT ![Place] = Latched]
      <4> DEFINE x == [k \in 1 .. 6 |-> IF k < i THEN local_rtc'[Order[k]] ELSE Shown[Order[k]]]
                 y == [k \in 1 .. 6 |-> IF k = Place THEN Latched ELSE Mixed(Place)[k]]
      <4>1. Mixed(i)' = x
        BY <1>1 DEF Mixed
      <4>2. [Mixed(Place) EXCEPT ![Place] = Latched] = y
        BY <2>2 DEF Mixed
      <4>3. ASSUME NEW k \in 1 .. 6
            PROVE  x[k] = y[k]
        BY <1>6, <2>2, <2>4 DEF Mixed
      <4> QED
        BY <4>1, <4>2, <4>3
    <3> QED
      BY <2>1, <3>1
  <2> QED
    BY <2>2, <2>3, <2>4
<1>8. ExactSoFar'
  <2> SUFFICES ASSUME frames'["main"].op = "get", ~disturbed.cut, ~disturbed.carried
               PROVE  /\ \A i \in 1 .. 6 : Between(Order[i], Shown[Order[i]])'
                      /\ \A i \in 1 .. Place' - 1 : Between(Order[i], local_rtc[Order[i]])'
    BY <1>1, <1>6 DEF ExactSoFar
  <2>1. frames["main"].op = "get" /\ frames[Current].pc = "transfer"
    BY <1>1, <1>6, ReadTakesLatched
  <2>2. /\ \A i \in 1 .. 6 : Between(Order[i], Shown[Order[i]])
        /\ \A i \in 1 .. Place - 1 : Between(Order[i], local_rtc[Order[i]])
        /\ Between(Order[Place], Latched)
    BY <2>1 DEF RtcInv, CallsSoFar, ExactSoFar
  <2>3. \A i \in 1 .. 6 : Between(Order[i], Shown[Order[i]])'
    BY <1>1, <2>2 DEF Between
  <2>4. ASSUME NEW i \in 1 .. Place' - 1
        PROVE  Between(Order[i], local_rtc[Order[i]])'
    <3>1. i \in 1 .. 6 /\ (i = Place \/ i \in 1 .. Place - 1)
      BY <1>6
    <3>2. Between(Order[i], local_rtc'[Order[i]])
      BY <1>6, <2>2, <3>1
    <3> QED
      BY <1>1, <3>2 DEF Between
  <2> QED
    BY <2>3, <2>4
<1> QED
  BY <1>4, <1>5, <1>7, <1>8 DEF CallsSoFar

(* A setting that is not cut writes what was sent, or leaves what is not of   *)
(* its field's kind, and passes on.                                           *)
LEMMA SettingPasses ==
  ASSUME RtcInv, Write("main") \/ Refuse("main"), ~disturbed.cut
  PROVE  LET at == frames["main"].at
             f == Order[7 - at]
             n == frames["main"].ct[f]
         IN  /\ at \in 1 .. 6 /\ f \in Fields
             /\ \A g \in Fields : Shown'[g] = IF g = f /\ Accepts(f, n) THEN n ELSE Shown[g]
<1> DEFINE at == frames["main"].at
           f == Order[7 - at]
           n == frames["main"].ct[f]
<1>1. Running("main") /\ frames["main"].op = "set"
  BY DEF Write, Refuse, At
<1>2. at \in 1 .. 6 /\ Field("main") = f
  BY <1>1, CurrentCall DEF RtcInv, CallsSoFar
<1>3. f \in Fields
  BY <1>2, FieldNames
<1>4. n \in Bytes
  BY <1>3 DEF RtcInv, DigitsInv, TypeOK, Calls
<1>5. CASE Write("main")
  <2>1. frames["main"].pc = "transfer"
    BY <1>5 DEF Write, At
  <2>2. Accepts(f, n) /\ enabled
    BY <1>1, <1>2, <2>1 DEF RtcInv, DigitsInv, CallsInOrder, CallsSoFar, TransfersEnabled
  <2>3. registers' = [registers EXCEPT ![f] = Bcd(n)]
    BY <1>2, <1>5, <2>2 DEF Write
  <2>4. Decimal(f, Bcd(n)) = n
    BY <1>3, <1>4, <2>2, ReadBackAsSet
  <2>5. \A g \in Fields : registers'[g] = IF g = f THEN Bcd(n) ELSE registers[g]
    BY <1>3, <2>3 DEF RtcInv, DigitsInv, TypeOK
  <2> HIDE DEF f, n
  <2>6. \A g \in Fields : Shown'[g] = IF g = f THEN n ELSE Shown[g]
    BY <2>4, <2>5 DEF Shown
  <2>7. \A g \in Fields : Shown'[g] = IF g = f /\ Accepts(f, n) THEN n ELSE Shown[g]
    BY <2>2, <2>6
  <2> QED
    BY <1>2, <1>3, <2>7 DEF f, n
<1>6. CASE Refuse("main")
  <2>1. ~Accepts(f, n) /\ UNCHANGED registers
    BY <1>2, <1>6 DEF Refuse, chip
  <2>2. \A g \in Fields : Shown'[g] = Shown[g]
    BY <2>1 DEF Shown
  <2> QED
    BY <1>2, <1>3, <2>1, <2>2
<1> QED
  BY <1>5, <1>6

(* A setting passes one more field.                                          *)
LEMMA SetKeepsCalls ==
  ASSUME RtcInv, NEW c \in Contexts, Write(c) \/ Refuse(c)
  PROVE  CallsSoFar'
<1>1. /\ Running(c) /\ frames[c].op = "set" /\ NextField(c)
      /\ UNCHANGED <<local_rtc, began, disturbed>>
  BY DEF Write, Refuse, At
<1>2. c = "main" /\ frames["interrupt"].op = "idle" /\ frames[c].at \in 1 .. 6
  BY <1>1, CurrentCall DEF RtcInv, CallsSoFar
<1>3. /\ frames'["interrupt"] = frames["interrupt"]
      /\ frames'["main"].pc = "enable"
      /\ frames["main"].at < 6 => /\ frames'["main"].op = "set"
                                  /\ frames'["main"].at = frames["main"].at + 1
                                  /\ frames'["main"].ct = frames["main"].ct
      /\ ~(frames["main"].at < 6) => frames'["main"].op = "idle"
  BY <1>1, <1>2, NextFrame DEF RtcInv
<1>4. TransfersEnabled'
  BY <1>2, <1>3 DEF TransfersEnabled, At
<1>5. ReadingSoFar' /\ ExactSoFar'
  BY <1>3 DEF ReadingSoFar, ExactSoFar
<1>6. SettingSoFar'
  <2> SUFFICES ASSUME frames'["main"].op = "set", ~disturbed.cut, ~disturbed.carried,
                      NEW i \in 1 .. 5
               PROVE  LET f == Order[7 - i] n == frames["main"].ct[Order[7 - i]]
                      IN  Shown'[f] = IF i < frames["main"].at + 1 /\ Accepts(f, n)
                                        THEN n ELSE began[f]
    BY <1>1, <1>3 DEF SettingSoFar
  <2> DEFINE at == frames["main"].at
             f == Order[7 - i]
             n == frames["main"].ct[f]
             h == Order[7 - at]
             m == frames["main"].ct[h]
  <2>1. at < 6
    BY <1>3
  <2>2. Shown[f] = IF i < at /\ Accepts(f, n) THEN n ELSE began[f]
    BY <1>1, <1>2 DEF RtcInv, CallsSoFar, SettingSoFar
  <2>3. \A g \in Fields : Shown'[g] = IF g = h /\ Accepts(h, m) THEN m ELSE Shown[g]
    BY <1>2, SettingPasses
  <2>4. f \in Fields /\ (f = h <=> i = at)
    <3>1. 7 - i \in 1 .. 6 /\ 7 - at \in 1 .. 6 /\ (7 - i = 7 - at <=> i = at)
      BY <1>2
    <3> QED
      BY <3>1, OrderPlaces, FieldNames
  <2>5. CASE i = at
    <3>1. f = h /\ n = m
      BY <2>5
    <3> HIDE DEF f, n, h, m
    <3> QED
      BY <1>2, <2>2, <2>3, <2>4, <2>5, <3>1 DEF f, n
  <2>6. CASE i # at
    <3>1. f # h /\ (i < at <=> i < at + 1)
      BY <1>2, <2>4, <2>6
    <3>2. Shown'[f] = Shown[f]
      BY <2>3, <2>4, <3>1
    <3> QED
      BY <2>2, <3>1, <3>2
  <2> QED
    BY <2>5, <2>6
<1> QED
  BY <1>4, <1>5, <1>6 DEF CallsSoFar

(* A second that passes makes later what has not yet been read; before 59 it  *)
(* leaves all but the second.                                                 *)
LEMMA TickKeepsCalls ==
  ASSUME RtcInv, Tick
  PROVE  CallsSoFar'
<1>1. /\ UNCHANGED <<enabled, local_rtc, frames, began>>
      /\ disturbed' = [disturbed EXCEPT !.carried = @ \/ Shown["second"] >= 59,
                                        !.wrapped = @ \/ AtLast(Shown)]
  BY DEF Tick
<1>2. /\ Shown \in [Fields -> 0 .. 99]
      /\ \A f \in Fields : Shown'[f] = Later(Shown)[f]
  BY TickShows DEF RtcInv
<1>3. disturbed \in [carried : BOOLEAN, wrapped : BOOLEAN, cut : BOOLEAN]
  BY DEF RtcInv, DigitsInv, TypeOK
<1>4. /\ disturbed'.cut = disturbed.cut
      /\ ~disturbed'.carried => ~disturbed.carried /\ ~(Shown["second"] >= 59)
      /\ ~disturbed'.wrapped => ~disturbed.wrapped /\ ~AtLast(Shown)
  BY <1>1, <1>3
<1>5. UNCHANGED <<Current, Place, Latched, Beginning>>
  BY <1>1 DEF Current, Place, Latched, Beginning
<1>6. TransfersEnabled'
  BY <1>1, <1>4 DEF RtcInv, CallsSoFar, TransfersEnabled, At, Running
<1>7. ReadingSoFar'
  <2> SUFFICES ASSUME frames["main"].op = "get", ~disturbed.cut, ~disturbed'.wrapped
               PROVE  /\ \A i \in 1 .. Place : NotBefore(Mixed(i)', Beginning)
                      /\ frames[Current].pc = "transfer" =>
                           NotBefore([Mixed(Place)' EXCEPT ![Place] = Latched], Beginning)
    BY <1>1, <1>4, <1>5 DEF ReadingSoFar
  <2>1. PICK k \in 1 .. 6 : /\ Later(Shown)[Order[k]] = Shown[Order[k]] + 1
                            /\ \A i \in k + 1 .. 6 : Later(Shown)[Order[i]] = Shown[Order[i]]
    BY <1>2, <1>4, LaterCarries
  <2>2. /\ Shown'[Order[k]] > Shown[Order[k]]
        /\ \A i \in k + 1 .. 6 : Shown'[Order[i]] = Shown[Order[i]]
    BY <1>2, <2>1, FieldNames
  <2>3. initialised /\ Place \in 1 .. 6
    BY DEF RtcInv, DigitsInv, CallsInOrder, TypeOK, Calls, Place, Current
  <2>4. /\ Beginning \in Times /\ \A i \in 1 .. 7 : Mixed(i) \in Times
        /\ local_rtc \in [Fields -> Nat]
    BY <2>3, TimesCompared DEF RtcInv
  <2>5. /\ \A i \in 1 .. Place : NotBefore(Mixed(i), Beginning)
        /\ frames[Current].pc = "transfer" =>
             NotBefore([Mixed(Place) EXCEPT ![Place] = Latched], Beginning)
    BY <1>4 DEF RtcInv, CallsSoFar, ReadingSoFar
  <2>6. ASSUME NEW i \in 1 .. 7
        PROVE  /\ Mixed(i)' \in Times
               /\ \A q \in 1 .. 6 : /\ Mixed(i)[q] = IF q < i THEN local_rtc[Order[q]]
                                                              ELSE Shown[Order[q]]
                                    /\ Mixed(i)'[q] = IF q < i THEN local_rtc[Order[q]]
                                                               ELSE Shown'[Order[q]]
    <3>1. \A f \in Fields : Shown'[f] \in Nat
      <4>1. TAKE f \in Fields
      <4>2. Later(Shown)[f] \in 0 .. 99
        <5>1. Shown["second"] <= 60
          BY ShownIsDecimal DEF RtcInv, DigitsInv, TypeOK, RegistersOK, Tick
        <5> QED
          BY <1>2, <5>1, LaterIsDecimal
      <4> QED
        BY <1>2, <4>2
    <3> QED
      BY <1>1, <2>4, <3>1, FieldNames DEF Mixed, Times
  <2>7. ASSUME NEW i \in 1 .. Place
        PROVE  NotBefore(Mixed(i)', Beginning)
    <3>1. i \in 1 .. 7 /\ NotBefore(Mixed(i), Beginning)
      BY <2>3, <2>5
    <3>2. CASE k < i
      <4>1. \A q \in 1 .. 6 : Mixed(i)'[q] = Mixed(i)[q]
        BY <2>2, <2>6, <3>1, <3>2
      <4> QED
        BY <2>4, <2>6, <3>1, <4>1, SameIsNotBefore
    <3>3. CASE ~(k < i)
      <4>1. Mixed(i)'[k] > Mixed(i)[k] /\ \A q \in k + 1 .. 6 : Mixed(i)'[q] = Mixed(i)[q]
        BY <2>2, <2>6, <3>1, <3>3
      <4> QED
        BY <2>4, <2>6, <3>1, <4>1, LaterIsNotBefore
    <3> QED
      BY <3>2, <3>3
  <2>8. ASSUME frames[Current].pc = "transfer"
        PROVE  NotBefore([Mixed(Place)' EXCEPT ![Place] = Latched], Beginning)
    <3>1. PICK p \in 1 .. 6 : p = Place
      BY <2>3
    <3> DEFINE x == [Mixed(p) EXCEPT ![p] = Latched]
               y == [Mixed(p)' EXCEPT ![p] = Latched]
    <3>2. Mixed(Place)' = Mixed(p)'
      BY <1>5, <3>1 DEF Mixed
    <3>3. Latched \in Nat
      <4>1. Current \in Contexts /\ Order[Place] \in Fields /\ frames[Current].byte \in Bytes
        BY <2>3, FieldNames DEF Current, RtcInv, DigitsInv, TypeOK, Calls
      <4>2. Decimal(Order[Place], frames[Current].byte) \in 0 .. 165
        BY <4>1, DecimalOfByte
      <4> QED
        BY <4>2 DEF Latched
    <3>4. p \in 1 .. 7 /\ Mixed(p) \in Times /\ Mixed(p)' \in Times
      BY <2>4, <2>6
    <3>5. x \in Times /\ y \in Times
      BY <3>3, <3>4 DEF Times
    <3>6. \A q \in 1 .. 6 : /\ x[q] = IF q = p THEN Latched ELSE Mixed(p)[q]
                            /\ y[q] = IF q = p THEN Latched ELSE Mixed(p)'[q]
      BY <3>4 DEF Times
    <3>7. NotBefore(x, Beginning)
      BY <2>5, <2>8, <3>1
    <3> HIDE DEF x, y
    <3>8. CASE k <= p
      <4>1. \A q \in 1 .. 6 : y[q] = x[q]
        BY <2>2, <2>6, <3>4, <3>6, <3>8
      <4>2. NotBefore(y, Beginning)
        BY <2>4, <3>5, <3>7, <4>1, SameIsNotBefore
      <4> QED
        BY <3>1, <3>2, <4>2 DEF y
    <3>9. CASE ~(k <= p)
      <4>1. y[k] > x[k] /\ \A q \in k + 1 .. 6 : y[q] = x[q]
        BY <2>2, <2>6, <3>4, <3>6, <3>9
      <4>2. NotBefore(y, Beginning)
        BY <2>4, <3>5, <3>7, <4>1, LaterIsNotBefore
      <4> QED
        BY <3>1, <3>2, <4>2 DEF y
    <3> QED
      BY <3>8, <3>9
  <2> QED
    BY <2>7, <2>8
<1>8. ASSUME ~disturbed'.carried
      PROVE  /\ Shown'["second"] = Shown["second"] + 1
             /\ \A i \in 2 .. 6 : Shown'[Order[i]] = Shown[Order[i]]
  <2>1. Shown["second"] < 59
    <3>1. Shown["second"] \in 0 .. 99
      BY <1>2, SecondIsField
    <3> QED
      BY <1>4, <1>8, <3>1
  <2> QED
    BY <1>2, <2>1, OnlySecond, SecondIsField, OrderPlaces
<1>9. ExactSoFar'
  <2> SUFFICES ASSUME frames["main"].op = "get", ~disturbed.cut, ~disturbed'.carried
               PROVE  /\ \A i \in 1 .. 6 : Between(Order[i], Shown[Order[i]])'
                      /\ \A i \in 1 .. Place - 1 : Between(Order[i], local_rtc[Order[i]])'
                      /\ frames[Current].pc = "transfer" => Between(Order[Place], Latched)'
    BY <1>1, <1>4, <1>5 DEF ExactSoFar
  <2>1. /\ \A i \in 1 .. 6 : Between(Order[i], Shown[Order[i]])
        /\ \A i \in 1 .. Place - 1 : Between(Order[i], local_rtc[Order[i]])
        /\ frames[Current].pc = "transfer" => Between(Order[Place], Latched)
    BY <1>4 DEF RtcInv, CallsSoFar, ExactSoFar
  <2>2. initialised /\ Place \in 1 .. 6
    BY DEF RtcInv, DigitsInv, CallsInOrder, TypeOK, Calls, Place, Current
  <2>3. local_rtc \in [Fields -> Nat] /\ began \in [Fields -> Nat] /\ Latched \in Nat
    <3>1. Current \in Contexts /\ Order[Place] \in Fields /\ frames[Current].byte \in Bytes
      BY <2>2, FieldNames DEF Current, RtcInv, DigitsInv, TypeOK, Calls
    <3>2. Decimal(Order[Place], frames[Current].byte) \in 0 .. 165
      BY <3>1, DecimalOfByte
    <3> QED
      BY <2>2, <3>2, TimesCompared DEF RtcInv, Latched
  <2>4. ASSUME NEW i \in 1 .. 6, NEW n \in Nat, Between(Order[i], n)
        PROVE  IF Order[i] = "second" THEN began[Order[i]] <= n /\ n <= Shown'[Order[i]]
                                      ELSE n = began[Order[i]] /\ n = Shown'[Order[i]]
    <3>1. CASE i = 1
      <4>1. Order[i] = "second"
        BY <3>1, OrderPlaces
      <4>2. Shown'["second"] = Shown["second"] + 1 /\ Shown["second"] \in Nat
        BY <1>8, SecondIsField, <1>2
      <4> QED
        BY <2>4, <4>1, <4>2 DEF Between
    <3>2. CASE i # 1
      <4>1. i \in 2 .. 6 /\ Order[i] # "second"
        BY <3>2, OrderPlaces
      <4> QED
        BY <1>8, <2>4, <4>1 DEF Between
    <3> QED
      BY <3>1, <3>2
  <2>5. \A i \in 1 .. 6 : Between(Order[i], Shown[Order[i]])'
    <3>1. TAKE i \in 1 .. 6
    <3>2. Order[i] \in Fields /\ Shown[Order[i]] \in Nat /\ began[Order[i]] \in Nat
      BY <1>2, <2>3, FieldNames
    <3>3. CASE i = 1
      <4>1. Order[i] = "second" /\ Shown'["second"] = Shown["second"] + 1
        BY <1>8, <3>3, OrderPlaces
      <4> QED
        BY <1>1, <2>1, <3>2, <4>1 DEF Between
    <3>4. CASE i # 1
      <4>1. i \in 2 .. 6 /\ Order[i] # "second"
        BY <3>4, OrderPlaces
      <4>2. Shown'[Order[i]] = Shown[Order[i]]
        BY <1>8, <4>1
      <4> QED
        BY <1>1, <2>1, <4>1, <4>2 DEF Between
    <3> QED
      BY <3>3, <3>4
  <2>6. \A i \in 1 .. Place - 1 : Between(Order[i], local_rtc[Order[i]])'
    <3>1. TAKE i \in 1 .. Place - 1
    <3>2. i \in 1 .. 6 /\ local_rtc[Order[i]] \in Nat /\ Between(Order[i], local_rtc[Order[i]])
      BY <2>1, <2>2, <2>3, FieldNames
    <3> QED
      BY <1>1, <2>4, <3>2 DEF Between
  <2>7. frames[Current].pc = "transfer" => Between(Order[Place], Latched)'
    <3>1. PICK p \in 1 .. 6 : p = Place
      BY <2>2
    <3>2. frames[Current].pc = "transfer" => Between(Order[p], Latched)
      BY <2>1, <3>1
    <3> QED
      BY <1>1, <1>5, <2>3, <2>4, <3>1, <3>2 DEF Between
  <2> QED
    BY <1>5, <2>5, <2>6, <2>7
<1>10. SettingSoFar'
  <2> SUFFICES ASSUME frames["main"].op = "set", ~disturbed.cut, ~disturbed'.carried,
                      NEW i \in 1 .. 5
               PROVE  Shown'[Order[7 - i]] = Shown[Order[7 - i]]
    BY <1>1, <1>4 DEF RtcInv, CallsSoFar, SettingSoFar
  <2>1. 7 - i \in 2 .. 6
    OBVIOUS
  <2> QED
    BY <1>8, <2>1
<1> QED
  BY <1>6, <1>7, <1>9, <1>10 DEF CallsSoFar

(* At power-on no call is made.                                             *)
LEMMA InitCalls == Init => CallsSoFar
<1> SUFFICES ASSUME Init PROVE CallsSoFar
  OBVIOUS
<1>1. \A c \in Contexts : frames[c].op = "idle" /\ frames[c].pc = "enable"
  BY DEF Init, Idle
<1>2. TransfersEnabled
  BY <1>1 DEF TransfersEnabled, At
<1> QED
  BY <1>1, <1>2 DEF CallsSoFar, ReadingSoFar, ExactSoFar, SettingSoFar

-----------------------------------------------------------------------------

(* The invariant of the clock and of the calls: among others, what a reading  *)
(* has put together, by whatever of the two contexts, only ever completes to  *)
(* a time not before its beginning.                                           *)
THEOREM RtcInvariant == Spec => []RtcInv
<1>1. Init => RtcInv
  BY InitDigits, InitCalls DEF RtcInv
<1>2. RtcInv /\ [Next]_vars => RtcInv'
  <2> SUFFICES ASSUME RtcInv, [Next]_vars
               PROVE  RtcInv'
    OBVIOUS
  <2>1. DigitsInv'
    BY DigitsStep DEF RtcInv
  <2>2. CASE InitRtc
    BY <2>1, <2>2, InitRtcKeepsCalls DEF RtcInv
  <2>3. CASE GetCalenderTime \/ SetCalenderTime
    <3>1. CallsSoFar'
      BY <2>3, BeginKeepsCalls DEF GetCalenderTime, SetCalenderTime
    <3> QED
      BY <2>1, <3>1 DEF RtcInv
  <2>4. CASE GetInInterrupt
    BY <2>1, <2>4, InterruptKeepsCalls DEF RtcInv
  <2>5. CASE Tick
    BY <2>1, <2>5, TickKeepsCalls DEF RtcInv
  <2>6. ASSUME NEW c \in Contexts, Step(c)
        PROVE  RtcInv'
    <3>1. CallsSoFar'
      BY <2>6, EnableKeepsCalls, ReadKeepsCalls, SetKeepsCalls DEF Step
    <3> QED
      BY <2>1, <3>1 DEF RtcInv
  <2>7. CASE UNCHANGED vars
    <3>1. UNCHANGED <<registers, enabled, local_rtc, frames, began, disturbed>>
      BY <2>7 DEF vars, chip
    <3>2. UNCHANGED <<Shown, Current, Place, Latched, Beginning>> /\ \A i : UNCHANGED Mixed(i)
      BY <3>1 DEF Shown, Current, Place, Latched, Beginning, Mixed
    <3>3. UNCHANGED Mixed(Place)
      BY <3>1, <3>2 DEF Mixed
    <3>4. CallsSoFar'
      BY <3>1, <3>2, <3>3 DEF RtcInv, CallsSoFar, TransfersEnabled, ReadingSoFar, ExactSoFar,
                              SettingSoFar, Between, At, Running
    <3> QED
      BY <2>1, <3>4 DEF RtcInv
  <2> QED
    BY <2>2, <2>3, <2>4, <2>5, <2>6, <2>7 DEF Next
<1> QED
  BY <1>1, <1>2, PTL DEF Spec

(* From its initialisation on the clock stands only if its second register    *)
(* was left with more than 60, and until the phone sets a second: nothing     *)
(* that is set stops it (rtc.c:156-228, 264-268).                             *)
THEOREM ClockRuns == Spec => []RunsOnceInitialised
<1>1. RtcInv => RunsOnceInitialised
  BY DEF RtcInv, DigitsInv
<1>2. QED
  BY <1>1, RtcInvariant, PTL

(* Only the last transfer of the main loop's call, or its last refusal, ends  *)
(* it.                                                                        *)
LEMMA WhoReturns ==
  ASSUME RtcInv, [Next]_vars, NEW op \in {"get", "set"}, Returns(op)
  PROVE  IF op = "get" THEN Read("main") ELSE Write("main") \/ Refuse("main")
<1>1. frames["main"].op = op /\ frames'["main"] # frames["main"]
  BY DEF Returns
<1>2. \E c \in Contexts : Step(c)
  BY <1>1 DEF Next, vars, InitRtc, Tick, GetCalenderTime, SetCalenderTime, BeginMain,
              GetInInterrupt, Call, RtcInv, DigitsInv, TypeOK
<1>3. Step("main")
  <2>1. PICK c \in Contexts : Step(c)
    BY <1>2
  <2>2. c # "main" => frames'["main"] = frames["main"]
    BY <2>1, NextFrame DEF Step, Enable, Read, Write, Refuse, RtcInv, DigitsInv, TypeOK
  <2> QED
    BY <1>1, <2>1, <2>2
<1>4. ~Enable("main")
  <2>1. Enable("main") => frames'["main"].op = frames["main"].op
    BY DEF Enable, RtcInv, DigitsInv, TypeOK, Calls
  <2> QED
    BY <1>1, <2>1 DEF Returns
<1> QED
  BY <1>1, <1>3, <1>4 DEF Step, Read, Write, Refuse, At

(* No reading of the main loop returns a time before the one it began at,     *)
(* unless the year 99 ends in it or the interrupt cuts a transfer, for every  *)
(* time and however much of it passes between two transfers (rtc.c:230-238).  *)
THEOREM ReadingIsNotBehind == Spec => NeverBehind
<1>1. ASSUME RtcInv, [Next]_vars, Returns("get"), ~disturbed.cut, ~disturbed.wrapped
      PROVE  AtLeast(local_rtc', began)
  <2>1. Read("main") /\ frames["main"].op = "get"
    BY <1>1, WhoReturns DEF Returns
  <2>2. /\ Current = "main" /\ Place = 6 /\ initialised
        /\ frames["main"].pc = "transfer"
        /\ local_rtc' = [local_rtc EXCEPT ![Order[Place]] = Latched]
        /\ \A i \in 1 .. 6 :
             local_rtc'[Order[i]] = IF i = Place THEN Latched ELSE local_rtc[Order[i]]
    BY <1>1, <2>1, ReadTakesLatched DEF Returns
  <2>3. NotBefore([Mixed(6) EXCEPT ![6] = Latched], Beginning)
    BY <1>1, <2>1, <2>2 DEF RtcInv, CallsSoFar, ReadingSoFar
  <2>4. \A i \in 1 .. 6 : /\ [Mixed(6) EXCEPT ![6] = Latched][i] = local_rtc'[Order[i]]
                          /\ Beginning[i] = began[Order[i]]
    BY <2>2 DEF Mixed, Beginning
  <2>5. CASE \A i \in 1 .. 6 : local_rtc'[Order[i]] = began[Order[i]]
    <3>1. local_rtc \in [Fields -> Nat] /\ began \in [Fields -> Nat]
      BY <1>1, <2>2, TimesCompared DEF RtcInv
    <3>2. \A f \in Fields : local_rtc'[f] = began[f]
      BY <2>5, OrderPlaces
    <3>3. local_rtc' = began
      BY <2>2, <3>1, <3>2
    <3> QED
      BY <3>3 DEF AtLeast
  <2>6. CASE \E i \in 1 .. 6 : /\ local_rtc'[Order[i]] > began[Order[i]]
                               /\ \A k \in i + 1 .. 6 : local_rtc'[Order[k]] = began[Order[k]]
    BY <2>6 DEF AtLeast
  <2> QED
    BY <2>3, <2>4, <2>5, <2>6 DEF NotBefore
<1> QED
  BY <1>1, RtcInvariant, PTL DEF NeverBehind, Spec

(* Of two times that differ in the second alone the second tells.             *)
LEMMA AtLeastBySecond ==
  ASSUME NEW t \in [Fields -> Nat], NEW u \in [Fields -> Nat],
         \A f \in Fields \ {"second"} : t[f] = u[f], t["second"] >= u["second"]
  PROVE  AtLeast(t, u)
<1>1. CASE t["second"] = u["second"]
  <2>1. t = u
    BY <1>1
  <2> QED
    BY <2>1 DEF AtLeast
<1>2. CASE t["second"] # u["second"]
  <2>1. t["second"] \in Nat /\ u["second"] \in Nat
    BY SecondIsField
  <2>2. t[Order[1]] > u[Order[1]]
    BY <1>2, <2>1, OrderPlaces
  <2>3. \A k \in 1 + 1 .. 6 : t[Order[k]] = u[Order[k]]
    BY OrderPlaces
  <2> QED
    BY <2>2, <2>3 DEF AtLeast
<1> QED
  BY <1>1, <1>2

(* While no minute is carried it is a time the clock has shown since, exact   *)
(* in all but the second (rtc.c:230-238).                                     *)
THEOREM ReadingIsExact == Spec => ExactWithoutCarry
<1>1. ASSUME RtcInv, [Next]_vars, Returns("get"), ~disturbed.cut, ~disturbed.carried
      PROVE  /\ AtLeast(local_rtc', began) /\ AtLeast(Shown, local_rtc')
             /\ \A f \in Fields \ {"second"} : local_rtc'[f] = began[f]
  <2>1. Read("main") /\ frames["main"].op = "get"
    BY <1>1, WhoReturns DEF Returns
  <2>2. /\ Current = "main" /\ Place = 6 /\ initialised
        /\ frames["main"].pc = "transfer"
        /\ local_rtc' = [local_rtc EXCEPT ![Order[Place]] = Latched]
        /\ \A i \in 1 .. 6 :
             local_rtc'[Order[i]] = IF i = Place THEN Latched ELSE local_rtc[Order[i]]
    BY <1>1, <2>1, ReadTakesLatched DEF Returns
  <2>3. /\ \A i \in 1 .. 5 : Between(Order[i], local_rtc[Order[i]])
        /\ Between(Order[6], Latched)
    BY <1>1, <2>1, <2>2 DEF RtcInv, CallsSoFar, ExactSoFar
  <2>4. \A i \in 1 .. 6 : Between(Order[i], local_rtc'[Order[i]])
    <3>1. TAKE i \in 1 .. 6
    <3>2. i = 6 \/ i \in 1 .. 5
      OBVIOUS
    <3> QED
      BY <2>2, <2>3, <3>2
  <2>5. \A f \in Fields \ {"second"} : local_rtc'[f] = began[f] /\ local_rtc'[f] = Shown[f]
    BY <2>4, OrderPlaces DEF Between
  <2>6. began["second"] <= local_rtc'["second"] /\ local_rtc'["second"] <= Shown["second"]
    BY <2>4, OrderPlaces DEF Between
  <2>7. /\ local_rtc \in [Fields -> Nat] /\ began \in [Fields -> Nat]
        /\ Shown \in [Fields -> Nat] /\ local_rtc' \in [Fields -> Nat]
    <3>1. local_rtc' \in [Fields -> 0 .. 165]
      BY <1>1, DigitsStep DEF RtcInv, DigitsInv, TypeOK
    <3> QED
      BY <1>1, <2>2, <3>1, TimesCompared DEF RtcInv
  <2>8. AtLeast(local_rtc', began)
    BY <2>5, <2>6, <2>7, AtLeastBySecond
  <2>9. AtLeast(Shown, local_rtc')
    BY <2>5, <2>6, <2>7, AtLeastBySecond
  <2> QED
    BY <2>5, <2>8, <2>9
<1> QED
  BY <1>1, RtcInvariant, PTL DEF ExactWithoutCarry, Spec

(* A setting that no carry and no cut disturbs sets every field that is a     *)
(* number of its kind and leaves the others (rtc.c:156-228).                  *)
THEOREM SettingIsAsSent == Spec => SetAsSent
<1>1. ASSUME RtcInv, [Next]_vars, Returns("set"), ~disturbed.cut, ~disturbed.carried,
             NEW g \in Fields
      PROVE  LET ct == frames["main"].ct
             IN  IF Accepts(g, ct[g]) THEN Shown'[g] = ct[g]
                                      ELSE Shown'[g] = began[g] \/ g = "second"
  <2> DEFINE ct == frames["main"].ct
  <2>1. (Write("main") \/ Refuse("main")) /\ frames["main"].op = "set" /\ frames["main"].at = 6
    BY <1>1, WhoReturns DEF Returns
  <2>2. \A f \in Fields :
          Shown'[f] = IF f = "second" /\ Accepts("second", ct["second"]) THEN ct["second"]
                                                                        ELSE Shown[f]
    BY <1>1, <2>1, SettingPasses, OrderPlaces
  <2>3. CASE g = "second"
    BY <2>2, <2>3
  <2>4. CASE g # "second"
    <3>1. PICK i \in 1 .. 6 : g = Order[i]
      BY OrderPlaces
    <3>2. 7 - i \in 1 .. 5 /\ 7 - (7 - i) = i
      BY <2>4, <3>1, OrderPlaces
    <3>3. Shown[g] = IF Accepts(g, ct[g]) THEN ct[g] ELSE began[g]
      BY <1>1, <2>1, <3>1, <3>2 DEF RtcInv, CallsSoFar, SettingSoFar
    <3> QED
      BY <2>2, <2>4, <3>3
  <2> QED
    BY <2>3, <2>4
<1>2. RtcInv /\ [Next]_vars =>
        (Returns("set") /\ ~disturbed.cut /\ ~disturbed.carried =>
           LET ct == frames["main"].ct
           IN  \A f \in Fields :
                 \/ ct[f] \in Numbers(f) /\ Shown'[f] = ct[f]
                 \/ ct[f] \notin Numbers(f) /\ (Shown'[f] = began[f] \/ f = "second")
                 \/ f = "minute" /\ ct[f] = 60)
  <2> SUFFICES ASSUME RtcInv, [Next]_vars, Returns("set"), ~disturbed.cut, ~disturbed.carried,
                      NEW f \in Fields
               PROVE  LET n == frames["main"].ct[f]
                      IN  \/ n \in Numbers(f) /\ Shown'[f] = n
                          \/ n \notin Numbers(f) /\ (Shown'[f] = began[f] \/ f = "second")
                          \/ f = "minute" /\ n = 60
    OBVIOUS
  <2> DEFINE n == frames["main"].ct[f]
  <2>1. n \in Bytes
    BY DEF RtcInv, DigitsInv, TypeOK, Calls
  <2>2. IF Accepts(f, n) THEN Shown'[f] = n ELSE Shown'[f] = began[f] \/ f = "second"
    BY <1>1
  <2> HIDE DEF n
  <2>3. Accepts(f, n) <=> n \in Numbers(f) \/ (f = "minute" /\ n = 60)
    <3>1. CASE f = "second"
      BY <2>1, <3>1 DEF Accepts, Numbers, Bytes
    <3>2. CASE f = "minute"
      BY <2>1, <3>2 DEF Accepts, Numbers, Bytes
    <3>3. CASE f = "hour"
      BY <2>1, <3>3 DEF Accepts, Numbers, Bytes
    <3>4. CASE f = "date"
      BY <2>1, <3>4 DEF Accepts, Numbers, Bytes
    <3>5. CASE f = "month"
      BY <2>1, <3>5 DEF Accepts, Numbers, Bytes
    <3>6. CASE f = "year"
      BY <2>1, <3>6 DEF Accepts, Numbers, Bytes
    <3>7. QED
      BY <3>1, <3>2, <3>3, <3>4, <3>5, <3>6, FieldNames
  <2>4. QED
    BY <2>2, <2>3 DEF n
<1> QED
  BY <1>2, RtcInvariant, PTL DEF SetAsSent, Spec
=============================================================================
