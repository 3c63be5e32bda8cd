--------------------------------- MODULE Adc ---------------------------------
(***************************************************************************)
(* The converter and its two readers (adc.c; GetPm25, GetTvoc).             *)
(*                                                                          *)
(* The readers poll one event register and wait without a bound.  They are  *)
(* called by the sample handler in the main loop and, when a phone          *)
(* connects, in the BLE interrupt, which preempts the main loop anywhere    *)
(* and does not return before it has read both sensors.  The converter is   *)
(* external: a conversion sets EVENTS_END when it ends, and only writing 0  *)
(* changes that register, so the write of ADC_BUSY has no effect (were it   *)
(* otherwise, GetAdcValue would never wait).                                *)
(***************************************************************************)
EXTENDS Naturals, Sequences

CONSTANT Nested     \* whether a phone connects while the main loop reads

ASSUME AdcAssumption == Nested \in BOOLEAN

VARIABLES
  EVENTS_END,     \* TRUE for ADC_BUSY
  CONFIG,         \* the channel selected
  RESULT,         \* the last conversion, with the circumstances it was made in
  converting,     \* external: the conversion going on, or NoConversion
  hfclk,          \* the crystal is requested
  pulse,          \* PM25_PULSE_PIN is on
  frames,         \* the reader that runs in the main loop and in the interrupt
  disturbed       \* for the properties: a reading that shares its time with another

registers == <<EVENTS_END, CONFIG, RESULT, converting, hfclk, pulse>>
vars == <<registers, frames, disturbed>>

Contexts == {"main", "interrupt"}
Readers == {"pm25", "tvoc"}      \* each reads the channel of its own name

(* A conversion: its channel, whose reading started it ("old" for an earlier *)
(* one), and whether the dust was lit and the crystal requested.             *)
Conversions == [channel : Readers, of : Contexts \cup {"old"}, lit : BOOLEAN, clocked : BOOLEAN]
NoConversion == [channel |-> "none"]

Init ==
  /\ EVENTS_END = FALSE                           \* InitAdc
  /\ CONFIG = "tvoc"
  /\ RESULT = [channel |-> "tvoc", of |-> "old", lit |-> FALSE, clocked |-> TRUE]
  /\ converting = NoConversion
  /\ hfclk = FALSE /\ pulse = FALSE
  /\ frames = [c \in Contexts |-> [pc |-> "idle", reader |-> "pm25", opens |-> 0]]
  /\ disturbed = [c \in Contexts |-> FALSE]

-----------------------------------------------------------------------------

Reading(c) == frames[c].pc # "idle"

Running(c) == c = "interrupt" \/ ~Reading("interrupt")

At(c, pc) == Running(c) /\ frames[c].pc = pc

Goto(c, pc) == frames' = [frames EXCEPT ![c].pc = pc]

Older(conversion, c) ==
  IF conversion # NoConversion /\ conversion.of = c THEN [conversion EXCEPT !.of = "old"]
                                                    ELSE conversion

(* GetPm25 lights the dust and opens the converter once; GetTvoc opens it,   *)
(* and calls GetVoltage, which opens it again.                               *)
Opens(reader) == IF reader = "tvoc" THEN 2 ELSE 1

Begin(c, reader) ==
  /\ frames' = [frames EXCEPT ![c] =
                  [pc |-> "request", reader |-> reader, opens |-> Opens(reader)]]
  /\ RESULT' = Older(RESULT, c) /\ converting' = Older(converting, c)
  /\ pulse' = IF reader = "pm25" THEN TRUE ELSE pulse

(* GetSensorData in the main loop: first the dust, then the gas. *)
GetAveragePM25 ==
  /\ At("main", "idle")
  /\ Begin("main", "pm25")
  /\ disturbed' = [disturbed EXCEPT !["main"] = FALSE]
  /\ UNCHANGED <<EVENTS_END, CONFIG, hfclk>>

(* GetSensorData in the interrupt.  It disturbs the main loop's reading, and *)
(* is disturbed by it.                                                       *)
Connected ==
  /\ Nested /\ ~Reading("interrupt")
  /\ Begin("interrupt", "pm25")
  /\ disturbed' = [main |-> Reading("main") \/ disturbed["main"],
                   interrupt |-> Reading("main")]
  /\ UNCHANGED <<EVENTS_END, CONFIG, hfclk>>

-----------------------------------------------------------------------------

(* OpenAdc: sd_clock_hfclk_request, and the wait until the crystal runs.     *)
(* External: it does when requested, and every now and then for the radio.   *)
sd_clock_hfclk_request(c) ==
  /\ At(c, "request")
  /\ hfclk' = TRUE
  /\ Goto(c, "is_running")
  /\ UNCHANGED <<EVENTS_END, CONFIG, RESULT, converting, pulse, disturbed>>

sd_clock_hfclk_is_running(c) ==
  /\ At(c, "is_running")
  /\ Goto(c, "while_busy")
  /\ UNCHANGED <<registers, disturbed>>

(* while (ADC_BUSY == NRF_ADC->EVENTS_END); *)
WhileBusy(c) ==
  /\ At(c, "while_busy") /\ ~EVENTS_END
  /\ Goto(c, "config")
  /\ UNCHANGED <<registers, disturbed>>

(* Mutant: the conversion is started before its channel is selected. *)
ConfigAfterStart(c) ==
  /\ At(c, "config")
  /\ converting' = [channel |-> CONFIG, of |-> c, lit |-> pulse, clocked |-> hfclk]
  /\ CONFIG' = frames[c].reader
  /\ Goto(c, "start")
  /\ UNCHANGED <<EVENTS_END, RESULT, hfclk, pulse, disturbed>>

Config(c) ==
  /\ At(c, "config")
  /\ CONFIG' = frames[c].reader
  /\ Goto(c, "start")
  /\ UNCHANGED <<EVENTS_END, RESULT, converting, hfclk, pulse, disturbed>>

(* NRF_ADC->TASKS_START.  External: a conversion going on is ended and       *)
(* begun anew, or goes on.  OpenAdc returns, and GetTvoc calls it again.     *)
Start(c) ==
  /\ At(c, "start")
  /\ \/ converting' = [channel |-> CONFIG, of |-> c, lit |-> pulse, clocked |-> hfclk]
     \/ converting # NoConversion /\ UNCHANGED converting
  /\ frames' = [frames EXCEPT ![c].pc = IF frames[c].opens > 1 THEN "request" ELSE "while_idle",
                              ![c].opens = @ - 1]
  /\ UNCHANGED <<EVENTS_END, CONFIG, RESULT, hfclk, pulse, disturbed>>

OpenAdc(c) ==
  \/ sd_clock_hfclk_request(c) \/ sd_clock_hfclk_is_running(c)
  \/ WhileBusy(c) \/ Config(c) \/ Start(c)

(* GetAdcValue: while (ADC_IDLE == NRF_ADC->EVENTS_END); *)
WhileIdle(c) ==
  /\ At(c, "while_idle") /\ EVENTS_END
  /\ Goto(c, "result")
  /\ UNCHANGED <<registers, disturbed>>

(* The value is read, and the reader goes on to TASKS_STOP. *)
Result(c) ==
  /\ At(c, "result")
  /\ Goto(c, "stop")
  /\ UNCHANGED <<registers, disturbed>>

Stop(c) ==
  /\ At(c, "stop")
  /\ converting' = NoConversion
  /\ Goto(c, "clear")
  /\ UNCHANGED <<EVENTS_END, CONFIG, RESULT, hfclk, pulse, disturbed>>

(* Mutant: the event is left set. *)
ClearForgotten(c) ==
  /\ At(c, "clear")
  /\ Goto(c, "release")
  /\ UNCHANGED <<registers, disturbed>>

Clear(c) ==
  /\ At(c, "clear")
  /\ EVENTS_END' = FALSE
  /\ Goto(c, "release")
  /\ UNCHANGED <<CONFIG, RESULT, converting, hfclk, pulse, disturbed>>

(* sd_clock_hfclk_release; GetPm25 ends its pulse.  GetSensorData goes on    *)
(* with the gas after the dust, and is done after the gas.                   *)
sd_clock_hfclk_release(c) ==
  /\ At(c, "release")
  /\ hfclk' = FALSE
  /\ IF frames[c].reader = "pm25"
       THEN /\ frames' = [frames EXCEPT ![c] =
                            [pc |-> "request", reader |-> "tvoc", opens |-> Opens("tvoc")]]
            /\ RESULT' = Older(RESULT, c)
            /\ converting' = IF converting = NoConversion THEN NoConversion
                               ELSE [Older(converting, c) EXCEPT !.clocked = FALSE]
            /\ pulse' = FALSE
            /\ disturbed' = [disturbed EXCEPT !["main"] = IF c = "main" THEN FALSE ELSE @]
       ELSE /\ Goto(c, "idle")
            /\ converting' = IF converting = NoConversion THEN NoConversion
                               ELSE [converting EXCEPT !.clocked = FALSE]
            /\ UNCHANGED <<RESULT, pulse, disturbed>>
  /\ UNCHANGED <<EVENTS_END, CONFIG>>

GetAdcValue(c) == WhileIdle(c) \/ Result(c) \/ Stop(c) \/ Clear(c) \/ sd_clock_hfclk_release(c)

(* External: the conversion ends. *)
ConversionEnds ==
  /\ converting # NoConversion
  /\ RESULT' = converting /\ EVENTS_END' = TRUE
  /\ converting' = NoConversion
  /\ UNCHANGED <<CONFIG, hfclk, pulse, frames, disturbed>>

Step(c) == OpenAdc(c) \/ GetAdcValue(c)

(* A reader that waits for what never comes: the device stands still. *)
Waiting ==
  /\ converting = NoConversion
  /\ \E c \in Contexts : \/ At(c, "while_busy") /\ EVENTS_END
                         \/ At(c, "while_idle") /\ ~EVENTS_END
  /\ UNCHANGED vars

Next ==
  \/ GetAveragePM25 \/ Connected \/ ConversionEnds \/ Waiting
  \/ \E c \in Contexts : Step(c)

Spec == Init /\ [][Next]_vars

(* Readers and conversions go on.  A connection in the middle of a reading   *)
(* is rare: the main loop is not kept from going on for ever.                *)
FairSpec ==
  /\ Spec /\ WF_vars(ConversionEnds)
  /\ WF_vars(Step("interrupt")) /\ SF_vars(Step("main"))

-----------------------------------------------------------------------------

Pcs == {"idle", "request", "is_running", "while_busy", "config", "start",
        "while_idle", "result", "stop", "clear", "release"}

TypeOK ==
  /\ EVENTS_END \in BOOLEAN /\ CONFIG \in Readers
  /\ RESULT \in Conversions
  /\ converting \in Conversions \cup {NoConversion}
  /\ hfclk \in BOOLEAN /\ pulse \in BOOLEAN
  /\ frames \in [Contexts -> [pc : Pcs, reader : Readers, opens : 0 .. 2]]
  /\ disturbed \in [Contexts -> BOOLEAN]

Opening == {"request", "is_running", "while_busy", "config", "start"}

(* No conversion goes on, none has ended unnoticed.                          *)
Quiet == converting = NoConversion /\ ~EVENTS_END

(* The conversion a reader of its own wants.                                 *)
Own(c) == [channel |-> frames[c].reader, of |-> c,
           lit |-> frames[c].reader = "pm25", clocked |-> TRUE]

(* It is going on or has ended, and the event tells no other's end.          *)
Begun(c) ==
  /\ converting \in {Own(c), NoConversion}
  /\ converting = NoConversion => EVENTS_END
  /\ EVENTS_END => RESULT = Own(c)

(* A reader that no other interrupts takes the value of a conversion it      *)
(* started itself, of its own channel, with the crystal requested and, for   *)
(* the dust, inside the pulse; whatever interrupted readings left behind     *)
(* (adc.c:9-41, pm25.c:44-49, tvoc.c:54-55).                                 *)
OwnReading ==
  \A c \in Contexts : frames[c].pc = "result" /\ ~disturbed[c] =>
    RESULT = Own(c)

Stuck(c) ==
  /\ converting = NoConversion
  /\ \/ At(c, "while_busy") /\ EVENTS_END
     \/ At(c, "while_idle") /\ ~EVENTS_END

(* Why: the conversion of GetTvoc's first OpenAdc has ended before its second *)
(* one looks, or the event of another's reading is still set or was cleared   *)
(* by it.                                                                     *)
SecondOpenTooLate(c) ==
  frames[c].pc = "while_busy" /\ frames[c].reader = "tvoc" /\ frames[c].opens = 1
EventOfTheOther(c) == disturbed[c]

(* No reader waits in vain for any other reason, whatever interrupted         *)
(* readings left in the registers (adc.c:17, 33).                             *)
OnlyTheseWaits == \A c \in Contexts : Stuck(c) => SecondOpenTooLate(c) \/ EventOfTheOther(c)

(* Which opens are left at which step of a reader.                            *)
OpensLeft ==
  \A c \in Contexts :
    frames[c].opens \in IF frames[c].pc \in Opening THEN 1 .. Opens(frames[c].reader) ELSE {0}

(* A reading that shares its time with no other is the only one.              *)
UndisturbedIsAlone ==
  \A c, d \in Contexts : Reading(c) /\ ~disturbed[c] /\ Reading(d) => c = d

(* What a reader leaves behind when it releases the crystal, whatever         *)
(* interrupted it before: no conversion and no event.                         *)
NothingLeft ==
  /\ ~Reading("main") /\ ~Reading("interrupt") => Quiet
  /\ \A c \in Contexts : /\ At(c, "clear") => converting = NoConversion
                         /\ At(c, "release") => Quiet

(* What an undisturbed reader finds at each of its steps: at first nothing,   *)
(* then the conversion it wants.                                              *)
FirstOpen(c) == frames[c].pc \in Opening /\ frames[c].opens = Opens(frames[c].reader)

ReadsOwn(c) ==
  /\ pulse <=> frames[c].reader = "pm25"
  /\ frames[c].pc # "request" => hfclk
  /\ FirstOpen(c) => Quiet
  /\ ~FirstOpen(c) /\ frames[c].pc \notin {"clear", "release"} => Begun(c)
  /\ ~FirstOpen(c) \/ frames[c].pc = "start" => CONFIG = frames[c].reader
  /\ frames[c].pc = "result" => EVENTS_END

UndisturbedReads == \A c \in Contexts : Reading(c) /\ ~disturbed[c] => ReadsOwn(c)

(* With the types of the registers and of the readers' frames, and what the   *)
(* above follows from.                                                        *)
AdcInv ==
  /\ TypeOK /\ OnlyTheseWaits
  /\ OpensLeft /\ UndisturbedIsAlone /\ NothingLeft /\ UndisturbedReads

(* Every reading ends, or the device stands still for one of these reasons    *)
(* (adc.c:9-41).                                                              *)
EndsOrStuck ==
  \A c \in Contexts :
    Reading(c) ~> \/ ~Reading(c)
                  \/ \E d \in Contexts :
                       Stuck(d) /\ (SecondOpenTooLate(d) \/ EventOfTheOther(d))

(* main.c:166 says "Every (3*5=)15s sample one time": each sample must end,  *)
(* also when no phone connects.                                              *)
SampleEnds == Reading("main") ~> ~Reading("main")
=============================================================================
