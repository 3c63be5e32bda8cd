--------------------------------- MODULE Pwm ---------------------------------
(***************************************************************************)
(* The fan (fan.c) and the one channel of the no-glitch PWM driver it uses  *)
(* (nrf_pwm_noglitch.c), between 0 and a duty below the maximum.            *)
(*                                                                          *)
(* The pin is toggled by hardware: a timer counts a period from 0 to CC[3], *)
(* PPI channel 0 toggles it when CC[0] is reached and channel 1 at the end  *)
(* of the period.  Channel 4 switches these two on or off, as a group, at a *)
(* moment at which the pin is where it should be.  The driver writes one    *)
(* register at a time while the timer runs; its interrupt cleans up at the  *)
(* end of a later period.  Timer, PPI and GPIOTE are external.              *)
(***************************************************************************)
EXTENDS Integers, Sequences

VARIABLES
  hw,         \* the registers, see Registers
  call        \* of nrf_pwm_set_value: [value, next step, events seen in the delay]

pwm == <<hw, call>>

pwm_max_value == 100
Duty == 60

(* power and out are pins of the GPIO; the timer is "before" or "after" CC[0] *)
(* in its period; the group's task is that channel 4 triggers at CC[0].       *)
Registers ==
  [power : BOOLEAN, out : BOOLEAN, gpiote : {"off", "low", "high"},
   CC0 : {0, 2 * Duty}, timer : {"stopped", "before", "after"}, event3 : BOOLEAN,
   int : BOOLEAN, ppi : SUBSET {0, 1, 4}, group : SUBSET {0, 1}, task : {"EN", "DIS"}]

(* What the pin shows: the GPIOTE takes it from the GPIO. *)
PwmPin == IF hw.gpiote = "off" THEN hw.out ELSE hw.gpiote = "high"

Returned == [value |-> 0, next |-> 0, seen |-> {}]

nrf_pwm_init ==
  /\ hw = [power |-> FALSE, out |-> FALSE, gpiote |-> "off", CC0 |-> 0, timer |-> "stopped",
           event3 |-> FALSE, int |-> FALSE, ppi |-> {}, group |-> {}, task |-> "EN"]
  /\ call = Returned

-----------------------------------------------------------------------------

(* The register writes of nrf_pwm_set_value, in their order. *)
FromZero ==
  <<"ppi_disable", "CC", "gpiote_task_config", "group_none", "group_both",
    "chg_disable", "chg_EN", "chg_enable", "delay", "pwm_freq_int_set">>

(* Mutant: the pin is given to the GPIO before the channels are switched off. *)
ToZeroAtOnce ==
  <<"OUTCLR", "group_none", "group_both", "chg_DIS", "chg_enable",
    "CC", "chg_disable", "group_none", "gpiote_unconfig">>

ToZero ==
  <<"OUTCLR", "group_none", "group_both", "chg_DIS", "chg_enable", "delay",
    "CC", "chg_disable", "group_none", "gpiote_unconfig">>

(* From 0 to the duty, or back. *)
Program(value) == IF value = 0 THEN ToZero ELSE FromZero

nrf_pwm_set_value(value) ==
  call' = IF 2 * value = hw.CC0 THEN call
          ELSE [value |-> value, next |-> 1, seen |-> {}]

(* The timer is started once; writing 0 to its start task does nothing. *)
OpenFan ==
  /\ call = Returned
  /\ hw' = [hw EXCEPT !.power = TRUE, !.timer = IF @ = "stopped" THEN "after" ELSE @]
  /\ nrf_pwm_set_value(Duty)

CloseFan ==
  /\ call = Returned
  /\ hw' = [hw EXCEPT !.power = FALSE]
  /\ nrf_pwm_set_value(0)

(* A group's task on an empty group, after "group_none", does nothing. *)
Write(step) ==
  CASE step = "ppi_disable"        -> [hw EXCEPT !.ppi = @ \ {0, 1}]
    [] step = "gpiote_task_config" -> [hw EXCEPT !.gpiote = IF hw.out THEN "high" ELSE "low"]
    [] step = "group_none"         -> [hw EXCEPT !.group = {}]
    [] step = "group_both"         -> [hw EXCEPT !.group = {0, 1}]
    [] step = "chg_disable"        -> [hw EXCEPT !.ppi = @ \ {4}]
    [] step = "chg_EN"             -> [hw EXCEPT !.task = "EN"]
    [] step = "chg_DIS"            -> [hw EXCEPT !.task = "DIS"]
    [] step = "chg_enable"         -> [hw EXCEPT !.ppi = @ \cup {4}]
    [] step = "OUTCLR"             -> [hw EXCEPT !.out = FALSE]
    [] step = "gpiote_unconfig"    -> [hw EXCEPT !.gpiote = "off"]
    [] step = "pwm_freq_int_set"   -> [hw EXCEPT !.event3 = FALSE, !.int = TRUE]

IrqPending == hw.event3 /\ hw.int

(* The call goes on once its step is done. *)
NextStep ==
  call' = IF call.next = Len(Program(call.value)) THEN Returned
          ELSE [value |-> call.value, next |-> call.next + 1, seen |-> {}]

AtStep(step) == call.next # 0 /\ Program(call.value)[call.next] = step

SetRegister ==
  /\ call.next # 0 /\ ~AtStep("CC") /\ ~AtStep("delay")
  /\ hw' = Write(Program(call.value)[call.next])
  /\ NextStep

(* The timer may be at either side of the new CC[0]. *)
SetCompare ==
  /\ AtStep("CC")
  /\ \E side \in IF call.value = 0 THEN {"after"} ELSE {"before", "after"} :
       hw' = [hw EXCEPT !.CC0 = 2 * call.value, !.timer = side]
  /\ NextStep

(* nrf_delay_us of a period: each event of the timer has come, or more. *)
Delayed ==
  /\ AtStep("delay") /\ {"compare0", "compare3"} \subseteq call.seen
  /\ NextStep
  /\ UNCHANGED hw

-----------------------------------------------------------------------------

(* External: an event of the timer, what the enabled channels make of it, and *)
(* where that leaves the timer.                                               *)
Toggled(channel) == IF channel \notin hw.ppi \/ hw.gpiote = "off" THEN hw.gpiote
                    ELSE IF hw.gpiote = "low" THEN "high" ELSE "low"

Seen(event) == call' = IF AtStep("delay")
                         THEN [call EXCEPT !.seen = @ \cup {event}] ELSE call

(* With CC[0] = 0 this event may come at any time. *)
Compare0 ==
  /\ hw.timer = "before" \/ (hw.timer = "after" /\ hw.CC0 = 0)
  /\ hw' = [hw EXCEPT !.timer = "after", !.gpiote = Toggled(0),
              !.ppi = IF 4 \notin @ THEN @
                      ELSE IF hw.task = "EN" THEN @ \cup hw.group ELSE @ \ hw.group]
  /\ Seen("compare0")

(* The flag of this event is read only while its interrupt is enabled. *)
Compare3 ==
  /\ hw.timer = "after"
  /\ hw' = [hw EXCEPT !.timer = IF hw.CC0 = 0 THEN "after" ELSE "before",
              !.gpiote = Toggled(1), !.event3 = hw.int]
  /\ Seen("compare3")

PWM_IRQHandler ==
  /\ IrqPending
  /\ hw' = [hw EXCEPT !.event3 = FALSE, !.int = FALSE, !.ppi = @ \ {4}, !.group = {}]
  /\ UNCHANGED call

PwmMain == SetRegister \/ SetCompare \/ Delayed

(* Once the driver has returned, and until it is called again, the pin is low *)
(* if the fan is off and otherwise high from the beginning of each period     *)
(* until CC[0]: the toggling, which only knows the other level, has not lost  *)
(* count of an edge over any number of switches, whichever register the timer *)
(* or the late interrupt found half written (nrf_pwm_noglitch.c:83-91,        *)
(* 201-259).                                                                  *)
DutyAsCommanded ==
  call = Returned => (PwmPin <=> hw.power /\ hw.timer = "before")

(* Why: channels 0 and 1 are on or off together, and while they are on, or off *)
(* for good, the pin is where it should be; *)
InStep ==
  /\ ~hw.out /\ (0 \in hw.ppi <=> 1 \in hw.ppi) /\ hw.group \in {{}, {0, 1}}
  /\ hw.CC0 = 0 => hw.timer # "before"
  /\ hw.CC0 # 0 => hw.gpiote \in {"off", IF 0 \in hw.ppi /\ hw.timer = "before"
                                           THEN "high" ELSE "low"}
  /\ hw.event3 => hw.int
  /\ hw.int => 4 \in hw.ppi

(* between two calls the fan is off, or toggled, and then the interrupt is to *)
(* come or has cleaned up; *)
BetweenCalls ==
  IF hw.power
    THEN /\ hw.gpiote # "off" /\ hw.CC0 = 2 * Duty /\ hw.timer # "stopped"
         /\ 0 \in hw.ppi /\ hw.task = "EN"
         /\ (4 \in hw.ppi <=> hw.int) /\ (hw.group # {} <=> hw.int)
    ELSE /\ hw.gpiote = "off" /\ hw.CC0 = 0
         /\ 4 \notin hw.ppi /\ hw.group = {} /\ ~hw.int

(* what FromZero has written when it comes to its next register, *)
SwitchingOn ==
  /\ hw.power /\ hw.timer # "stopped" /\ ~hw.int
  /\ hw.CC0 = IF call.next <= 2 THEN 0 ELSE 2 * Duty
  /\ hw.gpiote = "off" <=> call.next <= 3
  /\ hw.group # {} <=> call.next >= 6
  /\ 4 \in hw.ppi <=> call.next >= 9
  /\ call.next >= 8 => hw.task = "EN"
  /\ 0 \in hw.ppi => call.next \in {1, 9, 10}
  /\ call.next = 9 => (0 \in hw.ppi <=> "compare0" \in call.seen)
  /\ call.next = 10 => 0 \in hw.ppi

(* and what ToZero has. *)
SwitchingOff ==
  /\ ~hw.power /\ hw.timer # "stopped" /\ hw.gpiote # "off"
  /\ hw.CC0 = IF call.next <= 7 THEN 2 * Duty ELSE 0
  /\ hw.task = "EN" <=> call.next <= 4
  /\ hw.int => call.next <= 6 /\ (hw.group = {} <=> call.next = 3)
  /\ call.next <= 4 => 0 \in hw.ppi
  /\ call.next <= 5 => (4 \in hw.ppi => hw.int)
  /\ call.next <= 2 => (hw.group # {} => hw.int)
  /\ call.next = 3 => hw.group = {}
  /\ call.next = 6 => ("compare3" \in call.seen /\ hw.int => hw.event3)
  /\ call.next >= 9 => 4 \notin hw.ppi
  /\ call.next = 10 => hw.group = {}

PwmInv ==
  /\ hw \in Registers
  /\ call \in [value : {0, Duty}, next : 0 .. 10, seen : SUBSET {"compare0", "compare3"}]
  /\ call.next = 0 => call = Returned
  /\ InStep
  /\ IF call.next = 0 THEN BetweenCalls ELSE IF call.value = 0 THEN SwitchingOff ELSE SwitchingOn
=============================================================================
