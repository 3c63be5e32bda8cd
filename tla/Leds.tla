--------------------------------- MODULE Leds ---------------------------------
(***************************************************************************)
(* The two coloured LEDs (led.c) and the automatic mode that chooses their  *)
(* colours from the readings (car_air_purifier.c).  A colour is the set of  *)
(* the pins that are lit.  The warning LED has no blue pin.                 *)
(***************************************************************************)
EXTENDS Integers

VARIABLES
  lit,        \* the lit pins of each LED
  adapt       \* SmartAdapt: the next LED, and the readings passed by value

leds == <<lit, adapt>>

(* COLOR_TYPE *)
RED == {"r"}
GREEN == {"g"}
BLUE == {"b"}
YELLOW == {"r", "g"}
CYAN == {"g", "b"}
MAGENTA == {"r", "b"}

Pins == [AQI_LED |-> {"r", "g", "b"}, WARN_LED |-> {"r", "g"}]

NotAdapting == [led |-> "none", sensor |-> [pm2_5 |-> 0, tvoc |-> 0]]

(* InitLed closes both. *)
LedsInit == lit = [led \in DOMAIN Pins |-> {}] /\ adapt = NotAdapting

(* Mutant: only the pins of the new colour are written. *)
OnlyLight(led, colour) == lit' = [lit EXCEPT ![led] = @ \cup (colour \cap Pins[led])]

(* OpenLed writes every pin the LED has: OpenRGBLed. *)
OpenLed(led, colour) == lit' = [lit EXCEPT ![led] = colour \cap Pins[led]]

(* pm2_5 in tenths of ug/m3. *)
AqiColour(pm2_5) ==
  CASE pm2_5 < 350  -> GREEN
    [] pm2_5 < 750  -> BLUE
    [] pm2_5 < 1150 -> CYAN
    [] pm2_5 < 1500 -> YELLOW
    [] pm2_5 < 2500 -> MAGENTA
    [] OTHER        -> RED

(* tvoc in hundredths of mg/m3. *)
WarnColour(tvoc) ==
  CASE tvoc < 8   -> GREEN
    [] tvoc <= 12 -> YELLOW
    [] OTHER      -> RED

SmartAdapt(sensor) ==
  /\ adapt.led = "none"
  /\ adapt' = [led |-> "AQI_LED", sensor |-> sensor]
  /\ UNCHANGED lit

AdaptAqi ==
  /\ adapt.led = "AQI_LED"
  /\ OpenLed("AQI_LED", AqiColour(adapt.sensor.pm2_5))
  /\ adapt' = [adapt EXCEPT !.led = "WARN_LED"]

AdaptWarn ==
  /\ adapt.led = "WARN_LED"
  /\ OpenLed("WARN_LED", WarnColour(adapt.sensor.tvoc))
  /\ adapt' = NotAdapting

(* The colours a reading calls for. *)
Colours(v) == [AQI_LED |-> AqiColour(v.pm2_5), WARN_LED |-> WarnColour(v.tvoc)]
=============================================================================
