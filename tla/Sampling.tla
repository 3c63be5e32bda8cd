------------------------------- MODULE Sampling -------------------------------
(***************************************************************************)
(* The sampling and display loop (main.c, sensor.c) and the readings the    *)
(* application layer answers with (application.c).                          *)
(*                                                                          *)
(* sample_start_handler is the handler of a timer, called by the scheduler  *)
(* in the main loop, and is called directly in the BLE interrupt when a     *)
(* phone connects: there it may preempt itself.  A reading is abstracted to *)
(* its age in sample periods.  The sensors, the LCD, the timer and the link *)
(* are external.                                                            *)
(***************************************************************************)
EXTENDS Naturals

CONSTANTS LCD_SHOW_PAGE,    \* pages of the LCD, one sample for each round of them
          Parts,            \* number of sensor parts GetSensorData reads in turn
          MaxAge,           \* bound: older readings are not told apart
          MaxQueued         \* bound: sample handlers waiting in the scheduler

ASSUME SamplingAssumption ==
  /\ LCD_SHOW_PAGE \in Nat \ {0} /\ Parts \in Nat \ {0}
  /\ MaxAge \in Nat /\ MaxQueued \in Nat \ {0}

VARIABLES
  SampleTickTack,
  m_sensor,       \* age of each part of main.c's readings
  m_al_sensor,    \* age of each part of application.c's copy
  page,           \* external: the page the LCD shows, LCD_SHOW_PAGE for the start screen
  frames,         \* of sample_start_handler, in the main loop and in the interrupt
  loop,           \* the main loop is in "app_sched_execute" or in "rx_buffer_queue"
  queued,         \* external: handlers the sample timer has put into the scheduler
  link,           \* external: a phone is connected
  connectedFor    \* sample periods this connection has lasted, for the properties

readings == <<m_sensor, m_al_sensor>>
device == <<SampleTickTack, readings, page, frames, loop>>
outside == <<queued, link, connectedFor>>
vars == <<device, outside>>

Contexts == {"main", "interrupt"}

(* A round of the pages, and the periods whose handlers may still wait. *)
Round == LCD_SHOW_PAGE + MaxQueued

Ages == [1 .. Parts -> 0 .. MaxAge]

(* A frame: the next step, the part it is at, the struct passed by value, and *)
(* the register that holds ++SampleTickTack.                                  *)
NoFrame == [pc |-> "done", part |-> 1, sensor |-> [p \in 1 .. Parts |-> 0], reg |-> 0]
Called == [NoFrame EXCEPT !.pc = "test"]

(* al_init has read every part; m_sensor holds the zeros of its static        *)
(* initialisation, older than any reading.                                    *)
Init ==
  /\ SampleTickTack = 0
  /\ m_sensor = [p \in 1 .. Parts |-> MaxAge]
  /\ m_al_sensor = [p \in 1 .. Parts |-> 0]
  /\ page = LCD_SHOW_PAGE
  /\ frames = [c \in Contexts |-> NoFrame]
  /\ loop = "app_sched_execute"
  /\ queued = 0 /\ link = FALSE /\ connectedFor = 0

-----------------------------------------------------------------------------

(* The interrupt runs to completion before the main loop goes on. *)
Running(c) == c = "interrupt" \/ frames["interrupt"].pc = "done"

At(c, pc) == Running(c) /\ frames[c].pc = pc

Goto(c, pc) == frames' = [frames EXCEPT ![c].pc = pc]

(* Where a step that is taken once for each part leads. *)
AfterPart(c, again, next) ==
  IF frames[c].part < Parts THEN [frames[c] EXCEPT !.pc = again, !.part = @ + 1]
                            ELSE [frames[c] EXCEPT !.pc = next, !.part = 1]

(* if (0 == SampleTickTack) *)
test(c) ==
  /\ At(c, "test")
  /\ Goto(c, IF SampleTickTack = 0 THEN "read" ELSE "show")
  /\ UNCHANGED <<SampleTickTack, readings, page, loop, outside>>

(* GetSensorData(&m_sensor) reads one part after the other. *)
GetSensorData(c) ==
  /\ At(c, "read")
  /\ m_sensor' = [m_sensor EXCEPT ![frames[c].part] = 0]
  /\ frames' = [frames EXCEPT ![c] = AfterPart(c, "read", "copy")]
  /\ UNCHANGED <<SampleTickTack, m_al_sensor, page, loop, outside>>

(* The struct is copied to the argument, part by part. *)
PassByValue(c) ==
  /\ At(c, "copy")
  /\ frames' = [frames EXCEPT ![c] =
                  [AfterPart(c, "copy", "pass") EXCEPT
                     !.sensor[frames[c].part] = m_sensor[frames[c].part]]]
  /\ UNCHANGED <<SampleTickTack, readings, page, loop, outside>>

(* Mutant: the readings are not passed on. *)
NotPassedOn(c) ==
  /\ At(c, "pass")
  /\ frames' = [frames EXCEPT ![c] =
                  [AfterPart(c, "pass", "show") EXCEPT
                     !.sensor[frames[c].part] = 0]]
  /\ UNCHANGED <<SampleTickTack, readings, page, loop, outside>>

(* m_al_sensor = sensor *)
pass_to_al_sensor_data(c) ==
  /\ At(c, "pass")
  /\ m_al_sensor' = [m_al_sensor EXCEPT ![frames[c].part] = frames[c].sensor[frames[c].part]]
  /\ frames' = [frames EXCEPT ![c] =
                  [AfterPart(c, "pass", "show") EXCEPT
                     !.sensor[frames[c].part] = 0]]          \* dead from here on
  /\ UNCHANGED <<SampleTickTack, m_sensor, page, loop, outside>>

(* The switch has a case for each page and no default. *)
LcdDisplaySensorData(c) ==
  /\ At(c, "show")
  /\ page' = IF SampleTickTack < LCD_SHOW_PAGE THEN SampleTickTack ELSE page
  /\ Goto(c, "load")
  /\ UNCHANGED <<SampleTickTack, readings, loop, outside>>

(* ++SampleTickTack, two steps of the processor. *)
load(c) ==
  /\ At(c, "load")
  /\ frames' = [frames EXCEPT ![c].reg = SampleTickTack + 1, ![c].pc = "store"]
  /\ UNCHANGED <<SampleTickTack, readings, page, loop, outside>>

(* Mutant: the counter is compared with > instead of >=. *)
StoreOnePageMore(c) ==
  /\ At(c, "store")
  /\ SampleTickTack' = frames[c].reg
  /\ frames' = [frames EXCEPT ![c] =
                  [NoFrame EXCEPT !.pc = IF frames[c].reg > LCD_SHOW_PAGE
                                           THEN "reset" ELSE "done"]]
  /\ UNCHANGED <<readings, page, loop, outside>>

store(c) ==
  /\ At(c, "store")
  /\ SampleTickTack' = frames[c].reg
  /\ frames' = [frames EXCEPT ![c] =
                  [NoFrame EXCEPT !.pc = IF frames[c].reg >= LCD_SHOW_PAGE
                                           THEN "reset" ELSE "done"]]
  /\ UNCHANGED <<readings, page, loop, outside>>

(* Mutant: the counter starts over with the second page. *)
ResetToSecondPage(c) ==
  /\ At(c, "reset")
  /\ SampleTickTack' = 1
  /\ Goto(c, "done")
  /\ UNCHANGED <<readings, page, loop, outside>>

reset(c) ==
  /\ At(c, "reset")
  /\ SampleTickTack' = 0
  /\ Goto(c, "done")
  /\ UNCHANGED <<readings, page, loop, outside>>

sample_start_handler(c) ==
  \/ test(c) \/ GetSensorData(c) \/ PassByValue(c) \/ pass_to_al_sensor_data(c)
  \/ LcdDisplaySensorData(c) \/ load(c) \/ store(c) \/ reset(c)

-----------------------------------------------------------------------------

(* app_sched_execute calls what the timer has queued, until nothing is left. *)
TakeHandler ==
  /\ At("main", "done") /\ loop = "app_sched_execute" /\ queued > 0
  /\ queued' = queued - 1
  /\ frames' = [frames EXCEPT !["main"] = Called]
  /\ UNCHANGED <<SampleTickTack, readings, page, loop, link, connectedFor>>

SchedulerEmpty ==
  /\ At("main", "done") /\ loop = "app_sched_execute" /\ queued = 0
  /\ loop' = "rx_buffer_queue"
  /\ UNCHANGED <<SampleTickTack, readings, page, frames, outside>>

(* rx_buffer_queue_evt_schedule answers from m_al_sensor, which it leaves as *)
(* it is, and SmartAdapt reads m_sensor.                                     *)
NextRound ==
  /\ At("main", "done") /\ loop = "rx_buffer_queue"
  /\ loop' = "app_sched_execute"
  /\ UNCHANGED <<SampleTickTack, readings, page, frames, outside>>

MainLoop == sample_start_handler("main") \/ TakeHandler \/ SchedulerEmpty \/ NextRound

(* on_ble_evt, BLE_GAP_EVT_CONNECTED: sample_timers_start starts the timer   *)
(* and calls the handler.                                                    *)
Connected ==
  /\ ~link /\ frames["interrupt"].pc = "done"
  /\ link' = TRUE /\ connectedFor' = 0
  /\ frames' = [frames EXCEPT !["interrupt"] = Called]
  /\ UNCHANGED <<SampleTickTack, readings, page, loop, queued>>

(* BLE_GAP_EVT_DISCONNECTED: sample_timers_stop; what is queued stays.       *)
Disconnected ==
  /\ link /\ frames["interrupt"].pc = "done"
  /\ link' = FALSE /\ connectedFor' = 0
  /\ UNCHANGED <<device, queued>>

Older(ages) == [p \in 1 .. Parts |-> IF ages[p] < MaxAge THEN ages[p] + 1 ELSE MaxAge]

(* External: a sample period passes; the timer runs while a phone is         *)
(* connected.  An expiry in the interrupt is handled when that returns.      *)
Tick ==
  /\ frames["interrupt"].pc = "done" /\ queued < MaxQueued
  /\ queued' = IF link THEN queued + 1 ELSE queued
  /\ connectedFor' = IF link /\ connectedFor < Round THEN connectedFor + 1
                                                              ELSE connectedFor
  /\ m_sensor' = Older(m_sensor) /\ m_al_sensor' = Older(m_al_sensor)
  /\ frames' = [frames EXCEPT !["main"].sensor =
                  IF frames["main"].pc \in {"copy", "pass"} THEN Older(@) ELSE @]
  /\ UNCHANGED <<SampleTickTack, page, loop, link>>

Next ==
  \/ MainLoop \/ sample_start_handler("interrupt")
  \/ Connected \/ Disconnected \/ Tick

Spec == Init /\ [][Next]_vars

(* The main loop goes on, an interrupt returns, time passes. *)
FairSpec == Spec /\ WF_vars(MainLoop) /\ WF_vars(sample_start_handler("interrupt"))
                 /\ WF_vars(Tick)

-----------------------------------------------------------------------------

Frames == [pc : {"done", "test", "read", "copy", "pass", "show", "load", "store", "reset"},
           part : 1 .. Parts, sensor : Ages, reg : 0 .. LCD_SHOW_PAGE + 1]

(* The counter may only be one beyond its range for a moment: a second       *)
(* handler finds it between the store and the reset (main.c:174-175).        *)
TypeOK ==
  /\ SampleTickTack \in 0 .. LCD_SHOW_PAGE + 1
  /\ m_sensor \in Ages /\ m_al_sensor \in Ages
  /\ page \in 0 .. LCD_SHOW_PAGE
  /\ frames \in [Contexts -> Frames]
  /\ loop \in {"app_sched_execute", "rx_buffer_queue"}
  /\ queued \in 0 .. MaxQueued /\ link \in BOOLEAN
  /\ connectedFor \in 0 .. Round

(* Outside of the handler the counter is a page, also when the interrupt's   *)
(* handler has run in the middle of the main loop's, between any two steps   *)
(* of its ++ and reset (main.c:168-176, 184).                                *)
PageAtRest ==
  (\A c \in Contexts : frames[c].pc \in {"done", "test"}) => SampleTickTack < LCD_SHOW_PAGE

(* Its inductive strengthening: the counter is out of range only while a     *)
(* handler is about to reset it, and what a handler is about to store leaves *)
(* it no further out than that.                                              *)
ResetPending ==
  /\ SampleTickTack >= LCD_SHOW_PAGE =>
       \E c \in Contexts : frames[c].pc = "reset"
  /\ SampleTickTack > LCD_SHOW_PAGE => frames["interrupt"].pc = "reset"
  /\ frames["main"].pc = "store" => frames["main"].reg <= LCD_SHOW_PAGE

(* A handler starts and ends with the first part, what it stores in the      *)
(* counter is not 0, and the interrupt's handler runs at the very beginning  *)
(* of a connection.                                                          *)
FramesInStep ==
  /\ frames["main"].pc \notin {"read", "copy", "pass"} => frames["main"].part = 1
  /\ frames["main"].pc = "store" => frames["main"].reg > 0
  /\ frames["interrupt"].pc # "done" => link /\ connectedFor = 0

(* Calls of the handler from one sample to the next, the present one         *)
(* included, that have been made when the counter is as it is.               *)
Turn == IF SampleTickTack = 0 THEN LCD_SHOW_PAGE ELSE SampleTickTack

(* The periods that have passed since the last sample at the most, but for   *)
(* those whose handlers still wait.                                          *)
Allowance ==
  LET f == frames["main"]
  IN  CASE f.pc = "done" -> Turn - 1
        [] f.pc = "test" -> Turn
        [] f.pc \in {"show", "load"} -> SampleTickTack
        [] f.pc = "store" -> f.reg - 1
        [] f.pc = "reset" -> LCD_SHOW_PAGE - 1
        [] OTHER -> 0

(* What the main loop's handler has of a new sample, or else what the        *)
(* application layer has, is of this age at the most.                        *)
Sampled(age) ==
  LET f == frames["main"]
  IN  \A p \in 1 .. Parts :
        CASE f.pc = "read" -> p < f.part => m_sensor[p] <= age
          [] f.pc = "copy" -> m_sensor[p] <= age /\ (p < f.part => f.sensor[p] <= age)
          [] f.pc = "pass" -> (IF p < f.part THEN m_al_sensor[p] ELSE f.sensor[p]) <= age
          [] OTHER -> m_al_sensor[p] <= age

(* The handlers keep pace with the periods, because each period queues one:  *)
(* the connection is young, or the readings are.                             *)
Pace ==
  link => connectedFor <= queued + Allowance \/ Sampled(queued + Allowance)

SampleInv == TypeOK /\ ResetPending /\ FramesInStep /\ Pace

Answering == At("main", "done") /\ loop = "rx_buffer_queue" /\ link

Fresh(age) == \A p \in 1 .. Parts : m_al_sensor[p] <= age

(* Once a connection has lasted a Round, the phone is answered with readings *)
(* younger than a Round, however often it reconnected and whatever the       *)
(* interrupt's handler did to the counter (main.c:166-176,                   *)
(* application.c:446-457).                                                   *)
FreshOnceSettled ==
  Answering /\ connectedFor = Round => Fresh(Round - 1)

(* A connection that lasts is sampled: the counter comes round to 0 and all  *)
(* parts reach the application layer (main.c:168-176).                       *)
SampledAgain == link ~> (~link \/ Fresh(MaxQueued))
=============================================================================
