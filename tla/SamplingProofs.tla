---------------------------- MODULE SamplingProofs ----------------------------
(***************************************************************************)
(* Proofs about Sampling for every number of pages and parts: the counter   *)
(* of the pages is a page whenever no handler is inside its ++ and reset,   *)
(* whatever the interrupt's handler does in the middle of the main loop's.  *)
(***************************************************************************)
EXTENDS Sampling, TLAPS

(* Apart from the counter, the frames and the readings: variables that each   *)
(* step of a handler leaves alone or sets within their type.                  *)
OtherTypes ==
  /\ page \in 0 .. LCD_SHOW_PAGE
  /\ loop \in {"app_sched_execute", "rx_buffer_queue"}
  /\ queued \in 0 .. MaxQueued /\ link \in BOOLEAN
  /\ connectedFor \in 0 .. Round

ReadingTypes == m_sensor \in Ages /\ m_al_sensor \in Ages

CounterTypes == SampleTickTack \in 0 .. LCD_SHOW_PAGE + 1 /\ frames \in [Contexts -> Frames]

(* The parts of TypeOK.                                                        *)
LEMMA TypeParts == TypeOK <=> OtherTypes /\ ReadingTypes /\ CounterTypes
  BY DEF TypeOK, OtherTypes, ReadingTypes, CounterTypes

-----------------------------------------------------------------------------

(* A step that only moves a frame outside of the ++ and the reset. *)
LEMMA FrameStep ==
  ASSUME CounterTypes, ResetPending, NEW c \in Contexts,
         NEW new \in Frames, new.pc \notin {"store", "reset"},
         frames[c].pc \notin {"store", "reset"},
         frames' = [frames EXCEPT ![c] = new],
         UNCHANGED SampleTickTack
  PROVE  CounterTypes' /\ ResetPending'
<1> USE SamplingAssumption DEF CounterTypes, Contexts
<1>1. CounterTypes'
  OBVIOUS
<1>2. ResetPending'
  BY DEF ResetPending
<1> QED  BY <1>1, <1>2

(* Only the interrupt's frame can be at a step while the counter is out of    *)
(* range because of the main loop's handler.                                  *)
LEMMA CounterSeen ==
  ASSUME CounterTypes, ResetPending, NEW c \in Contexts, Running(c),
         frames[c].pc # "reset"
  PROVE  /\ SampleTickTack <= LCD_SHOW_PAGE
         /\ c = "main" => SampleTickTack < LCD_SHOW_PAGE
  BY SamplingAssumption DEF CounterTypes, ResetPending, Running, Contexts, Frames

(* Where a step taken for each part leads, with the argument it leaves. *)
LEMMA AfterPartTypes ==
  ASSUME CounterTypes, NEW c \in Contexts,
         NEW again \in {"read", "copy", "pass"}, NEW next \in {"copy", "pass", "show"},
         NEW sensor \in Ages
  PROVE  /\ [AfterPart(c, again, next) EXCEPT !.sensor = sensor] \in Frames
         /\ AfterPart(c, again, next) \in Frames
         /\ [AfterPart(c, again, next) EXCEPT !.sensor = sensor].pc \in {again, next}
         /\ AfterPart(c, again, next).pc \in {again, next}
         /\ AfterPart(c, again, next).sensor = frames[c].sensor
<1> DEFINE f == frames[c]
<1>1. f \in Frames
  BY DEF CounterTypes
<1> DEFINE on == [f EXCEPT !.pc = again, !.part = f.part + 1]
           over == [f EXCEPT !.pc = next, !.part = 1]
<1>2. /\ 1 \in 1 .. Parts
      /\ f.part < Parts => f.part + 1 \in 1 .. Parts
  BY <1>1, SamplingAssumption DEF Frames
<1>3. /\ f.part < Parts => on \in Frames
      /\ over \in Frames
  BY <1>1, <1>2 DEF Frames
<1>4. /\ on.pc = again /\ on.sensor = f.sensor
      /\ over.pc = next /\ over.sensor = f.sensor
  BY <1>1 DEF Frames
<1>5. AfterPart(c, again, next) = IF f.part < Parts THEN on ELSE over
  BY DEF AfterPart
<1> HIDE DEF on, over
<1>6. /\ AfterPart(c, again, next) \in Frames
      /\ AfterPart(c, again, next).pc \in {again, next}
      /\ AfterPart(c, again, next).sensor = f.sensor
  BY <1>3, <1>4, <1>5
<1>7. ASSUME NEW r \in Frames
      PROVE  [r EXCEPT !.sensor = sensor] \in Frames /\ [r EXCEPT !.sensor = sensor].pc = r.pc
  BY DEF Frames
<1> QED  BY <1>6, <1>7

-----------------------------------------------------------------------------

(* First the counter by itself: its type and where it is out of range. *)
CounterInv == TypeOK /\ ResetPending

(* The counter starts as a page.                                               *)
LEMMA InitCounterInv == Init => CounterInv
<1> SUFFICES ASSUME Init PROVE CounterInv
  OBVIOUS
<1> USE SamplingAssumption DEF Init
<1>1. OtherTypes
  <2>1. 0 \in 0 .. MaxQueued /\ 0 \in 0 .. Round /\ page \in 0 .. LCD_SHOW_PAGE
    BY DEF Round
  <2> QED  BY <2>1, Zenon DEF OtherTypes
<1>4. ReadingTypes
  BY DEF ReadingTypes, Ages
<1>2. CounterTypes
  BY DEF CounterTypes, NoFrame, Frames, Ages
<1>3. ResetPending
  BY DEF ResetPending, NoFrame, Contexts
<1> QED  BY <1>1, <1>2, <1>3, <1>4, TypeParts DEF CounterInv

(* The steps of sample_start_handler, one by one. *)
LEMMA HandlerStep ==
  ASSUME CounterInv, NEW c \in Contexts, sample_start_handler(c)
  PROVE  CounterInv'
<1> USE SamplingAssumption
<1> OtherTypes /\ ReadingTypes /\ CounterTypes /\ ResetPending
  BY TypeParts DEF CounterInv
<1> DEFINE f == frames[c]
<1>0. f \in Frames
  BY DEF CounterTypes
<1> SUFFICES OtherTypes' /\ ReadingTypes' /\ CounterTypes' /\ ResetPending'
  BY DEF CounterInv, TypeOK, OtherTypes, ReadingTypes, CounterTypes
<1>1. CASE test(c)
  <2>1. OtherTypes' /\ ReadingTypes'
    BY <1>1 DEF test, OtherTypes, ReadingTypes, readings, outside
  <2>2. PICK pc \in {"read", "show"} : frames' = [frames EXCEPT ![c] = [f EXCEPT !.pc = pc]]
    BY <1>1 DEF test, Goto
  <2>3. [f EXCEPT !.pc = pc] \in Frames /\ [f EXCEPT !.pc = pc].pc = pc
    BY <1>0 DEF Frames
  <2> QED  BY <1>1, <2>1, <2>2, <2>3, FrameStep DEF test, At
<1>2. CASE GetSensorData(c)
  <2>1. OtherTypes' /\ UNCHANGED m_al_sensor
    BY <1>2 DEF GetSensorData, OtherTypes, outside
  <2>2. m_sensor' \in Ages
    <3>1. m_sensor' = [m_sensor EXCEPT ![f.part] = 0] /\ 0 \in 0 .. MaxAge
      BY <1>2 DEF GetSensorData
    <3> QED  BY <3>1 DEF ReadingTypes, Ages
  <2>3. frames' = [frames EXCEPT ![c] = AfterPart(c, "read", "copy")]
    BY <1>2 DEF GetSensorData
  <2>4. /\ AfterPart(c, "read", "copy") \in Frames
        /\ AfterPart(c, "read", "copy").pc \in {"read", "copy"}
    BY AfterPartTypes, <1>0 DEF Frames
  <2>5. CounterTypes' /\ ResetPending'
    BY <1>2, <2>3, <2>4, FrameStep DEF GetSensorData, At
  <2> QED  BY <2>1, <2>2, <2>5 DEF ReadingTypes
<1>3. CASE PassByValue(c)
  <2>1. OtherTypes' /\ ReadingTypes'
    BY <1>3 DEF PassByValue, OtherTypes, ReadingTypes, readings, outside
  <2> DEFINE s == [f.sensor EXCEPT ![f.part] = m_sensor[f.part]]
             new == [AfterPart(c, "copy", "pass") EXCEPT !.sensor = s]
  <2>2. s \in Ages
    BY <1>0 DEF Frames, Ages, ReadingTypes
  <2>3. new \in Frames /\ new.pc \in {"copy", "pass"}
    BY <2>2, AfterPartTypes
  <2>4. AfterPart(c, "copy", "pass").sensor = f.sensor
    BY <1>0, AfterPartTypes DEF Frames
  <2>5. frames' = [frames EXCEPT ![c] = new]
    BY <1>3, <2>4 DEF PassByValue
  <2>6. CounterTypes' /\ ResetPending'
    <3> HIDE DEF new
    <3> QED  BY <1>3, <2>3, <2>5, FrameStep DEF PassByValue, At
  <2> QED  BY <2>1, <2>6
<1>4. CASE pass_to_al_sensor_data(c)
  <2> DEFINE s == [f.sensor EXCEPT ![f.part] = 0]
             new == [AfterPart(c, "pass", "show") EXCEPT !.sensor = s]
  <2>1. OtherTypes' /\ UNCHANGED m_sensor
    BY <1>4 DEF pass_to_al_sensor_data, OtherTypes, outside
  <2>2. m_al_sensor' \in Ages
    BY <1>0, <1>4 DEF pass_to_al_sensor_data, ReadingTypes, Ages, Frames
  <2>3. s \in Ages
    BY <1>0 DEF Frames, Ages
  <2>4. new \in Frames /\ new.pc \in {"pass", "show"}
    BY <2>3, AfterPartTypes
  <2>5. AfterPart(c, "pass", "show").sensor = f.sensor
    BY <1>0, AfterPartTypes DEF Frames
  <2>6. frames' = [frames EXCEPT ![c] = new]
    BY <1>4, <2>5 DEF pass_to_al_sensor_data
  <2>7. CounterTypes' /\ ResetPending'
    <3> HIDE DEF new
    <3> QED  BY <1>4, <2>4, <2>6, FrameStep DEF pass_to_al_sensor_data, At
  <2> QED  BY <2>1, <2>2, <2>7 DEF ReadingTypes
<1>5. CASE LcdDisplaySensorData(c)
  <2>1. OtherTypes' /\ ReadingTypes'
    BY <1>5 DEF LcdDisplaySensorData, OtherTypes, ReadingTypes, CounterTypes, readings, outside
  <2>2. frames' = [frames EXCEPT ![c] = [f EXCEPT !.pc = "load"]]
    BY <1>5 DEF LcdDisplaySensorData, Goto
  <2>3. [f EXCEPT !.pc = "load"] \in Frames /\ [f EXCEPT !.pc = "load"].pc = "load"
    BY <1>0 DEF Frames
  <2> QED  BY <1>5, <2>1, <2>2, <2>3, FrameStep DEF LcdDisplaySensorData, At
<1>6. CASE load(c)
  <2>1. OtherTypes' /\ ReadingTypes'
    BY <1>6 DEF load, OtherTypes, ReadingTypes, readings, outside
  <2>2. /\ SampleTickTack <= LCD_SHOW_PAGE
        /\ c = "main" => SampleTickTack < LCD_SHOW_PAGE
    BY <1>6, CounterSeen DEF load, At
  <2> DEFINE new == [f EXCEPT !.reg = SampleTickTack + 1, !.pc = "store"]
  <2>3. frames' = [frames EXCEPT ![c] = new]
    BY <1>6 DEF load
  <2>4. new \in Frames /\ new.pc = "store" /\ new.reg = SampleTickTack + 1
    <3>1. SampleTickTack + 1 \in 0 .. LCD_SHOW_PAGE + 1
      BY <2>2 DEF CounterTypes
    <3> QED  BY <1>0, <3>1 DEF Frames
  <2> HIDE DEF new
  <2>5. CounterTypes'
    BY <1>6, <2>3, <2>4 DEF load, CounterTypes
  <2>6. ResetPending'
    BY <1>6, <2>2, <2>3, <2>4 DEF load, At, ResetPending, CounterTypes, Contexts
  <2> QED  BY <2>1, <2>5, <2>6
<1>7. CASE store(c)
  <2>1. OtherTypes' /\ ReadingTypes'
    BY <1>7 DEF store, OtherTypes, ReadingTypes, readings, outside
  <2>2. CounterTypes'
    <3>1. PICK pc \in {"reset", "done"} :
            frames' = [frames EXCEPT ![c] = [NoFrame EXCEPT !.pc = pc]]
      BY <1>7 DEF store
    <3>2. [p \in 1 .. Parts |-> 0] \in Ages
      BY DEF Ages
    <3>3. [NoFrame EXCEPT !.pc = pc] \in Frames
      BY <3>2 DEF NoFrame, Frames
    <3>4. SampleTickTack' \in 0 .. LCD_SHOW_PAGE + 1
      BY <1>0, <1>7 DEF store, Frames
    <3> QED  BY <3>1, <3>3, <3>4 DEF CounterTypes
  <2>3. ResetPending'
    BY <1>0, <1>7 DEF store, At, Running, ResetPending, CounterTypes, NoFrame, Frames, Contexts
  <2> QED  BY <2>1, <2>2, <2>3
<1>8. CASE reset(c)
  <2>1. OtherTypes' /\ ReadingTypes'
    BY <1>8 DEF reset, OtherTypes, ReadingTypes, readings, outside
  <2>2. CounterTypes'
    BY <1>8 DEF reset, Goto, CounterTypes, Frames, Contexts
  <2>3. ResetPending'
    BY <1>8 DEF reset, Goto, At, ResetPending, CounterTypes, Frames, Contexts
  <2> QED  BY <2>1, <2>2, <2>3
<1> QED  BY <1>1, <1>2, <1>3, <1>4, <1>5, <1>6, <1>7, <1>8 DEF sample_start_handler

(* The steps of the main loop outside of the handler, and of the outside.     *)
LEMMA OlderTypes == ASSUME NEW ages \in Ages PROVE Older(ages) \in Ages
  BY SamplingAssumption DEF Older, Ages

(* A call begins with the test of the counter.                                 *)
LEMMA CalledFrame == Called \in Frames /\ Called.pc = "test"
<1>1. [p \in 1 .. Parts |-> 0] \in Ages
  BY SamplingAssumption DEF Ages
<1> QED  BY <1>1, SamplingAssumption DEF Called, NoFrame, Frames

(* The steps outside of a handler leave the counter alone.                     *)
LEMMA OutsideStep ==
  ASSUME CounterInv,
         \/ TakeHandler \/ SchedulerEmpty \/ NextRound
         \/ Connected \/ Disconnected \/ Tick \/ UNCHANGED vars
  PROVE  CounterInv'
<1> USE SamplingAssumption
<1> OtherTypes /\ ReadingTypes /\ CounterTypes /\ ResetPending
  BY TypeParts DEF CounterInv
<1> SUFFICES OtherTypes' /\ ReadingTypes' /\ CounterTypes' /\ ResetPending'
  BY DEF CounterInv, TypeOK, OtherTypes, ReadingTypes, CounterTypes
<1>1. CASE TakeHandler
  <2>1. OtherTypes' /\ ReadingTypes'
    BY <1>1 DEF TakeHandler, OtherTypes, ReadingTypes, readings
  <2> QED  BY <1>1, <2>1, FrameStep, CalledFrame DEF TakeHandler, At, Contexts
<1>2. CASE SchedulerEmpty \/ NextRound \/ UNCHANGED vars
  BY <1>2 DEF SchedulerEmpty, NextRound, vars, device, outside, readings,
              OtherTypes, ReadingTypes, CounterTypes, ResetPending
<1>3. CASE Connected
  <2>1. 0 \in 0 .. Round
    BY DEF Round
  <2>2. OtherTypes' /\ ReadingTypes'
    BY <1>3, <2>1 DEF Connected, OtherTypes, ReadingTypes, readings
  <2> QED  BY <1>3, <2>2, FrameStep, CalledFrame DEF Connected, Contexts
<1>4. CASE Disconnected
  <2>1. 0 \in 0 .. Round
    BY DEF Round
  <2> QED  BY <1>4, <2>1 DEF Disconnected, device, readings,
              OtherTypes, ReadingTypes, CounterTypes, ResetPending
<1>5. CASE Tick
  <2>1. OtherTypes'
    BY <1>5 DEF Tick, OtherTypes, Round
  <2>2. ReadingTypes'
    BY <1>5, OlderTypes DEF Tick, ReadingTypes
  <2> DEFINE f == frames["main"]
             old == IF f.pc \in {"copy", "pass"} THEN Older(f.sensor) ELSE f.sensor
             new == [f EXCEPT !.sensor = old]
  <2>3. f \in Frames
    BY DEF CounterTypes, Contexts
  <2>4. old \in Ages
    BY <2>3, OlderTypes DEF Frames
  <2>5. new \in Frames /\ new.pc = f.pc /\ new.reg = f.reg
    <3> HIDE DEF old
    <3> QED  BY <2>3, <2>4 DEF Frames
  <2>6. frames' = [frames EXCEPT !["main"] = new]
    BY <1>5 DEF Tick
  <2> HIDE DEF new
  <2>7. CounterTypes'
    BY <1>5, <2>5, <2>6 DEF Tick, CounterTypes
  <2>8. ResetPending'
    BY <1>5, <2>5, <2>6 DEF Tick, ResetPending, CounterTypes, Contexts
  <2> QED  BY <2>1, <2>2, <2>7, <2>8
<1> QED  BY <1>1, <1>2, <1>3, <1>4, <1>5

(* Every step keeps the counter in its range.                                  *)
LEMMA NextCounterInv == CounterInv /\ [Next]_vars => CounterInv'
  BY HandlerStep, OutsideStep DEF Next, MainLoop, Contexts

-----------------------------------------------------------------------------

(* The frames and the pace of the samples.  The allowance is a number in      *)
(* every state, before and after a step.                                      *)
LEMMA AllowanceIsNat ==
  ASSUME CounterInv, FramesInStep
  PROVE  Allowance \in Nat
<1>1. /\ SampleTickTack \in Nat
      /\ frames["main"].pc \in {"done", "test", "read", "copy", "pass", "show", "load",
                                "store", "reset"}
      /\ frames["main"].reg \in Nat
      /\ frames["main"].pc = "store" => frames["main"].reg > 0
  BY SamplingAssumption DEF CounterInv, TypeOK, Frames, Contexts, FramesInStep
<1>2. Turn \in Nat /\ Turn > 0
  BY <1>1, SamplingAssumption DEF Turn
<1> QED  BY <1>1, <1>2, SamplingAssumption DEF Allowance

(* The same after a step.                                                      *)
LEMMA AllowanceIsNatNext ==
  ASSUME CounterInv', FramesInStep'
  PROVE  Allowance' \in Nat
<1>1. /\ SampleTickTack' \in Nat
      /\ frames'["main"].pc \in {"done", "test", "read", "copy", "pass", "show", "load",
                                 "store", "reset"}
      /\ frames'["main"].reg \in Nat
      /\ frames'["main"].pc = "store" => frames'["main"].reg > 0
  BY SamplingAssumption DEF CounterInv, TypeOK, Frames, Contexts, FramesInStep
<1>2. Turn' \in Nat /\ Turn' > 0
  BY <1>1, SamplingAssumption DEF Turn
<1> QED  BY <1>1, <1>2, SamplingAssumption DEF Allowance

(* As long as a connection is no older than the handlers that wait, there is  *)
(* nothing to show.                                                           *)
LEMMA YoungKeepsPace ==
  ASSUME CounterInv', FramesInStep', link' => connectedFor' <= queued'
  PROVE  Pace'
<1>1. connectedFor' \in Nat /\ queued' \in Nat
  BY SamplingAssumption DEF CounterInv, TypeOK, Round
<1> QED  BY <1>1, AllowanceIsNatNext DEF Pace

(* At first nothing is late.                                                   *)
LEMMA InitPace == Init => FramesInStep /\ Pace
<1> SUFFICES ASSUME Init PROVE FramesInStep /\ Pace
  OBVIOUS
<1>1. frames["main"] = NoFrame /\ frames["interrupt"] = NoFrame /\ link = FALSE
  BY DEF Init, Contexts
<1> QED  BY <1>1 DEF FramesInStep, Pace, NoFrame

(* The main loop's handler, step by step: what one step has of the sample the *)
(* next one has too, and the allowance moves with the counter.                *)
LEMMA MainHandlerPace ==
  ASSUME CounterInv, CounterInv', FramesInStep, Pace, sample_start_handler("main")
  PROVE  FramesInStep' /\ Pace'
<1> USE SamplingAssumption
<1> DEFINE f == frames["main"]
           g == frames'["main"]
<1>1. /\ f \in Frames /\ frames \in [Contexts -> Frames] /\ "main" \in Contexts
      /\ SampleTickTack \in Nat /\ queued \in Nat /\ connectedFor \in Nat
      /\ m_sensor \in Ages /\ m_al_sensor \in Ages
  BY DEF CounterInv, TypeOK, Contexts, Round
<1>2. /\ frames["interrupt"].pc = "done"
      /\ frames'["interrupt"] = frames["interrupt"]
      /\ UNCHANGED <<queued, link, connectedFor>>
  BY <1>1 DEF sample_start_handler, test, GetSensorData, PassByValue, pass_to_al_sensor_data,
         LcdDisplaySensorData, load, store, reset, At, Running, Goto, outside, Contexts
<1>3. /\ f.pc \notin {"read", "copy", "pass"} => f.part = 1
      /\ f.pc = "store" => f.reg > 0
  BY DEF FramesInStep
<1> SUFFICES /\ g.pc \notin {"read", "copy", "pass"} => g.part = 1
             /\ g.pc = "store" => g.reg > 0
             /\ Pace'
  BY <1>2 DEF FramesInStep
<1>4. CASE test("main")
  <2>1. /\ f.pc = "test" /\ UNCHANGED <<SampleTickTack, m_sensor, m_al_sensor>>
        /\ g = [f EXCEPT !.pc = IF SampleTickTack = 0 THEN "read" ELSE "show"]
    BY <1>1, <1>4 DEF test, At, Goto, readings
  <2>2. g.part = 1 /\ g.pc = IF SampleTickTack = 0 THEN "read" ELSE "show"
    BY <1>1, <1>3, <2>1 DEF Frames
  <2>3. CASE SampleTickTack = 0
    <3>1. \A age : Sampled(age)'
      BY <2>2, <2>3 DEF Sampled
    <3> QED  BY <2>2, <2>3, <3>1 DEF Pace
  <2>4. CASE SampleTickTack # 0
    <3>1. Allowance' = Allowance
      BY <2>1, <2>2, <2>4 DEF Allowance, Turn
    <3>2. \A age : Sampled(age) => Sampled(age)'
      BY <2>1, <2>2, <2>4 DEF Sampled
    <3> QED  BY <1>2, <2>2, <2>4, <3>1, <3>2 DEF Pace
  <2> QED  BY <2>3, <2>4
<1>5. CASE GetSensorData("main")
  <2>1. /\ f.pc = "read" /\ UNCHANGED <<SampleTickTack, m_al_sensor>>
        /\ m_sensor' = [m_sensor EXCEPT ![f.part] = 0]
        /\ g = AfterPart("main", "read", "copy")
    BY <1>1, <1>5 DEF GetSensorData, At
  <2>2. f.part \in 1 .. Parts
    BY <1>1 DEF Frames
  <2>3. /\ g.pc = IF f.part < Parts THEN "read" ELSE "copy"
        /\ g.part = IF f.part < Parts THEN f.part + 1 ELSE 1
    BY <1>1, <2>1, <2>2 DEF AfterPart, Frames
  <2>4. Allowance' = 0 /\ Allowance = 0
    BY <2>1, <2>3 DEF Allowance
  <2>5. \A p \in 1 .. Parts : m_sensor'[p] = IF p = f.part THEN 0 ELSE m_sensor[p]
    BY <1>1, <2>1, <2>2 DEF Ages
  <2>6. ASSUME NEW age \in Nat, Sampled(age)
        PROVE  Sampled(age)'
    BY <2>1, <2>2, <2>3, <2>5, <2>6 DEF Sampled
  <2> QED  BY <1>1, <1>2, <2>3, <2>4, <2>6 DEF Pace
<1>6. CASE PassByValue("main")
  <2>1. /\ f.pc = "copy" /\ UNCHANGED <<SampleTickTack, m_sensor, m_al_sensor>>
        /\ g = [AfterPart("main", "copy", "pass") EXCEPT !.sensor[f.part] = m_sensor[f.part]]
    BY <1>1, <1>6 DEF PassByValue, At, readings
  <2>2. f.part \in 1 .. Parts /\ f.sensor \in Ages
    BY <1>1 DEF Frames
  <2>3. /\ g.pc = IF f.part < Parts THEN "copy" ELSE "pass"
        /\ g.part = IF f.part < Parts THEN f.part + 1 ELSE 1
        /\ g.sensor = [f.sensor EXCEPT ![f.part] = m_sensor[f.part]]
    BY <1>1, <2>1, <2>2 DEF AfterPart, Frames
  <2>4. Allowance' = 0 /\ Allowance = 0
    BY <2>1, <2>3 DEF Allowance
  <2>5. \A p \in 1 .. Parts : g.sensor[p] = IF p = f.part THEN m_sensor[p] ELSE f.sensor[p]
    BY <2>2, <2>3 DEF Ages
  <2>6. ASSUME NEW age \in Nat, Sampled(age)
        PROVE  Sampled(age)'
    BY <2>1, <2>2, <2>3, <2>5, <2>6 DEF Sampled
  <2> QED  BY <1>1, <1>2, <2>3, <2>4, <2>6 DEF Pace
<1>7. CASE pass_to_al_sensor_data("main")
  <2>1. /\ f.pc = "pass" /\ UNCHANGED <<SampleTickTack, m_sensor>>
        /\ m_al_sensor' = [m_al_sensor EXCEPT ![f.part] = f.sensor[f.part]]
        /\ g = [AfterPart("main", "pass", "show") EXCEPT !.sensor[f.part] = 0]
    BY <1>1, <1>7 DEF pass_to_al_sensor_data, At
  <2>2. f.part \in 1 .. Parts /\ f.sensor \in Ages
    BY <1>1 DEF Frames
  <2>3. /\ g.pc = IF f.part < Parts THEN "pass" ELSE "show"
        /\ g.part = IF f.part < Parts THEN f.part + 1 ELSE 1
        /\ g.sensor = [f.sensor EXCEPT ![f.part] = 0]
    BY <1>1, <2>1, <2>2 DEF AfterPart, Frames
  <2>4. Allowance' \in Nat /\ Allowance = 0
    BY <1>1, <2>1, <2>3 DEF Allowance
  <2>5. \A p \in 1 .. Parts :
          /\ g.sensor[p] = IF p = f.part THEN 0 ELSE f.sensor[p]
          /\ m_al_sensor'[p] = IF p = f.part THEN f.sensor[p] ELSE m_al_sensor[p]
    BY <1>1, <2>1, <2>2, <2>3 DEF Ages
  <2>6. ASSUME NEW age \in Nat, Sampled(age), NEW more \in Nat
        PROVE  Sampled(age + more)'
    <3>1. ASSUME NEW p \in 1 .. Parts
          PROVE  (IF p <= f.part THEN m_al_sensor'[p] ELSE g.sensor[p]) <= age + more
      <4>1. (IF p < f.part THEN m_al_sensor[p] ELSE f.sensor[p]) <= age
        BY <2>1, <2>6 DEF Sampled
      <4>2. m_al_sensor[p] \in Nat /\ f.sensor[p] \in Nat
        BY <1>1, <2>2 DEF Ages
      <4> QED  BY <2>2, <2>5, <4>1, <4>2
    <3>2. CASE f.part < Parts
      BY <2>2, <2>3, <3>1, <3>2 DEF Sampled
    <3>3. CASE f.part = Parts
      BY <2>2, <2>3, <3>1, <3>3 DEF Sampled
    <3> QED  BY <2>2, <3>2, <3>3
  <2>7. PICK age \in Nat, more \in Nat : age = queued /\ more = Allowance'
    BY <1>1, <2>4
  <2>8. age + more = queued' + Allowance' /\ age = queued + Allowance
    BY <1>1, <1>2, <2>4, <2>7
  <2>9. link => connectedFor <= age \/ Sampled(age)
    BY <2>8 DEF Pace
  <2>10. link' => connectedFor' <= age + more \/ Sampled(age + more)'
    <3>1. connectedFor <= age => connectedFor' <= age + more
      BY <1>1, <1>2
    <3>2. Sampled(age) => Sampled(age + more)'
      BY <2>6
    <3> QED  BY <1>2, <2>9, <3>1, <3>2
  <2>11. Pace'
    BY <2>8, <2>10 DEF Pace
  <2> QED  BY <2>3, <2>11
<1>8. CASE LcdDisplaySensorData("main")
  <2>1. /\ f.pc = "show" /\ UNCHANGED <<SampleTickTack, m_sensor, m_al_sensor>>
        /\ g = [f EXCEPT !.pc = "load"]
    BY <1>1, <1>8 DEF LcdDisplaySensorData, At, Goto, readings
  <2>2. g.pc = "load" /\ g.part = 1
    BY <1>1, <1>3, <2>1 DEF Frames
  <2>3. Allowance' = Allowance /\ \A age : Sampled(age) => Sampled(age)'
    BY <2>1, <2>2 DEF Allowance, Sampled
  <2> QED  BY <1>2, <2>2, <2>3 DEF Pace
<1>9. CASE load("main")
  <2>1. /\ f.pc = "load" /\ UNCHANGED <<SampleTickTack, m_sensor, m_al_sensor>>
        /\ g = [f EXCEPT !.reg = SampleTickTack + 1, !.pc = "store"]
    BY <1>1, <1>9 DEF load, At, readings
  <2>2. g.pc = "store" /\ g.part = 1 /\ g.reg = SampleTickTack + 1
    BY <1>1, <1>3, <2>1 DEF Frames
  <2>3. Allowance' = Allowance /\ \A age : Sampled(age) => Sampled(age)'
    BY <1>1, <2>1, <2>2 DEF Allowance, Sampled
  <2> QED  BY <1>1, <1>2, <2>2, <2>3 DEF Pace
<1>10. CASE store("main")
  <2>1. /\ f.pc = "store" /\ UNCHANGED <<m_sensor, m_al_sensor>>
        /\ SampleTickTack' = f.reg
        /\ g = [NoFrame EXCEPT !.pc = IF f.reg >= LCD_SHOW_PAGE THEN "reset" ELSE "done"]
    BY <1>1, <1>10 DEF store, At, readings
  <2>2. /\ g.pc = IF f.reg >= LCD_SHOW_PAGE THEN "reset" ELSE "done"
        /\ g.part = 1
    BY <2>1 DEF NoFrame
  <2>3. f.reg \in 1 .. LCD_SHOW_PAGE
    BY <1>1, <1>3, <2>1 DEF Frames, CounterInv, ResetPending
  <2>4. Allowance' = Allowance
    BY <2>1, <2>2, <2>3 DEF Allowance, Turn
  <2>5. \A age : Sampled(age) => Sampled(age)'
    BY <2>1, <2>2 DEF Sampled
  <2> QED  BY <1>2, <2>2, <2>4, <2>5 DEF Pace
<1>11. CASE reset("main")
  <2>1. /\ f.pc = "reset" /\ UNCHANGED <<m_sensor, m_al_sensor>>
        /\ SampleTickTack' = 0
        /\ g = [f EXCEPT !.pc = "done"]
    BY <1>1, <1>11 DEF reset, At, Goto, readings
  <2>2. g.pc = "done" /\ g.part = 1
    BY <1>1, <1>3, <2>1 DEF Frames
  <2>3. Allowance' = Allowance /\ \A age : Sampled(age) => Sampled(age)'
    BY <2>1, <2>2 DEF Allowance, Turn, Sampled
  <2> QED  BY <1>2, <2>2, <2>3 DEF Pace
<1> QED  BY <1>4, <1>5, <1>6, <1>7, <1>8, <1>9, <1>10, <1>11 DEF sample_start_handler

(* The interrupt's handler runs before the first period of its connection is  *)
(* over: it may do what it likes to the counter and the readings.             *)
LEMMA InterruptHandlerPace ==
  ASSUME CounterInv, CounterInv', FramesInStep, sample_start_handler("interrupt")
  PROVE  FramesInStep' /\ Pace'
<1>1. /\ frames["interrupt"].pc # "done"
      /\ frames'["main"] = frames["main"]
      /\ UNCHANGED <<queued, link, connectedFor>>
  BY DEF sample_start_handler, test, GetSensorData, PassByValue, pass_to_al_sensor_data,
         LcdDisplaySensorData, load, store, reset, At, Running, Goto, outside, Contexts,
         CounterInv, TypeOK
<1>2. link /\ connectedFor = 0 /\ queued \in Nat
  BY <1>1, SamplingAssumption DEF FramesInStep, CounterInv, TypeOK
<1>3. FramesInStep'
  BY <1>1, <1>2 DEF FramesInStep
<1> QED  BY <1>1, <1>2, <1>3, YoungKeepsPace

(* Taking a handler from the queue begins its call, a period that passes      *)
(* queues one.                                                                *)
LEMMA OutsidePace ==
  ASSUME CounterInv, CounterInv', FramesInStep, Pace,
         \/ TakeHandler \/ SchedulerEmpty \/ NextRound
         \/ Connected \/ Disconnected \/ Tick \/ UNCHANGED vars
  PROVE  FramesInStep' /\ Pace'
<1> USE SamplingAssumption
<1> DEFINE f == frames["main"]
           g == frames'["main"]
<1>1. /\ f \in Frames /\ frames \in [Contexts -> Frames] /\ "main" \in Contexts
      /\ SampleTickTack \in Nat /\ queued \in Nat /\ connectedFor \in Nat
      /\ m_sensor \in Ages /\ m_al_sensor \in Ages /\ Allowance \in Nat
  BY AllowanceIsNat DEF CounterInv, TypeOK, Contexts, Round
<1>2. CASE TakeHandler
  <2>1. /\ f.pc = "done" /\ g = Called /\ frames'["interrupt"] = frames["interrupt"]
        /\ queued' = queued - 1 /\ queued > 0
        /\ UNCHANGED <<SampleTickTack, m_sensor, m_al_sensor, link, connectedFor>>
    BY <1>1, <1>2 DEF TakeHandler, At, readings, Contexts
  <2>2. g.pc = "test" /\ g.part = 1
    BY <2>1 DEF Called, NoFrame
  <2>3. queued' + Allowance' = queued + Allowance
    BY <1>1, <2>1, <2>2 DEF Allowance, Turn
  <2>4. \A age : Sampled(age) => Sampled(age)'
    BY <2>1, <2>2 DEF Sampled
  <2>5. FramesInStep'
    BY <2>1, <2>2 DEF FramesInStep
  <2> QED  BY <2>1, <2>3, <2>4, <2>5 DEF Pace
<1>3. CASE SchedulerEmpty \/ NextRound \/ UNCHANGED vars
  <2>1. UNCHANGED <<SampleTickTack, m_sensor, m_al_sensor, frames, queued, link, connectedFor>>
    BY <1>3 DEF SchedulerEmpty, NextRound, vars, device, outside, readings
  <2>2. FramesInStep'
    BY <2>1 DEF FramesInStep
  <2> QED  BY <2>1, <2>2 DEF Pace, Allowance, Sampled, Turn
<1>4. CASE Connected
  <2>1. /\ g = f /\ link' = TRUE /\ connectedFor' = 0 /\ queued' = queued
    BY <1>1, <1>4 DEF Connected, Contexts
  <2>2. FramesInStep'
    BY <2>1 DEF FramesInStep
  <2> QED  BY <1>1, <2>1, <2>2, YoungKeepsPace
<1>5. CASE Disconnected
  BY <1>5 DEF Disconnected, device, FramesInStep, Pace
<1>6. CASE Tick
  <2> DEFINE aged == IF f.pc \in {"copy", "pass"} THEN Older(f.sensor) ELSE f.sensor
  <2>1. /\ g = [f EXCEPT !.sensor = aged]
        /\ frames["interrupt"].pc = "done" /\ frames'["interrupt"] = frames["interrupt"]
        /\ m_sensor' = Older(m_sensor) /\ m_al_sensor' = Older(m_al_sensor)
        /\ UNCHANGED <<SampleTickTack, link>>
        /\ link => queued' = queued + 1 /\ connectedFor' <= connectedFor + 1
    BY <1>1, <1>6 DEF Tick, Contexts
  <2>2. g.pc = f.pc /\ g.part = f.part /\ g.reg = f.reg /\ g.sensor = aged
    BY <1>1, <2>1 DEF Frames
  <2>3. FramesInStep'
    BY <2>1, <2>2 DEF FramesInStep
  <2>4. Allowance' = Allowance
    BY <2>1, <2>2 DEF Allowance, Turn
  <2>5. ASSUME NEW ages \in Ages, NEW p \in 1 .. Parts
        PROVE  ages[p] \in Nat /\ Older(ages)[p] \in Nat /\ Older(ages)[p] <= ages[p] + 1
    BY <2>5 DEF Older, Ages
  <2>6. ASSUME NEW age \in Nat, Sampled(age)
        PROVE  Sampled(age + 1)'
    <3>1. ASSUME NEW p \in 1 .. Parts
          PROVE  /\ m_sensor[p] \in Nat /\ m_sensor'[p] \in Nat /\ m_sensor'[p] <= m_sensor[p] + 1
                 /\ m_al_sensor[p] \in Nat /\ m_al_sensor'[p] \in Nat
                 /\ m_al_sensor'[p] <= m_al_sensor[p] + 1
                 /\ f.sensor[p] \in Nat /\ g.sensor[p] \in Nat
                 /\ g.sensor[p] <= f.sensor[p] + 1
      <4>1. f.sensor \in Ages
        BY <1>1 DEF Frames
      <4> QED  BY <1>1, <2>1, <2>2, <2>5, <4>1
    <3>2. f.part \in 1 .. Parts
      BY <1>1 DEF Frames
    <3> HIDE DEF aged
    <3> QED  BY <2>2, <2>6, <3>1, <3>2 DEF Sampled
  <2>7. connectedFor' \in Nat /\ queued' \in Nat
    BY DEF CounterInv, TypeOK, Round
  <2> QED  BY <1>1, <2>1, <2>3, <2>4, <2>6, <2>7 DEF Pace
<1> QED  BY <1>2, <1>3, <1>4, <1>5, <1>6

(* Every step keeps the inductive invariant.                                   *)
LEMMA NextInv == SampleInv /\ [Next]_vars => SampleInv'
<1>1. CounterInv /\ [Next]_vars => CounterInv'
  BY NextCounterInv
<1>2. SampleInv <=> CounterInv /\ FramesInStep /\ Pace
  BY DEF SampleInv, CounterInv
<1>3. SampleInv' <=> CounterInv' /\ FramesInStep' /\ Pace'
  BY DEF SampleInv, CounterInv
<1> QED  BY <1>1, <1>2, <1>3, MainHandlerPace, InterruptHandlerPace, OutsidePace
            DEF Next, MainLoop

(* The inductive invariant, for every number of pages, parts and waiting      *)
(* handlers: the counter is out of range only inside of ++ and reset          *)
(* (main.c:174-175).                                                          *)
THEOREM SampleInvariant == Spec => []SampleInv
<1>1. Init => SampleInv
  BY InitCounterInv, InitPace DEF SampleInv, CounterInv
<1> QED  BY <1>1, NextInv, PTL DEF Spec

(* Every variable keeps its type; the counter never goes beyond one more than *)
(* the number of pages, so with 5 of them the uint8_t of main.c:54 cannot     *)
(* overflow.                                                                  *)
THEOREM SampleTypeCorrect == Spec => []TypeOK
<1>1. SampleInv => TypeOK
  BY DEF SampleInv
<1> QED  BY <1>1, SampleInvariant, PTL

(* Between two calls of the handler the counter is a page of the LCD, also    *)
(* after the interrupt's handler ran in the middle of the main loop's         *)
(* (main.c:168-176, 184).                                                     *)
THEOREM PageInRange == Spec => []PageAtRest
<1>1. SampleInv => PageAtRest
  BY SamplingAssumption, TypeParts DEF SampleInv, ResetPending, PageAtRest, CounterTypes
<1> QED  BY <1>1, SampleInvariant, PTL

(* Once a connection has lasted for a round of the pages and the handlers     *)
(* that may wait, the phone is answered with readings younger than that, for  *)
(* every number of pages, parts and waiting handlers (main.c:166-176,         *)
(* application.c:446-457).                                                    *)
THEOREM SettledIsFresh == Spec => []FreshOnceSettled
<1>1. SampleInv => FreshOnceSettled
  <2> SUFFICES ASSUME SampleInv, Answering, connectedFor = Round
               PROVE  Fresh(Round - 1)
    BY DEF FreshOnceSettled
  <2> USE SamplingAssumption
  <2>1. frames["main"].pc = "done" /\ frames["interrupt"].pc = "done" /\ link
    BY DEF Answering, At, Running
  <2>2. SampleTickTack \in Nat /\ SampleTickTack < LCD_SHOW_PAGE
    BY <2>1 DEF SampleInv, TypeOK, ResetPending, Contexts
  <2>3. Allowance \in 0 .. LCD_SHOW_PAGE - 1 /\ queued \in 0 .. MaxQueued
    BY <2>1, <2>2 DEF SampleInv, TypeOK, Allowance, Turn
  <2>4. queued + Allowance <= Round - 1 /\ Round \in Nat
    BY <2>3 DEF Round
  <2>5. Sampled(queued + Allowance)
    BY <2>1, <2>3, <2>4 DEF SampleInv, Pace
  <2>6. \A p \in 1 .. Parts : m_al_sensor[p] <= queued + Allowance /\ m_al_sensor[p] \in Nat
    BY <2>1, <2>5 DEF Sampled, SampleInv, TypeOK, Ages
  <2> QED  BY <2>3, <2>4, <2>6 DEF Fresh
<1> QED  BY <1>1, SampleInvariant, PTL
=============================================================================
