# The car air purifier firmware in TLA+

The firmware (nRF51822 with SoftDevice S110) measures the air in a car, shows it on an LCD, runs a
fan and talks to a phone over Bluetooth Low Energy. This directory holds models of its own logic,
the TLC runs that check them on small instances, and TLAPS proofs that hold for every instance.

All paths below are relative to `src/Source` or, for headers, `src/Include`; `main.c` is
`src/main.c`. Each definition's lines are listed in `PROJECT.json` under `map`.

## 1. The system

One main loop, `for (;;)` (main.c:610-616), calls in turn the scheduler (`app_sched_execute`), the
RX buffer queue (`rx_buffer_queue_evt_schedule`, at most one packet) and `SmartAdapt`. Two timers
put their handlers into the scheduler (main.c:204, the last argument is `true`). BLE events are
handled *in an interrupt*: main.c:535 passes `false` for the scheduler, although the comment at
main.c:498 says the events go through it. The interrupt preempts the main loop anywhere and runs to
completion. There is no lock and nothing is masked, so everything the two share can be cut between
any two accesses. This is the source of most of what is hard here.

| component | state | operations | who calls them |
|---|---|---|---|
| RX buffer queue, `Buffer/rx_buffer_queue.c` | `read_index`, `write_index`, 8 elements | add, schedule | interrupt adds, main loop schedules |
| Application layer, `protocol/application.c` | send status, packet, `execute_status_vaule`, `purify_status`, a copy of the readings | receive, send, five handlers | RX buffer queue |
| Protocol glue and UART service, `protocol/protocol.c`, `services/ble_uart.c` | `conn_handle` | send; connect, disconnect, write | application layer; interrupt |
| Fan and PWM, `AirPurifier/fan.c`, `pwm/nrf_pwm_noglitch.c` | power pin; timer, PPI and GPIOTE registers | open, close; set value, interrupt | application layer, initialisation |
| LEDs, `AirPurifier/led.c` | pins | open, close | automatic mode, main loop, application layer |
| Lifecycle, `main.c` | advertising or connected, `m_conn_handle`, mode LED, timers, scheduler | BLE events, timer handlers, connection parameters | interrupt, main loop |
| Sampling, `main.c`, `sensor/sensor.c` | `SampleTickTack`, `m_sensor`, LCD page | the sample handler | main loop, and the interrupt on a connection |
| Converter, `AirPurifier/adc.c` | ADC registers, crystal | open, read | both sensors, from both contexts |
| Sensors, `sensor/{dht11,pm25,tvoc}.c` | a queue of the last readings each | read, average | sample handler |
| Real-time clock, `AirPurifier/rtc.c` | BCD registers of a DS1302, its enable pin | initialise, get, set | sample handler, application layer |
| Automatic mode, `AirPurifier/car_air_purifier.c` | none of its own | `SmartAdapt`: the LEDs' colours for the readings | main loop |
| Transport control layer, `protocol/transport.c` | send and receive environments, timer | send, acknowledge, resend | nobody: not built any more |
| LCD, `AirPurifier/lcd13232.c` | the display's cells and address | a start screen and five pages, drawn byte by byte | main loop; sample handler in both contexts |
| GPIO, delay, initialisation | pins | output, busy waiting | the above |

The phone, the SoftDevice, the timers, the scheduler, the connection parameters library, the sensors,
the converter's hardware and the clock chip are external: modelled from how this code uses them and
marked so in `map`.

**How a command travels.** The phone writes; the interrupt copies the write into the RX buffer queue;
the main loop finds it, checks it, dispatches on the command, copies the payload, executes it (fan,
LED, calendar), and sends at most one notification, which the SoftDevice takes or refuses.

**How a reading travels.** Every three seconds the sample timer queues `sample_start_handler`. When
the page counter is 0 it reads all sensors into `m_sensor` and passes them *by value* to the
application layer, which answers the phone from its copy. On a connection the same handler is called
directly in the interrupt (main.c:184), possibly in the middle of itself.

**What is hard, and what makes each part correct**

* *Queue*: a packet is served in place while the interrupt stores others; indices are compared
  unmasked. Correct: a FIFO, no packet torn, repeated or lost while the phone does not outrun it.
* *Application layer*: one static send status, one static confirmation value, packets of a past
  connection. Correct: every request due a reply gets it; a confirmation tells the state of the fan.
* *Lifecycle*: the restart of the advertising races the timeout that switches the device off; links
  come and go inside handlers. Correct: the device stays on, and all mode variables agree.
* *Sampling*: a handler nested in itself, a counter incremented and reset without protection.
  Correct: the counter is a page; a settled connection is answered with recent readings.
* *Converter*: endless polling of one event register by two readers. Correct: an undisturbed reading
  is its own and ends.
* *Sensors*: insertion into a ring nested in itself. Correct: the last readings, index within bounds.
* *Clock*: six registers read one by one while they run, transfers cut by the interrupt. Correct: a
  reading is never behind; what is set is what was sent.
* *Transport, sending*: loss, late acknowledgements and resends. Correct: the phone gets each piece once
  under its number; success means it has all; a sending ends.
* *Transport, receiving*: sub-packets in any order, left out or repeated, and no note of which have
  come. Correct: what the application layer gets is what the phone sent, with the sub-packet that
  completes it; a part does not stay for ever.
* *LCD*: an interrupt draws between the three commands of an address and its data. Correct: a page is
  whole and shows the readings the rest of the device uses.
* *PWM*: a pin that hardware toggles, knowing only the other level, while the driver writes one register
  at a time. Correct: the duty is the one commanded, after any number of switches.
* *LEDs*: colours chosen from readings the interrupt replaces. Correct: they come to be the
  readings' and agree with the page shown.

Every hazard, at its line and with its properties, is in `PROJECT.json` under `hazards`.

## 2. The modules

| module | models | proofs | run |
|---|---|---|---|
| `RxBufferQueue` | rx_buffer_queue.c, and the three reads of the slot in application.c | `RxBufferQueueProofs` | `queue` |
| `RxFifo` | abstract: what the queue promises | | `queue` (refinement) |
| `AppLayer` | application.c, protocol.c, the UART service's events, fan.c | `AppLayerProofs` | `app`, `app_wait` |
| `Lifecycle` | main.c: advertising, connection, timers, scheduler | `LifecycleProofs` | `life`, `life_link_loss` |
| `Sampling` | main.c: sample handler, sensor.c, the two copies of the readings | `SamplingProofs` | `sampling` |
| `Adc` | adc.c with its two readers, pm25.c and tvoc.c | `SensorProofs` | `adc`, `adc_second_open` |
| `Dht11` | dht11.c: outcomes of a reading and the queue of readings | `SensorProofs` | `window` |
| `SlidingWindow` | abstract: the last readings | | `window` (refinement) |
| `Rtc` | rtc.c: initialisation, reading and setting | `RtcProofs` | `rtc` |
| `Transport` | the sending half of transport.c | `TransportLayerProofs` | `tcl` |
| `TransportReceiver` | the receiving half of transport.c | `TransportLayerProofs` | `tcl` |
| `TransportLayer` | composes the two halves: entry points and the timer they share | `TransportLayerProofs` | `tcl` |
| `Lcd` | lcd13232.c | `OutputsProofs` | `outputs` |
| `Leds` | led.c, car_air_purifier.c | `OutputsProofs` (types) | `outputs` |
| `Pwm` | nrf_pwm_noglitch.c as fan.c uses it | `OutputsProofs` | `outputs` |
| `Outputs` | composes the three with the main loop, the sample handler and its nesting | `OutputsProofs` | `outputs` |

`MCRxBufferQueue`, `MCAppLayer`, `MCRtc`, `MCTransport` and `MCOutputs` only name the values TLC needs.
Operators introduced by the comment "Mutant:" are wrong versions of the definition that follows them; no
specification uses them. They exist to show that each property can be broken by a plausible mistake.

### State and actions against the code

**RxBufferQueue.** A write is its sequence number. `slots[p]` is the write that `p_buffer[p]` holds.
The main loop is cut at each access to the shared state: `Poll` is the test and the masking of
`read_index` (lines 36-37), `ReadLength` (line 38), `al_check_recv_packet`, `Dispatch` and `Download` (application.c:296, 300, 166) are
the reads of the slot. The words of header and checksum are read one by one: if a write has come over them
since the length was read, the packet may pass or not; `Advance` is the increment (line 39), reached whatever
`al_recv_packet` returns. `add_rx_buffer_to_queue` is the interrupt. `overrun` records that a write
came with no room. What holds only without it says so. A write is copied in its own length
(rx_buffer_queue.c:53-55), and the checksum of an odd one covers one byte more (application.c:78): `tails`
says for each element whether that byte is other than 0. Writes have one odd length, or reach that byte
(`Dirty`, `Clean`), or are shorter.

**RxFifo / AppLayer.** `RxBufferQueue` is shown to implement `RxFifo` while not overrun; `AppLayer`
uses that: its `pending` is a FIFO of capacity one less than the array, and each packet is taken in one
step with its handler. `al_send_packet` is cut at the call of the SoftDevice because the link may
change there. A taken reply waits in `outbox` until `TxComplete` sends it, and is emptied by a disconnection;
it counts as `answered` only if it is sent to the connection that `asked`. A request is a pair of command and key; a reply carries the number of the request it
answers, which the real packet does not, so that "gets *its* reply" can be said. `handler` is what the
stack held for the three callbacks `purifier_protocol_init` never assigns (protocol.c:51).

**Lifecycle.** A `Tick` is a second. The scheduler's queue is a sequence of handlers with their waits;
`MaxLag` bounds a wait. `adv_timeout_handler` is cut between its two calls of the SoftDevice,
`on_conn_params_evt` between the library's look at the link and the disconnect.

**Sampling.** Two frames, one for each context. Each access to `SampleTickTack` (`test`, `load`,
`store`, `reset`) and each part of each copy is a step. A reading is its age in sample periods; the
argument passed by value ages too. In the code a reading is the average of the last ones (`Dht11`): the age is
that of the newest among them.

**Adc.** Each access to a register is a step and each of the two endless polls is a step that is not
enabled while it waits. A conversion remembers which reading started it, on which channel, and
whether the pulse and the crystal were on. Only hardware sets `EVENTS_END`: the code's write of
`ADC_BUSY` (adc.c:22) is taken to have no effect, for otherwise `GetAdcValue` would never wait.
`TASKS_START` during a conversion either restarts it or is ignored: the code allows for both.

**Dht11.** A reading succeeds, has a wrong checksum, or does not come; what is then repeated depends
on the caller. Insertion is four steps: the reading is stored, the index loaded, stored incremented (and
compared in its register), and reset. What lies behind the
queue is not modelled. `alone` records that no phone has connected yet.

**Rtc.** A transfer is two steps, enable and transfer; the interrupt's transfers disable the chip and
so cut one of the main loop. At power-on the clock runs, or stands with anything in its second register
(`HaltedSeconds`). `Bcd` and `Decimal` are the conversions with each field's mask.

**Transport.** `env` is the send environment, with the data as the number of the piece the pointer is
at. `timer` is the send timer, `acks` the acknowledgements under way, `got` what the phone has
received under which number. Its entry points are taken to be called one at a time.

**TransportReceiver.** The buffer is a function from a sub-packet's number and a byte's position to the byte.
A sub-packet stores, and counts, only where the buffer holds 0 (`Fresh`), whatever has come before:
the code keeps no note of it. `heard` is that note, for the properties; `mixed` says that sub-packets of
two packets met in the buffer, or a zero came twice. A packet is a sequence of sub-packets of small
bytes, each full but the last, which the phone may fill up with zeros.

**TransportLayer.** `RecvAckOrInvalid` and `RecvData` are the two branches of `tcl_recv_packet`,
`TimerInterrupt` is `tcl_timer_time_out`, which serves the sending half and then the receiving one. Each half
stutters (`Quiet`, or `UNCHANGED vars`) where the other steps.

**Lcd.** A picture is a sequence of glyphs (`Layout`), each drawn row by row: `SetPage`, `SetHigh` and
`SetLow` are the three commands of `SetLcdAddress`, `FirstByte` and `RestOfRow` the data. Clearing the screen is
drawn like a glyph as wide as the display. The bits of a byte are one step, and so are the bytes of a row
behind its first one: what an interrupt between two of those leaves differs only in how many of the bytes to
come go astray, and `Astray` is the same for all. Neither are the eleven commands with which `Initial` sets the
display up before each glyph (lcd13232.c:137): whatever a cut among them does to the address, the glyph's rows
set it afterwards. A byte that is cut is lost: a lost command equals a cut after it, as the interrupt sets the whole
address, and a lost data byte is missing where it belongs like one gone astray. `cells` is what each row shows at each of the followed
`Columns`: which picture's which glyph, and the digit. Ink out of its place is `Remains`. When another
picture is drawn in the middle of one, what the screen then shows is not followed (`overdrawn`).

**Leds.** A colour is the set of lit pins. `adapt` holds the argument `SmartAdapt` got by value: the
interrupt may replace the readings between the two LEDs.

**Pwm.** `call` is a call of `nrf_pwm_set_value`: its value and the number of its next register write, of
`Program`. `hw` are the registers; `Compare0` and `Compare3` are the timer's events with what the PPI channels
make of them, `PWM_IRQHandler` the interrupt. Only the paths between 0 and the fan's duty are taken.

**Outputs.** `loop` is where the main loop is. The nested `sample_start_handler` of a connection is one step
here (`Connected`): what can be cut in the counter is in `Sampling`. Interrupts come before any step of the
main loop.

## 3. The runs

| run | instance | distinct states | properties |
|---|---|---|---|
| `queue` | real length 8, 20 writes (2.5 laps), every third malformed, 5 odd ones, 3 that reach behind them | 3 948 | `WholePacket`, `EmptyIsEmpty`, `QueueInv`, `InOrder`, `ImplementsFifo`, `EveryWriteIsTaken`, `RefusedByRemains` |
| `app` | 9 kinds of request, 3 of them, 2 connections, FIFO of 2, 1 transmit buffer | 493 260 | `LastReplyTellsState`, `StatusTrueOnceSwitched`, `AppInv`, `AnsweredOrExcused` |
| `life` | timeout 10 s, scheduler of 5, waits up to 6 s, unbounded connections | 4 448 | `OffOnlyIfHeldUp`, `ModesAgree`, `QueueNeverFull`, `LifeInv`, `ComesBack` |
| `sampling` | the real 5 pages, 2 parts, 2 queued handlers | 1 216 060 | `PageAtRest`, `SampleInv`, `FreshOnceSettled`, `SampledAgain` |
| `adc` | nothing bounded | 1 994 | `OwnReading`, `AdcInv`, `EndsOrStuck` |
| `window` | queue of 3, 3 values, interrupt up to 2 beyond the end | 145 959 | `IndexInv`, `LastReadings` |
| `rtc` | 4 start times at carries, standing clocks with 3 seconds, 4 settings, 3 seconds, 2 calls | 2 783 601 | `RtcInv`, `NeverBehind`, `ExactWithoutCarry`, `SetAsSent` |
| `tcl` | sending: up to 3 sub-packets, 1 resend, 2 acknowledgements under way; receiving: 2 packets, 2 sub-packets of 2 bytes, 1 period of waiting | 227 640 | `OwnPieces`, `SuccessMeansReceived`, `TclInv`, `ReportedIsSent`, `WholeIsReported`, `SendingEnds`, `PartEnds` |
| `outputs` | 2 of the 4 rows, all pages, each column a glyph of any of them begins at and 3 more, 2 readings, 1 connection in each drawing | 494 176 | `WholePage`, `ShownIsCurrent`, `OutputsInv`, `ColourOfShown` |
| `app_wait`, `life_link_loss`, `adc_second_open` | as `app`, `life`, `adc` | | one violated property each, see section 5 |

The inductive invariants (`QueueInv`, `AppInv`, `LifeInv`, `SampleInv`, `AdcInv`, `IndexInv`, `RtcInv`, `TclInv`,
`OutputsInv`) have `TypeOK` among their conjuncts. Two have a safety property too: `OnlyTheseWaits` in `AdcInv`,
`DutyAsCommanded` in `OutputsInv`.

**What the runs show, and why the bounds are enough**

* `queue`. At its real length the queue implements `RxFifo` as long as no write comes without room,
  and even when one does the main loop never goes back to an older packet. Two and a half laps wrap
  both indices in every relative position; the model has no other state that grows. A packet of odd length
  whose checksum is right is refused only for a byte an earlier write left in its element: here write 10 is,
  for write 2, and write 20 is not, because write 12 cleared what write 4 had left. If the phone outruns the
  queue it may also be refused for a write that came over it while it was checked.
* `app`. A request that is due a reply gets it, sent to the phone that asked, or its connection ends, or
  the reply is lost for one of three reasons: there was no transmit buffer for it, its notification or an
  earlier one was refused, or a handler that was never set stopped the processor. A reply that goes to the
  phone of a later connection, or is in the SoftDevice when the connection ends, is no answer. Three requests are enough for one to be refused, one to find the sender busy
  and one to come after, and two connections for packets and subscriptions to outlive one. A FIFO of two
  stands for seven: it is filled and overrun either way.
* `life`. The device switches itself off only if its main loop was held up for at least half of the advertising
  timeout: two restarts fit into one timeout. `MaxLag` is above that half so that both outcomes
  happen. The scheduler's queue never holds more than five handlers, of its real ten: the constants meet
  `RoomEnough` with equality, so one element less would overflow. Connections are not counted, so any
  number of them is covered.
* `sampling`. The page counter is a page whenever no handler runs, whichever step of one another
  nests in; a connection that has lasted a whole round (`Round` sample periods) is answered with
  readings younger than that round. Two parts suffice to tear a copy; `MaxAge` is above `Round`.
* `adc`. All behaviours of the two readers with one level of nesting, which is all the BLE
  interrupt can give. A reading that nothing disturbed is of its own channel, under its own pulse.
  A reader waits for ever only after a second open that came too late, or after the other reader
  consumed its event.
* `window`. Until a phone connects, the ring implements `SlidingWindow`. Afterwards an insertion may
  nest in another, and the index may go behind the array while both run, but is a slot when both are
  done. Length 3 has a first, a middle and a last slot; the code is the same for each middle one.
* `rtc`. The times are the last seconds before carries of a minute, of a day in February, of a year and of
  the year 99, after which the chip shows 0 and `NeverBehind` says nothing;
  a reading takes at most the 3 seconds of the run. A cut transfer reads 0 or 255, the extremes of a
  floating line. A standing clock's second is 58 or 60, with which it is started, or 85, with which it is not.
* `tcl`. While no acknowledgement answers something else than was just sent, the phone gets each piece
  under its own number, success means it has all of them, and a sending ends. Three sub-packets have a
  first, a middle and a last one; the numbers are taken modulo 5 for 2^8, above the highest one used. The
  proofs cover more of each. In the other direction, what is reported is what the phone sent, and it is
  reported with the very sub-packet that completes it, unless two packets met in the buffer or a zero came
  twice. A packet whose last sub-packet is filled up with zeros is never reported, which `WholeIsReported`
  says, too. No part stays for ever, since each expiry of the timer counts against it. One packet has a zero and a last sub-packet
  that is not full, the other one is a single full sub-packet: each branch of the comparison with the
  announced length, and each way of mixing, occurs.
* `outputs`. A page is whole although a connection drew in the middle of it: the page counter is
  incremented after the drawing, so one connection draws the same page, and leaves the address at the end of
  the display, where what follows of the main loop's row is lost or overwrites a column that is drawn again.
  A page can be spoilt only by a second connection in one drawing, which the counter has brought to
  the next page, or by one during the start screen (`overdrawn`); the first is beyond the bound (with two
  or three connections in each drawing the run passes too, with 781 084 and 1 094 396 states, and the
  proofs are for any number), the second occurs and is excluded. The rows are drawn alike: two have a first and a next one. Of each glyph of any page
  the first column is followed, where a wrong address shows first, and also a column in the middle of one, one in
  the gap of the time, and the last, which alone takes what comes behind it. The two readings have
  different digits at each place and different colours. The duty is right between any two calls of the
  driver, over any number of them.

**Fairness.** `WF` of the main loop: it is `for (;;)` and nothing in it waits for the phone (but for
the converter, whose waits `Adc` models). In `Lifecycle` also `WF` of the end of a disconnection
that was commanded; in `Sampling` `WF` of the nested handler, because an interrupt returns, and of
`Tick`, because time passes; in `Adc` `WF` of the nested reading and of the hardware's end of a
conversion, and `SF` of the main loop, because it is interrupted for whole readings by connections,
which are rare in comparison. In `TransportLayer` only the timer's interrupt is fair: neither the link nor
the phone owes anything. In `AppLayer` also `WF` of `TxComplete`: the SoftDevice sends what it holds as long as
the link lasts. In `Outputs`, `WF` of the main loop, of the PWM's timer and of its interrupt, which
hardware keeps going, and `SF` of reaching the RX buffer queue: a handler is queued every three seconds
only, so the scheduler's queue is empty again and again. Nothing is assumed of the phone anywhere.

`CHECK_DEADLOCK FALSE` appears nowhere: a device that is off, stopped or stuck in an endless loop
has a stuttering action that says so (`Stopped`, `Faulted`, `Waiting`).

## 4. The proofs

| module | theorems | for every |
|---|---|---|
| `RxBufferQueueProofs` | `TypeCorrect`, the invariant, no packet torn, empty means empty, in order, refused only for what remains behind or comes over it, the refinement of `RxFifo` | length, number of writes, and which of them are odd or leave what behind |
| `AppLayerProofs` | `AppTypeCorrect`, the invariant, busy only after an error, the last confirmation and the status reply tell the state | set of requests, capacity, buffers |
| `LifecycleProofs` | `LifeTypeCorrect`, the invariant, room for all handlers, off only if held up, never off if the lag is short enough, modes agree | timeouts, periods, lag and queue size |
| `SamplingProofs` | `SampleTypeCorrect`, the invariant, the counter is a page at rest, a settled connection gets fresh readings | number of pages, parts, queued handlers |
| `SensorProofs`, converter | the invariant with the only waits in vain, an undisturbed reading is its own | (no constants) any interleaving |
| `SensorProofs`, queue | the invariant, the index is a slot at rest, behind only while wrapping, the refinement of `SlidingWindow` | length of the queue, values |
| `RtcProofs` | the invariant, the clock runs unless its second cannot be written back, what is accepted is read back as it was set, a reading is not behind, is exact without a carry, a setting is as sent | times at power-on, settings, floating bytes, seconds and calls |
| `TransportLayerProofs`, sending | `TypeCorrect`, the invariant, own pieces, success means received, a time out comes, resends are bounded | number of sub-packets, resends, acknowledgements |
| `TransportLayerProofs`, receiving | the invariant, what is reported was sent, and with the sub-packet that completes it, the halves are independent, the sender's invariant in the layer | packets, size of the buffer and of a sub-packet, time of waiting |
| `OutputsProofs` | the invariant with the duty as commanded, pages are whole, pages are current, the first page reads as measured | number of rows, columns followed, readings, connections in a drawing |

`PROJECT.json` lists them by name under `theorems`, with the property of a run each one generalises.
All follow one argument: the initial states satisfy the invariant, each action preserves it (a step
per action), it implies the property; the temporal step combines the three. The assumptions are the
named `ASSUME`s of the modules, which TLC evaluates in the runs. Why each property needs more than
itself:

* `QueueInv`: indices are known only up to a lap. `SlotsHoldLastLap` says which lap every slot
  belongs to, whatever the load; `IndicesAgree` links indices and backlog while not overrun; `ReadsForward`
  bounds what was executed by what is coming, which is why order survives even an overrun. That an odd packet
  is refused only for what an earlier one left, if none came over it, needs `TailsAreRemains`: the byte behind the write a slot
  holds is the one the last longer write of that slot left, or 0. It rests on the arithmetic of remainders:
  two writes share a slot if their numbers are equal up to multiples of the length.
* `AppInv`: that the last confirmation is true needs that requests wait and are served in the order of
  their numbers (`PacketsInOrder`), and that the confirmation under way is the one of the packet
  being served (`ReplyInSend`). That a status reply is true needs that fan and status agree since the
  first switch (`FanAsCommanded`, in the proofs).
* `LifeInv`: that the device stays on needs that each advertising either sees the timer expire in
  time or already has its restart in the scheduler's queue, and then how long that has waited
  (`RestartComing`). That the scheduler has room needs to count: the handlers of one timer are queued a period
  (`Gap`) apart, in the queue (`InTurn`) and towards the next expiry (`NextInTurn`). Divided by that period,
  the waits of one timer's handlers are therefore different numbers up to `MaxLag \div Gap`, and there
  are no more handlers than such numbers. `RoomForAll` has the hypothesis `RoomEnough` and not an assumption
  of the module: with the real queue of 10 and periods of 3 s and 5 s it holds for waits up to 17 s.
* `SampleInv`: the counter may be beyond the pages only while one of the two handlers is still to
  reset it (`ResetPending`), which needs what each holds in its register (`TypeOK`). That a settled connection
  gets fresh readings needs how the calls keep up with the periods (`Pace`): the connection, or what has been
  sampled, is no older than the handlers that wait and the calls made since the last sample, for each
  step a handler can be at and each part of either copy.
* `AdcInv`: that an undisturbed reading is its own needs what each of its steps finds (`UndisturbedReads`): at
  first nothing, then the conversion it started, or its end. It finds nothing because whatever ran before,
  disturbed or not, has stopped the conversion and cleared the event before it released the crystal
  (`NothingLeft`), and it is alone (`UndisturbedIsAlone`).
* `IndexInv`: likewise for the index of the ring, which the main loop stores back as it has loaded it, whatever
  the interrupt has made of it (`ResetPending`), and that until a phone connects nothing has disturbed the
  main loop's insertion (`Undisturbed`), which the refinement needs.
* `RtcInv`: that the clock runs needs that, while it does, the second holds two digits of at most 60
  (`TwoDigits`), so that no carry reaches the bit that stops it. The initialisation starts a clock that
  stands unless it reads a second of more than 60, which `SetSecond` refuses (rtc.c:158): then it goes on
  standing until the phone sets it (`RunsOnceInitialised`). That no setting stops it needs that what is
  under transfer was accepted for its field (`CallsInOrder`). That a reading is not behind needs what it has
  read so far (`ReadingSoFar`): completed by what the clock shows now, it is a time not before the
  beginning. A tick makes the rest later, and the carry of a tick that sets lower fields back makes a higher
  one greater. This fails for the tick after the year 99, hence `wrapped`. The interrupt reads into the same
  struct, and what it reads satisfies the same.
* `TclInv`: that success means received needs which pieces the phone has for each position of the
  sending, and that each acknowledgement under way answers the last sub-packet sent.
* `RecvInv`: that what is reported was sent needs that, unless mixed up, the buffer holds one packet's bytes
  where they belong and the count is the cardinality of the places that have been filled (`OnePacket`). A
  sub-packet adds just the places it fills anew, so the count equals the announced length only if all
  are filled: the missing bytes outweigh the zeros a last sub-packet may be filled up with.
* `OutputsInv`: three parts, none of which disturbs the others.
  That pages are whole and current needs `Screen`: while a page is drawn, each cell is as it should be (`AsDrawn`)
  or still to be written (`ToCome`), and the display's address is where the next command or byte needs it
  (`OnTrack`) or was left by a connection in the last row (`Astray`). The point is what astray bytes hit: they
  are of a column that the glyph being drawn or a later one has, in a row still to come, or, with a
  display that overwrites its last column, end with the very byte that belongs there. The layouts give
  this: glyphs go from left to right without overlapping (`LeftToRight`), a page without clearing
  covers all columns (`Covered`), and the last glyph of a page ends with the display and begins four
  columns or more into a block of 16 (`LastOfPage`), so that a half set column (the lower half of any put to
  the upper half of 132, where the connection stopped) is one of the last glyph's, or, if this is being drawn,
  behind the display. `TypeOK` bounds the address by 143 for the same reason.
  That at most one connection can do this without drawing another page is `InHandler`.
  That the duty is right needs a table of what each register holds at each step of the driver
  (`SwitchingOn`, `SwitchingOff`) and between two calls with the late interrupt (`BetweenCalls`), and that the
  toggling channels are switched together and only when the pin is where it should be (`InStep`).

Some theorems are of properties no run lists, because an invariant a run checks implies them:
`BusyOnlyAfterError`, `IndexAtRest`, `BehindOnlyInWrap`, `TimeOutComes`, `GivesUpInTime`,
`RunsOnceInitialised`, `NeverOff`. `DustReadsAsMeasured` follows from `ShownIsCurrent` and the digits'
arithmetic: what is read off the first page is the dust the LED's colour is chosen by, modulo 100 µg/m³.
It is what `ColourOfShown` has of safety, for any reading.

Only model-checked:

* all liveness properties and everything under fairness (out of the prover's reach, as is `ENABLED`):
  `EveryWriteIsTaken`, `AnsweredOrExcused`, `ComesBack`, `SampledAgain`, `EndsOrStuck`, `SendingEnds`,
  `PartEnds`, `ColourOfShown`.

Every safety property a passing run checks is proved.

## 5. Where the code and its comments disagree

Three runs end in a counterexample. Each checks what a comment of the code says.

* `app_wait`: a notification refused because the phone has not subscribed, or is gone, leaves the send
  status at sending for ever; nothing calls `al_send_failed`. Every later reply is refused with
  `AL_WAIT`, whose comment says "just wait and send again".
* `life_link_loss`: a link lost between the library's look at it and `on_conn_params_evt` makes
  `sd_ble_gap_disconnect` fail, and the check of its result stops the device.
* `adc_second_open`: `GetTvoc` opens the converter and so does `GetVoltage` in it. If the first conversion
  ends before the second `OpenAdc` looks, that one polls for an event to go away which nobody clears.

Other observations made while modelling, with no run of their own:

* The RX buffer queue has room for one write less than its length: with as many stored writes as elements
  its two indices are equal and the main loop sees it empty. `ImplementsFifo` therefore has the capacity
  `QueueLength - 1`.
* A packet of odd length may be refused although its checksum is right: the byte behind it is summed too,
  and an earlier, longer write in the same element may have left one. Nothing but a longer write
  clears it, so once it is so in all elements the same packet is refused each time it is sent.
* BLE events are handled in the interrupt (main.c:535) although main.c:498 says the scheduler does it.
* `ble_config.h:23` says 15 seconds of a delay of 20 000 ms.
* `advertising_start` lights no LED although led.h:8 says so of `APP_ADVERTISING_LED`.
* `purifier_protocol_init` leaves three handlers of a structure on the stack unassigned; the
  application layer calls whatever is not null (`CallUnsetHandler`).
* The status reply is wrong until the first switch: the fan is opened at initialisation,
  `purify_status` is not. Hence the name `StatusTrueOnceSwitched`.
* `al_process_status_packet` passes the number 100 as a pointer and sends the byte at that address.
* The first answers of a connection may be readings of the one before.
* dht11.c:102 says "use the data of last time", but what a sensor that does not answer repeats is the last
  reading made for the average, although the one made for the compensation in `GetTvoc` is later.
* rtc.h:80-84 and the setters disagree. `SetMinute` accepts 60, where rtc.h:83 ends at 59: the register then
  shows a 60th minute, and `SetAsSent` says nothing of it. rtc.h:80 counts the months from 0 to 11,
  `SetMonth` and the chip from 1 to 12: a month of 0 is left unset, and so `SetAsSent` takes a month to be 1 to 12.
* `StartRtcClock` reads the second of a standing clock and writes it back (rtc.c:264-268), and ignores that
  `SetSecond` refuses more than 60: a clock that was left with such a second goes on standing.
* After the year 99 the clock shows 0, and rtc.c:212 accepts no more: a reading across that second may be
  behind the time it began at, where one across any other carry can only be ahead.
* A cut transfer of the clock yields up to 165 for a year, behind the tables of the LCD.
* The send timer of the transport layer runs on after a packet of one sub-packet has succeeded and then
  resends from the null pointer. A stray acknowledgement stops the timer and leaves the sender busy. The second
  acknowledgement of a sub-packet that was resent advances the data again and takes its number as it is, so that
  the pieces that follow have the numbers of others. The refusal of an error acknowledgement ends the packet
  that is sending. `confused` and `stray` mark these cases, of which the properties say so.
* The transport's receiver counts a byte where its buffer holds 0: the zeros of a sub-packet that comes
  twice count twice, and a packet whose last sub-packet is filled up never has the announced length.
  The count of its timer goes on from one sub-packet to the next (transport.c:417) and an error does not
  stop the timer (transport.c:406-409), so a part may be thrown away early.
* The first two pages drop the digit above the third (lcd13232.c:170-176): above 99.9 the page shows a
  number of another colour than the LED. `ColourOfShown` and `DustReadsAsMeasured` say so.
* The start screen is drawn after the advertising has started (main.c:605-608), so over the page of a
  connection that came first; only the start screen and the page with the time clear the screen.
* fan.c:42 writes 0 to `TASKS_START` to stop the PWM timer; a task register is triggered by writing 1 and
  does nothing on 0.

Assumed, where the hardware's answer is not in the code: writing `ADC_BUSY` to `EVENTS_END` has no
effect; the queues of pm25.c and tvoc.c are filled as that of dht11.c, which is modelled; the
transport's entry points are called one at a time; the SoftDevice sends the notifications it holds in their
order; the clock chip is in its 24-hour mode and its registers hold two decimal digits each, a running
clock's second at most 59, but for the second of a clock that stands, which may hold anything; the display's column counter stops at the last column, and
data behind it are lost or overwrite that column; a command of `InitLCD` that a connection cuts is set
again by the next drawing; with a compare value of 0 the PWM's compare event may come at any time; a delay of one
period sees each event of its timer; interrupts come before the main loop's next step.

## 6. Not modelled, and why

| part | reason |
|---|---|
| `services/ble_id.c` | a constant characteristic, no handler that changes state |
| `ble_instant_air_quality.c`, `fuel_gauge.c`, `nrf_pwm.c` | not built |
| `gpio.c`, `delay.c`, `init.c` | single register writes and busy waiting |
| PWM: 100 %, duty to duty, the other channels | the fan's only values are 0 and 60 |
| `LcdDisplayFanSpeed`, `ReadFanSpeed`, `GetAdcNumber`, `flush_rx_buffer_queue`, weekday of the clock | nothing calls them |
| `CloseLed`, `ToggleLed` | called only for the pins that tell a mode, which `Lifecycle` and `AppLayer` have |
| bits on the wires of DHT11, DS1302 and LCD; font tables | one step each; data |
| bytes of a packet | a packet is well formed or not; of the checksum only what an odd length adds |
| physical formulas of the sensors | floating point |

No property is stated of which earlier reading a failed one repeats (dht11.c:102): `Dht11` has both cases,
but the code's comment does not say for whom the last time counts.

## 7. Plan

Done: the queue and its abstraction first, because every command goes through it; the application
layer on top of that abstraction; the lifecycle; sampling, converter, sensors; the clock and its proofs; the
transport's sender, its receiver and their composition; the LCD, the PWM and the LEDs, composed with the
main loop; the byte behind an odd packet; the proofs of every safety property the runs check, at last of those
of the LCD and the PWM. What is left, in this order:

1. A composition of lifecycle, queue, application layer and sampling: readings and packets across a
   reconnection.
2. The header, key and length of a packet over small bytes.
