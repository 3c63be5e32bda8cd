------------------------------ MODULE Lifecycle ------------------------------
(***************************************************************************)
(* The life of the device (main.c): advertising, the connection, the two    *)
(* application timers and the scheduler their handlers go through.          *)
(*                                                                          *)
(* The timers put their handlers into the scheduler's queue; the main loop  *)
(* calls them.  BLE events are handled in an interrupt that preempts it     *)
(* anywhere, so a handler is cut between its calls of the SoftDevice.  The  *)
(* SoftDevice, the timers, the scheduler and the connection parameters      *)
(* library are external.  A Tick is one second.                             *)
(***************************************************************************)
EXTENDS Naturals, Sequences

CONSTANTS AdvTimeout,       \* APP_ADV_TIMEOUT_IN_SECONDS
          SampleInterval,   \* SENSOR_SAMPLE_TIMER_INTERVAL, in half seconds
          SchedQueueSize,   \* SCHED_QUEUE_SIZE
          FirstDelay, NextDelay,  \* FIRST_, NEXT_CONN_PARAMS_UPDATE_DELAY in seconds
          MaxUpdates,       \* MAX_CONN_PARAMS_UPDATE_COUNT
          MaxLag            \* bound: seconds a scheduled handler waits for the main loop

(* ADV_TIMER_TICKS and SAMPLE_TIMER_TICKS: 500 ms for each unit. *)
AdvPeriod == AdvTimeout \div 2
(* Mutant: the interval taken for sixths of a second. *)
HastyPeriod == SampleInterval \div 6
SamplePeriod == SampleInterval \div 2

ConstantsInRange ==
  /\ AdvTimeout \in Nat /\ AdvPeriod > 0
  /\ SampleInterval \in Nat /\ SamplePeriod > 0
  /\ SchedQueueSize \in Nat /\ MaxUpdates \in Nat /\ MaxLag \in Nat
  /\ FirstDelay \in Nat \ {0} /\ NextDelay \in Nat \ {0}

ASSUME LifecycleAssumption == ConstantsInRange

(* The main loop is never held up for half of the advertising timeout.  Not  *)
(* assumed: the properties that need it say so.                              *)
NotHeldUp == AdvPeriod + MaxLag < AdvTimeout

VARIABLES
  radio,          \* external: "advertising", "idle", "connected", "disconnecting" or "off"
  advAge,         \* external: seconds this advertising has lasted
  m_conn_handle,  \* TRUE for a handle, FALSE for BLE_CONN_HANDLE_INVALID
  TEST_LED1,      \* APP_ADVERTISING_LED and APP_CONNECT_LED, the same pin
  timers,         \* external: seconds to the next expiry of each, 0 if stopped
  sched,          \* external: the scheduler's queue, each handler with its wait
  updateCount,    \* external: updates of the connection parameters asked for
  pc              \* of the main loop

vars == <<radio, advAge, m_conn_handle, TEST_LED1, timers, sched, updateCount, pc>>

TimerIds == {"adv", "sample", "params"}

(* Mutant: the advertising timer is made APP_TIMER_MODE_SINGLE_SHOT. *)
PeriodOnce(t) == CASE t = "adv" -> 0 [] t = "sample" -> SamplePeriod

Period(t) == CASE t = "adv" -> AdvPeriod [] t = "sample" -> SamplePeriod

LinkUp == radio \in {"connected", "disconnecting"}

Dead == radio = "off" \/ pc \in {"queue_full", "stale_handle"}

-----------------------------------------------------------------------------

(* External: app_timer_start leaves a running timer as it is. *)
Started(t, period) == IF timers[t] = 0 THEN period ELSE timers[t]

(* Mutant: the timer is not started. *)
AdvTimerForgotten == timers["adv"]

adv_timers_start == Started("adv", AdvPeriod)
sample_timers_start == Started("sample", SamplePeriod)

(* Mutant: the call of sd_ble_gap_adv_start is left out. *)
AdvertisingForgotten == UNCHANGED <<radio, advAge>>

(* External: sd_ble_gap_adv_start refuses unless the radio is idle; the code *)
(* it returns is dropped.                                                    *)
advertising_start ==
  IF radio = "idle" THEN radio' = "advertising" /\ advAge' = 0
                    ELSE UNCHANGED <<radio, advAge>>

(* main(), up to the main loop. *)
Init ==
  /\ radio = "advertising" /\ advAge = 0
  /\ m_conn_handle = FALSE /\ TEST_LED1 = FALSE
  /\ timers = [t \in TimerIds |-> IF t = "adv" THEN AdvPeriod ELSE 0]
  /\ sched = <<>> /\ updateCount = 0
  /\ pc = "loop"

(* What the queue holds a second later: the handlers of the timers that      *)
(* expire come after those that wait.                                        *)
Aged ==
  [i \in 1 .. Len(sched) |-> [handler |-> sched[i].handler, age |-> sched[i].age + 1]]

PutExpired(queue, t) ==
  IF timers[t] = 1 THEN Append(queue, [handler |-> t, age |-> 0]) ELSE queue

Put == PutExpired(PutExpired(PutExpired(Aged, "adv"), "sample"), "params")

(* External: a second passes.  The application's timers are repeated, the    *)
(* library's is not.  The timer module checks that the scheduler took each   *)
(* handler, and calls app_error_handler if not.                              *)
Tick ==
  /\ ~Dead /\ pc = "loop"
  /\ \A i \in 1 .. Len(sched) : sched[i].age < MaxLag
  /\ radio = "advertising" => advAge < AdvTimeout
  /\ advAge' = IF radio = "advertising" THEN advAge + 1 ELSE advAge
  /\ timers' = [t \in TimerIds |->
                  CASE timers[t] > 1 -> timers[t] - 1
                    [] timers[t] = 1 /\ t # "params" -> Period(t)
                    [] OTHER -> 0]
  /\ IF Len(Put) <= SchedQueueSize
       THEN sched' = Put /\ pc' = pc
       ELSE sched' = Aged /\ pc' = "queue_full"
  /\ UNCHANGED <<radio, m_conn_handle, TEST_LED1, updateCount>>

(* External: the library waits before it asks for better parameters. *)
NegotiationDelay == IF updateCount' = 0 THEN FirstDelay ELSE NextDelay

(* on_ble_evt, BLE_GAP_EVT_CONNECTED; then the library's own handler, which  *)
(* starts its timer if the parameters do not suit.                           *)
Connected ==
  /\ ~Dead /\ radio = "advertising"
  /\ radio' = "connected" /\ advAge' = 0
  /\ TEST_LED1' = TRUE
  /\ m_conn_handle' = TRUE
  /\ updateCount' = 0
  /\ \E negotiation \in {0, NegotiationDelay} :
       timers' = [timers EXCEPT !["adv"] = 0, !["sample"] = sample_timers_start,
                                !["params"] = negotiation]
  /\ UNCHANGED <<sched, pc>>

(* on_ble_evt, BLE_GAP_EVT_DISCONNECTED; the library stops its timer.        *)
Disconnected ==
  /\ ~Dead /\ LinkUp
  /\ TEST_LED1' = FALSE
  /\ m_conn_handle' = FALSE
  /\ updateCount' = 0
  /\ timers' = [timers EXCEPT !["sample"] = 0, !["adv"] = adv_timers_start, !["params"] = 0]
  /\ radio' = "advertising" /\ advAge' = 0     \* the radio is idle: advertising_start
  /\ UNCHANGED <<sched, pc>>

(* on_ble_evt, BLE_GAP_EVT_TIMEOUT of the advertising. *)
AdvertisingTimeout ==
  /\ ~Dead /\ radio = "advertising" /\ advAge = AdvTimeout
  /\ TEST_LED1' = FALSE
  /\ radio' = "off"                            \* sd_power_system_off
  /\ UNCHANGED <<advAge, m_conn_handle, timers, sched, updateCount, pc>>

(* External: the phone changes the parameters; the library negotiates again  *)
(* or is content.                                                            *)
ParametersChanged ==
  /\ ~Dead /\ radio = "connected"
  /\ \E content \in BOOLEAN :
       /\ updateCount' = updateCount
       /\ timers' = [timers EXCEPT !["params"] =
                       IF content THEN @ ELSE Started("params", NegotiationDelay)]
  /\ UNCHANGED <<radio, advAge, m_conn_handle, TEST_LED1, sched, pc>>

BleEvent == Connected \/ Disconnected \/ AdvertisingTimeout \/ ParametersChanged

-----------------------------------------------------------------------------

(* app_sched_execute takes the next handler out of the queue and calls it.   *)
TakeHandler(h) ==
  /\ ~Dead /\ pc = "loop" /\ sched # <<>>
  /\ Head(sched).handler = h
  /\ sched' = Tail(sched)

(* adv_timeout_handler: sd_ble_gap_adv_stop, which refuses unless the device *)
(* is advertising, and then advertising_start.                               *)
adv_timeout_handler_stop ==
  /\ TakeHandler("adv")
  /\ radio' = IF radio = "advertising" THEN "idle" ELSE radio
  /\ advAge' = IF radio = "advertising" THEN 0 ELSE advAge
  /\ pc' = "adv_start"
  /\ UNCHANGED <<m_conn_handle, TEST_LED1, timers, updateCount>>

adv_timeout_handler_start ==
  /\ ~Dead /\ pc = "adv_start"
  /\ advertising_start
  /\ pc' = "loop"
  /\ UNCHANGED <<m_conn_handle, TEST_LED1, timers, sched, updateCount>>

(* sample_start_handler touches nothing modelled here. *)
sample_start_handler ==
  /\ TakeHandler("sample")
  /\ UNCHANGED <<radio, advAge, m_conn_handle, TEST_LED1, timers, updateCount, pc>>

(* External: the library's timer handler.  It asks for an update, or, after  *)
(* the last one, calls on_conn_params_evt with BLE_CONN_PARAMS_EVT_FAILED.   *)
update_timeout_handler ==
  /\ TakeHandler("params")
  /\ IF ~m_conn_handle THEN UNCHANGED <<updateCount, pc>>
     ELSE IF updateCount < MaxUpdates THEN updateCount' = updateCount + 1 /\ UNCHANGED pc
     ELSE updateCount' = 0 /\ pc' = "on_conn_params_evt"
  /\ UNCHANGED <<radio, advAge, m_conn_handle, TEST_LED1, timers>>

(* on_conn_params_evt: sd_ble_gap_disconnect(m_conn_handle), and             *)
(* APP_ERROR_CHECK of what it returns when the link is gone.                 *)
on_conn_params_evt ==
  /\ ~Dead /\ pc = "on_conn_params_evt"
  /\ \/ radio = "connected" /\ radio' = "disconnecting" /\ pc' = "loop"
     \/ radio # "connected" /\ UNCHANGED radio /\ pc' = "stale_handle"
  /\ UNCHANGED <<advAge, m_conn_handle, TEST_LED1, timers, sched, updateCount>>

(* The scheduler's queue is empty. *)
Idle == ~Dead /\ pc = "loop" /\ sched = <<>> /\ UNCHANGED vars

(* System off, or the endless loop of ble_debug_assert_handler. *)
Stopped == Dead /\ UNCHANGED vars

MainLoop ==
  \/ adv_timeout_handler_stop \/ adv_timeout_handler_start
  \/ sample_start_handler
  \/ update_timeout_handler \/ on_conn_params_evt
  \/ Idle \/ Stopped

Next == Tick \/ BleEvent \/ MainLoop

Spec == Init /\ [][Next]_vars

(* The main loop goes on, and the SoftDevice ends a link it was told to end. *)
FairSpec == Spec /\ WF_vars(MainLoop) /\ WF_vars(radio = "disconnecting" /\ Disconnected)

-----------------------------------------------------------------------------

Handlers == [handler : TimerIds, age : 0 .. MaxLag]

ModeTypes ==
  /\ radio \in {"advertising", "idle", "connected", "disconnecting", "off"}
  /\ advAge \in 0 .. AdvTimeout
  /\ m_conn_handle \in BOOLEAN /\ TEST_LED1 \in BOOLEAN
  /\ updateCount \in 0 .. MaxUpdates
  /\ pc \in {"loop", "adv_start", "on_conn_params_evt", "queue_full", "stale_handle"}

TimerTypes ==
  /\ timers \in [TimerIds -> Nat]
  /\ timers["adv"] <= AdvPeriod
  /\ timers["sample"] <= SamplePeriod
  /\ timers["params"] <= FirstDelay \/ timers["params"] <= NextDelay

TypeOK == ModeTypes /\ TimerTypes /\ sched \in Seq(Handlers)

(* The device switches itself off only when the main loop was held up for    *)
(* half of AdvTimeout with the restart in the scheduler's queue, also when   *)
(* handlers of an earlier advertising are still queued and when links come   *)
(* and go (main.c:139-159, 412-446, 479).                                    *)
OffOnlyIfHeldUp ==
  radio = "off" => \E i \in 1 .. Len(sched) :
                     sched[i].handler = "adv" /\ AdvTimeout <= AdvPeriod + sched[i].age

(* So it never does while the main loop is faster than that: the timer       *)
(* restarts each advertising in time.                                        *)
NeverOff == NotHeldUp => radio # "off"

(* The handle, the LED and the two timers all follow the link, although the  *)
(* interrupt changes them in the middle of handlers that belong to the other *)
(* mode, and the device is silent only inside adv_timeout_handler            *)
(* (main.c:141-142, 413-418, 432-444).                                       *)
ModesAgree ==
  /\ m_conn_handle <=> LinkUp
  /\ TEST_LED1 <=> LinkUp
  /\ timers["sample"] > 0 <=> LinkUp
  /\ timers["adv"] = 0 <=> LinkUp
  /\ radio = "idle" => pc = "adv_start"

(* The inductive invariant: an advertising that began with the running timer *)
(* period will see the timer expire in time, or it already did, and then its *)
(* age is a period and what the handler has waited.                          *)
RestartComing ==
  radio = "advertising" /\ pc # "queue_full" =>
    \/ advAge + timers["adv"] <= AdvPeriod
    \/ \E i \in 1 .. Len(sched) :
         sched[i].handler = "adv" /\ advAge <= AdvPeriod + sched[i].age

RestartInv == TypeOK /\ OffOnlyIfHeldUp /\ ModesAgree /\ RestartComing

(* The handlers of one mode follow each other, since its timer starts when   *)
(* the other one's has stopped; the library's timer goes its own way.        *)
SameLine(h, t) == h = "params" <=> t = "params"

Lesser(a, b) == IF a < b THEN a ELSE b

(* The seconds between two expiries of one line, at the least. *)
Gap(t) == IF t = "params" THEN Lesser(FirstDelay, NextDelay)
                          ELSE Lesser(AdvPeriod, SamplePeriod)

(* The handlers of one line wait in the order of their expiries and a Gap    *)
(* apart, and the next one will come a Gap after the last.                   *)
InTurn(queue) ==
  \A j \in 1 .. Len(queue) : \A i \in 1 .. j - 1 :
    SameLine(queue[i].handler, queue[j].handler)
      => queue[j].age + Gap(queue[j].handler) <= queue[i].age

NextInTurn ==
  \A i \in 1 .. Len(sched) : \A t \in TimerIds :
    SameLine(sched[i].handler, t) /\ timers[t] > 0
      => Gap(t) <= timers[t] + sched[i].age

LifeInv == RestartInv /\ InTurn(sched) /\ NextInTurn

(* The handlers that can wait at once: of each line, one for every Gap that  *)
(* fits into MaxLag and one more.  Not assumed: the theorem that needs the   *)
(* room says so.                                                             *)
RoomEnough == (MaxLag \div Gap("adv")) + (MaxLag \div Gap("params")) + 2 <= SchedQueueSize

(* The scheduler's queue takes every handler: a full one ends in             *)
(* app_error_handler (main.c:64, 204, 551).                                  *)
QueueNeverFull == pc # "queue_full"

(* A device that stopped advertising starts again, and one that gave up on   *)
(* the connection parameters gets rid of the link, or stops on the stale     *)
(* handle (main.c:139-143, 356-365).                                         *)
ComesBack ==
  /\ radio = "idle" ~> radio = "advertising"
  /\ pc = "on_conn_params_evt" ~> (radio = "advertising" \/ pc = "stale_handle")

(* main.c:350 says of on_conn_params_evt "All this function does is to       *)
(* disconnect.": it should not stop the device.                              *)
OnlyDisconnects == pc # "stale_handle"
=============================================================================
