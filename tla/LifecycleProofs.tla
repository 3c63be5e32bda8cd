--------------------------- MODULE LifecycleProofs ---------------------------
(***************************************************************************)
(* Proofs about the life of the device, for every advertising timeout,      *)
(* every sample interval and every wait of a handler.                       *)
(***************************************************************************)
EXTENDS Lifecycle, FiniteSetTheorems, TLAPS

(* What is known of the constants, in the form the provers use. *)
LEMMA Constants ==
  /\ AdvTimeout \in Nat /\ AdvPeriod \in Nat /\ AdvPeriod > 0
  /\ SamplePeriod \in Nat /\ SamplePeriod > 0
  /\ SchedQueueSize \in Nat /\ MaxUpdates \in Nat /\ MaxLag \in Nat
  /\ FirstDelay \in Nat /\ FirstDelay > 0 /\ NextDelay \in Nat /\ NextDelay > 0
  /\ AdvPeriod < AdvTimeout
BY LifecycleAssumption DEF ConstantsInRange, AdvPeriod, SamplePeriod

(* The device as main() sets it up satisfies the invariant. *)
LEMMA InitRestartInv == Init => RestartInv
<1> SUFFICES ASSUME Init PROVE RestartInv
  OBVIOUS
<1>1. ModeTypes
  <2>1. advAge \in 0 .. AdvTimeout /\ updateCount \in 0 .. MaxUpdates
    BY Constants DEF Init
  <2> QED
    BY <2>1, Zenon DEF Init, ModeTypes
<1>2. TimerTypes
  BY Constants DEF Init, TimerTypes, TimerIds
<1>3. sched \in Seq(Handlers)
  BY DEF Init
<1>4. ModesAgree
  <2>1. timers["adv"] > 0 /\ timers["sample"] = 0
    BY Constants DEF Init, TimerIds
  <2> QED
    BY <2>1 DEF Init, ModesAgree, LinkUp
<1>5. RestartComing
  BY Constants DEF Init, RestartComing, TimerIds
<1> QED
  BY <1>1, <1>2, <1>3, <1>4, <1>5 DEF Init, RestartInv, TypeOK, OffOnlyIfHeldUp

(* What one timer puts into a queue. *)
LEMMA PutExpiredProperties ==
  ASSUME NEW queue \in Seq(Handlers), NEW t \in TimerIds
  PROVE  /\ PutExpired(queue, t) \in Seq(Handlers)
         /\ Len(PutExpired(queue, t)) >= Len(queue)
         /\ \A i \in 1 .. Len(queue) : PutExpired(queue, t)[i] = queue[i]
         /\ timers[t] = 1 =>
              /\ Len(PutExpired(queue, t)) = Len(queue) + 1
              /\ PutExpired(queue, t)[Len(queue) + 1] = [handler |-> t, age |-> 0]
<1>1. [handler |-> t, age |-> 0] \in Handlers
  BY Constants DEF Handlers
<1> QED
  BY <1>1 DEF PutExpired

(* What the scheduler's queue holds after a second: the handlers it held,    *)
(* older by one, and those of the timers that expired.                       *)
LEMMA PutProperties ==
  ASSUME TypeOK, \A i \in 1 .. Len(sched) : sched[i].age < MaxLag
  PROVE  /\ Aged \in Seq(Handlers) /\ Put \in Seq(Handlers)
         /\ Len(Put) >= Len(sched)
         /\ \A i \in 1 .. Len(sched) :
              Put[i].handler = sched[i].handler /\ Put[i].age = sched[i].age + 1
         /\ timers["adv"] = 1 =>
              /\ Len(Put) >= Len(sched) + 1
              /\ Put[Len(sched) + 1] = [handler |-> "adv", age |-> 0]
<1>1. Aged \in Seq(Handlers) /\ Len(Aged) = Len(sched)
  <2>1. sched \in Seq(Handlers) /\ Len(sched) \in Nat
    BY DEF TypeOK
  <2>2. \A i \in 1 .. Len(sched) :
          [handler |-> sched[i].handler, age |-> sched[i].age + 1] \in Handlers
    <3> SUFFICES ASSUME NEW i \in 1 .. Len(sched)
                 PROVE  [handler |-> sched[i].handler, age |-> sched[i].age + 1] \in Handlers
      OBVIOUS
    <3>1. sched[i] \in Handlers /\ sched[i].age < MaxLag
      BY <2>1
    <3>2. sched[i].handler \in TimerIds /\ sched[i].age + 1 \in 0 .. MaxLag
      BY <3>1, Constants DEF Handlers
    <3> QED
      BY <3>2 DEF Handlers
  <2> QED
    BY <2>1, <2>2 DEF Aged
<1>2. \A i \in 1 .. Len(sched) :
        Aged[i].handler = sched[i].handler /\ Aged[i].age = sched[i].age + 1
  BY DEF Aged
<1> DEFINE b == PutExpired(Aged, "adv")
           c == PutExpired(b, "sample")
<1>3. /\ b \in Seq(Handlers) /\ Len(b) >= Len(Aged)
      /\ \A i \in 1 .. Len(Aged) : b[i] = Aged[i]
      /\ timers["adv"] = 1 =>
           Len(b) = Len(Aged) + 1 /\ b[Len(Aged) + 1] = [handler |-> "adv", age |-> 0]
  BY <1>1, PutExpiredProperties DEF TimerIds
<1> HIDE DEF b
<1>4. /\ c \in Seq(Handlers) /\ Len(c) >= Len(b)
      /\ \A i \in 1 .. Len(b) : c[i] = b[i]
  BY <1>3, PutExpiredProperties DEF TimerIds
<1> HIDE DEF c
<1>5. /\ Put \in Seq(Handlers) /\ Len(Put) >= Len(c)
      /\ \A i \in 1 .. Len(c) : Put[i] = c[i]
  BY <1>4, PutExpiredProperties DEF TimerIds, Put, b, c
<1>6. Len(sched) \in Nat /\ Len(b) \in Nat /\ Len(c) \in Nat /\ Len(Put) \in Nat
  BY <1>3, <1>4, <1>5 DEF TypeOK
<1>7. \A i \in 1 .. Len(b) : Put[i] = b[i]
  BY <1>4, <1>5, <1>6
<1>8. /\ Len(Put) >= Len(sched)
      /\ \A i \in 1 .. Len(sched) : Put[i] = Aged[i]
      /\ timers["adv"] = 1 =>
           Len(Put) >= Len(sched) + 1 /\ Put[Len(sched) + 1] = [handler |-> "adv", age |-> 0]
  BY <1>1, <1>3, <1>4, <1>5, <1>6, <1>7
<1> QED
  BY <1>1, <1>2, <1>5, <1>8

-----------------------------------------------------------------------------

(* A second passes: the advertising is a second older, and so is the handler *)
(* that will restart it, or its timer has a second less to go.               *)
LEMMA TickInv ==
  ASSUME RestartInv, Tick
  PROVE  RestartInv'
<1>0. ModeTypes /\ TimerTypes /\ sched \in Seq(Handlers) /\ TypeOK
  BY DEF RestartInv, TypeOK
<1>1. \A i \in 1 .. Len(sched) : sched[i].age < MaxLag
  BY DEF Tick
<1>2. /\ Aged \in Seq(Handlers) /\ Put \in Seq(Handlers) /\ Len(Put) >= Len(sched)
      /\ \A i \in 1 .. Len(sched) :
           Put[i].handler = sched[i].handler /\ Put[i].age = sched[i].age + 1
      /\ timers["adv"] = 1 =>
           Len(Put) >= Len(sched) + 1 /\ Put[Len(sched) + 1] = [handler |-> "adv", age |-> 0]
  BY <1>0, <1>1, PutProperties
<1>3. ModeTypes'
  <2>1. advAge' \in 0 .. AdvTimeout
    BY <1>0, Constants DEF Tick, ModeTypes
  <2>2. pc' \in {"loop", "queue_full"}
    BY DEF Tick
  <2> QED
    BY <1>0, <2>1, <2>2, Zenon DEF Tick, ModeTypes
<1>4. /\ TimerTypes'
      /\ timers["sample"] > 0 <=> timers'["sample"] > 0
      /\ timers["adv"] > 0 <=> timers'["adv"] > 0
      /\ timers["adv"] > 1 => timers'["adv"] = timers["adv"] - 1
  <2>1. timers' = [t \in TimerIds |->
                     CASE timers[t] > 1 -> timers[t] - 1
                       [] timers[t] = 1 /\ t # "params" -> Period(t)
                       [] OTHER -> 0]
    BY DEF Tick
  <2>2. /\ timers["adv"] \in Nat /\ timers["sample"] \in Nat /\ timers["params"] \in Nat
    BY <1>0 DEF TimerTypes, TimerIds
  <2>3. timers'["adv"] = IF timers["adv"] > 1 THEN timers["adv"] - 1
                         ELSE IF timers["adv"] = 1 THEN AdvPeriod ELSE 0
    BY <2>1, <2>2 DEF TimerIds, Period
  <2>4. timers'["sample"] = IF timers["sample"] > 1 THEN timers["sample"] - 1
                            ELSE IF timers["sample"] = 1 THEN SamplePeriod ELSE 0
    BY <2>1, <2>2 DEF TimerIds, Period
  <2>5. timers'["params"] = IF timers["params"] > 1 THEN timers["params"] - 1 ELSE 0
    BY <2>1, <2>2 DEF TimerIds
  <2>6. timers' \in [TimerIds -> Nat]
    BY <2>1, <2>2, <2>3, <2>4, <2>5, Constants DEF TimerIds
  <2> QED
    BY <1>0, <2>2, <2>3, <2>4, <2>5, <2>6, Constants DEF TimerTypes
<1>5. sched' \in Seq(Handlers)
  BY <1>2 DEF Tick
<1>6. ModesAgree'
  <2>1. radio # "idle" /\ UNCHANGED <<radio, m_conn_handle, TEST_LED1>>
    BY DEF Tick, RestartInv, ModesAgree
  <2>2. timers["adv"] \in Nat /\ timers'["adv"] \in Nat
    BY <1>0, <1>4 DEF TimerTypes, TimerIds
  <2>3. timers["adv"] = 0 <=> timers'["adv"] = 0
    BY <1>4, <2>2
  <2> QED
    BY <1>4, <2>1, <2>3, Zenon DEF RestartInv, ModesAgree, LinkUp
<1>7. RestartComing'
  <2> SUFFICES ASSUME radio' = "advertising", pc' # "queue_full"
               PROVE  \/ advAge' + timers'["adv"] <= AdvPeriod
                      \/ \E i \in 1 .. Len(sched') :
                           sched'[i].handler = "adv" /\ advAge' <= AdvPeriod + sched'[i].age
    BY DEF RestartComing
  <2>1. /\ radio = "advertising" /\ advAge' = advAge + 1 /\ sched' = Put
        /\ advAge \in Nat /\ timers["adv"] \in Nat /\ timers["adv"] > 0
        /\ Len(sched) \in Nat /\ Len(Put) \in Nat
    BY <1>0, <1>2 DEF Tick, ModeTypes, TimerTypes, TimerIds, RestartInv, ModesAgree, LinkUp
  <2>2. \/ advAge + timers["adv"] <= AdvPeriod
        \/ \E i \in 1 .. Len(sched) :
             sched[i].handler = "adv" /\ advAge <= AdvPeriod + sched[i].age
    BY <2>1 DEF RestartInv, RestartComing, Tick
  <2>3. CASE advAge + timers["adv"] <= AdvPeriod /\ timers["adv"] > 1
    BY <1>4, <2>1, <2>3, Constants
  <2>4. CASE advAge + timers["adv"] <= AdvPeriod /\ timers["adv"] = 1
    <3>1. /\ Len(sched) + 1 \in 1 .. Len(sched') /\ sched'[Len(sched) + 1].handler = "adv"
          /\ sched'[Len(sched) + 1].age = 0
      BY <1>2, <2>1, <2>4
    <3>2. advAge' <= AdvPeriod + 0
      BY <2>1, <2>4, Constants
    <3> QED
      BY <3>1, <3>2
  <2>5. CASE \E i \in 1 .. Len(sched) :
               sched[i].handler = "adv" /\ advAge <= AdvPeriod + sched[i].age
    <3>1. PICK i \in 1 .. Len(sched) :
            sched[i].handler = "adv" /\ advAge <= AdvPeriod + sched[i].age
      BY <2>5
    <3>2. i \in 1 .. Len(sched') /\ sched[i].age \in Nat
      <4>1. sched[i] \in Handlers
        BY <1>0
      <4>2. sched[i].age \in Nat
        BY <4>1, Constants DEF Handlers
      <4> QED
        BY <1>2, <2>1, <4>2
    <3>3. sched'[i].handler = "adv" /\ advAge' <= AdvPeriod + sched'[i].age
      BY <1>2, <2>1, <3>1, <3>2, Constants
    <3> QED
      BY <3>2, <3>3
  <2> QED
    BY <2>1, <2>2, <2>3, <2>4, <2>5
<1> QED
  BY <1>3, <1>4, <1>5, <1>6, <1>7 DEF RestartInv, TypeOK, OffOnlyIfHeldUp, Tick, Dead

(* An event of the link. *)
LEMMA BleEventInv ==
  ASSUME RestartInv, BleEvent
  PROVE  RestartInv'
<1>0. /\ ModeTypes /\ TimerTypes /\ sched \in Seq(Handlers)
      /\ ModesAgree /\ RestartComing /\ OffOnlyIfHeldUp
  BY DEF RestartInv, TypeOK
<1>1. CASE Connected
  <2>1. ModeTypes'
    <3>1. advAge' \in 0 .. AdvTimeout /\ updateCount' \in 0 .. MaxUpdates
      BY <1>1, Constants DEF Connected
    <3> QED
      BY <1>0, <1>1, <3>1, Zenon DEF Connected, ModeTypes
  <2>2. /\ TimerTypes' /\ timers'["adv"] = 0 /\ timers'["sample"] > 0
    <3>1. PICK negotiation \in {0, NegotiationDelay} :
            timers' = [timers EXCEPT !["adv"] = 0, !["sample"] = sample_timers_start,
                                     !["params"] = negotiation]
      BY <1>1 DEF Connected
    <3>2. negotiation \in Nat /\ (negotiation <= FirstDelay \/ negotiation <= NextDelay)
      BY Constants DEF NegotiationDelay
    <3>3. sample_timers_start \in Nat /\ sample_timers_start > 0 /\ sample_timers_start <= SamplePeriod
      BY <1>0, Constants DEF sample_timers_start, Started, TimerTypes, TimerIds
    <3> QED
      BY <1>0, <3>1, <3>2, <3>3, Constants DEF TimerTypes, TimerIds
  <2>3. ModesAgree'
    <3>1. LinkUp'
      BY <1>1 DEF Connected, LinkUp
    <3>2. m_conn_handle' /\ TEST_LED1' /\ radio' # "idle"
      BY <1>1 DEF Connected
    <3> QED
      BY <2>2, <3>1, <3>2, Zenon DEF ModesAgree
  <2>4. RestartComing' /\ sched' \in Seq(Handlers) /\ OffOnlyIfHeldUp'
    BY <1>0, <1>1 DEF Connected, RestartComing, OffOnlyIfHeldUp
  <2> QED
    BY <2>1, <2>2, <2>3, <2>4 DEF RestartInv, TypeOK
<1>2. CASE Disconnected
  <2>1. ModeTypes'
    <3>1. advAge' \in 0 .. AdvTimeout /\ updateCount' \in 0 .. MaxUpdates
      BY <1>2, Constants DEF Disconnected
    <3> QED
      BY <1>0, <1>2, <3>1, Zenon DEF Disconnected, ModeTypes
  <2>2. /\ TimerTypes' /\ timers'["adv"] = AdvPeriod /\ timers'["sample"] = 0
    <3>1. timers["adv"] = 0
      BY <1>0, <1>2 DEF Disconnected, ModesAgree
    <3>2. timers' = [timers EXCEPT !["sample"] = 0, !["adv"] = AdvPeriod, !["params"] = 0]
      BY <1>2, <3>1 DEF Disconnected, adv_timers_start, Started
    <3> QED
      BY <1>0, <3>2, Constants DEF TimerTypes, TimerIds
  <2>3. ModesAgree'
    <3>1. ~LinkUp'
      BY <1>2 DEF Disconnected, LinkUp
    <3>2. ~m_conn_handle' /\ ~TEST_LED1' /\ radio' # "idle"
      BY <1>2 DEF Disconnected
    <3>3. ~(timers'["sample"] > 0) /\ timers'["adv"] # 0
      BY <2>2, Constants
    <3> QED
      BY <3>1, <3>2, <3>3, Zenon DEF ModesAgree
  <2>4. RestartComing'
    BY <1>2, <2>2, Constants DEF Disconnected, RestartComing
  <2>5. sched' \in Seq(Handlers) /\ OffOnlyIfHeldUp'
    BY <1>0, <1>2 DEF Disconnected, OffOnlyIfHeldUp
  <2> QED
    BY <2>1, <2>2, <2>3, <2>4, <2>5 DEF RestartInv, TypeOK
<1>3. CASE AdvertisingTimeout
  <2>1. radio = "advertising" /\ advAge = AdvTimeout /\ pc # "queue_full"
    BY <1>3 DEF AdvertisingTimeout, Dead
  <2>2. timers["adv"] \in Nat
    BY <1>0 DEF TimerTypes, TimerIds
  <2>3. ~(advAge + timers["adv"] <= AdvPeriod)
    BY <2>1, <2>2, Constants
  <2>4. OffOnlyIfHeldUp'
    BY <1>0, <1>3, <2>1, <2>3 DEF RestartComing, OffOnlyIfHeldUp, AdvertisingTimeout
  <2>5. ModeTypes' /\ TimerTypes' /\ sched' \in Seq(Handlers)
    <3>1. advAge' \in 0 .. AdvTimeout /\ updateCount' \in 0 .. MaxUpdates
      BY <1>0, <1>3 DEF AdvertisingTimeout, ModeTypes
    <3> QED
      BY <1>0, <1>3, <3>1, Zenon DEF AdvertisingTimeout, ModeTypes, TimerTypes
  <2>6. ModesAgree'
    <3>1. ~LinkUp /\ ~LinkUp' /\ radio' # "idle" /\ ~TEST_LED1'
      BY <1>3 DEF AdvertisingTimeout, LinkUp
    <3> QED
      BY <1>0, <1>3, <3>1, Zenon DEF ModesAgree, AdvertisingTimeout
  <2>7. RestartComing'
    BY <1>3 DEF AdvertisingTimeout, RestartComing
  <2> QED
    BY <2>4, <2>5, <2>6, <2>7 DEF RestartInv, TypeOK
<1>4. CASE ParametersChanged
  <2>1. /\ UNCHANGED <<radio, advAge, m_conn_handle, TEST_LED1, sched, updateCount, pc>>
        /\ radio = "connected"
    BY <1>4, Zenon DEF ParametersChanged
  <2>2. PICK left \in {timers["params"], Started("params", NegotiationDelay)} :
          timers' = [timers EXCEPT !["params"] = left]
    BY <1>4 DEF ParametersChanged
  <2>3. left \in Nat /\ (left <= FirstDelay \/ left <= NextDelay)
    BY <1>0, <2>2, Constants DEF Started, NegotiationDelay, TimerTypes, TimerIds
  <2>4. /\ TimerTypes' /\ timers'["adv"] = timers["adv"] /\ timers'["sample"] = timers["sample"]
    BY <1>0, <2>2, <2>3 DEF TimerTypes, TimerIds
  <2>5. ModeTypes' /\ OffOnlyIfHeldUp' /\ sched' \in Seq(Handlers)
    BY <1>0, <2>1, Zenon DEF ModeTypes, OffOnlyIfHeldUp
  <2>6. ModesAgree'
    BY <1>0, <2>1, <2>4, Zenon DEF ModesAgree, LinkUp
  <2>7. RestartComing'
    BY <2>1 DEF RestartComing
  <2> QED
    BY <2>4, <2>5, <2>6, <2>7 DEF RestartInv, TypeOK
<1> QED
  BY <1>1, <1>2, <1>3, <1>4 DEF BleEvent

(* The handlers left when the first one is taken out. *)
LEMMA SchedTail ==
  ASSUME sched \in Seq(Handlers), sched # <<>>
  PROVE  /\ Tail(sched) \in Seq(Handlers) /\ Len(sched) \in Nat \ {0}
         /\ Len(Tail(sched)) = Len(sched) - 1
         /\ Head(sched) = sched[1]
         /\ \A i \in 1 .. Len(sched) - 1 : Tail(sched)[i] = sched[i + 1]
OBVIOUS

(* A handler that is not the advertising timer's is taken out: the one that  *)
(* will restart the advertising is still there.                              *)
LEMMA OtherHandlerTaken ==
  ASSUME RestartInv, NEW h \in {"sample", "params"}, TakeHandler(h),
         UNCHANGED <<radio, advAge, timers>>, pc' # "queue_full"
  PROVE  RestartComing' /\ sched' \in Seq(Handlers)
<1>1. /\ sched \in Seq(Handlers) /\ sched # <<>> /\ sched' = Tail(sched)
      /\ sched[1].handler # "adv" /\ pc = "loop"
  BY SchedTail DEF RestartInv, TypeOK, TakeHandler
<1>2. sched' \in Seq(Handlers)
  BY <1>1, SchedTail
<1>3. ASSUME NEW i \in 1 .. Len(sched), sched[i].handler = "adv"
      PROVE  i - 1 \in 1 .. Len(sched') /\ sched'[i - 1] = sched[i]
  BY <1>1, <1>3, SchedTail
<1>4. RestartComing'
  BY <1>1, <1>3 DEF RestartInv, RestartComing
<1> QED
  BY <1>2, <1>4

(* A step that changes nothing. *)
LEMMA StutterInv ==
  ASSUME RestartInv, UNCHANGED vars
  PROVE  RestartInv'
BY DEF vars, RestartInv, TypeOK, ModeTypes, TimerTypes, OffOnlyIfHeldUp, ModesAgree, RestartComing, LinkUp

(* A step of the main loop. *)
LEMMA MainLoopInv ==
  ASSUME RestartInv, MainLoop
  PROVE  RestartInv'
<1>0. /\ ModeTypes /\ TimerTypes /\ sched \in Seq(Handlers)
      /\ ModesAgree /\ RestartComing /\ OffOnlyIfHeldUp
  BY DEF RestartInv, TypeOK
<1>1. CASE adv_timeout_handler_stop
  <2>1. /\ radio' = IF radio = "advertising" THEN "idle" ELSE radio
        /\ advAge' = IF radio = "advertising" THEN 0 ELSE advAge
        /\ pc' = "adv_start" /\ sched' = Tail(sched) /\ sched # <<>> /\ radio' # "off"
        /\ UNCHANGED <<m_conn_handle, TEST_LED1, timers, updateCount>>
    BY <1>1 DEF adv_timeout_handler_stop, TakeHandler, Dead
  <2>2. advAge' \in 0 .. AdvTimeout
    BY <1>0, <2>1, Constants DEF ModeTypes
  <2>3. ModeTypes' /\ OffOnlyIfHeldUp'
    BY <1>0, <2>1, <2>2, Zenon DEF ModeTypes, OffOnlyIfHeldUp
  <2>4. TimerTypes'
    BY <1>0, <2>1 DEF TimerTypes
  <2>5. sched' \in Seq(Handlers)
    BY <1>0, <2>1, SchedTail
  <2>6. ModesAgree'
    <3>1. LinkUp' <=> LinkUp
      BY <2>1 DEF LinkUp
    <3> QED
      BY <1>0, <2>1, <3>1, Zenon DEF ModesAgree
  <2>7. RestartComing'
    BY <2>1 DEF RestartComing
  <2> QED
    BY <2>3, <2>4, <2>5, <2>6, <2>7 DEF RestartInv, TypeOK
<1>2. CASE adv_timeout_handler_start
  <2>1. /\ pc = "adv_start" /\ pc' = "loop"
        /\ UNCHANGED <<m_conn_handle, TEST_LED1, timers, sched, updateCount>>
        /\ \/ radio = "idle" /\ radio' = "advertising" /\ advAge' = 0
           \/ radio # "idle" /\ radio' = radio /\ advAge' = advAge
    BY <1>2 DEF adv_timeout_handler_start, advertising_start
  <2>2. advAge' \in 0 .. AdvTimeout
    BY <1>0, <2>1, Constants DEF ModeTypes
  <2>3. ModeTypes' /\ OffOnlyIfHeldUp'
    BY <1>0, <2>1, <2>2, Zenon DEF ModeTypes, OffOnlyIfHeldUp
  <2>4. TimerTypes' /\ sched' \in Seq(Handlers)
    BY <1>0, <2>1 DEF TimerTypes
  <2>5. ModesAgree'
    <3>1. LinkUp' <=> LinkUp
      BY <2>1 DEF LinkUp
    <3>2. radio' # "idle"
      BY <2>1
    <3> QED
      BY <1>0, <2>1, <3>1, <3>2, Zenon DEF ModesAgree
  <2>6. RestartComing'
    <3>1. timers["adv"] \in Nat /\ timers["adv"] <= AdvPeriod
      BY <1>0 DEF TimerTypes, TimerIds
    <3> QED
      BY <1>0, <2>1, <3>1, Constants DEF RestartComing
  <2> QED
    BY <2>3, <2>4, <2>5, <2>6 DEF RestartInv, TypeOK
<1>3. CASE sample_start_handler
  <2>1. /\ UNCHANGED <<radio, advAge, m_conn_handle, TEST_LED1, timers, updateCount, pc>>
        /\ TakeHandler("sample") /\ pc' # "queue_full" /\ radio' # "off"
    BY <1>3 DEF sample_start_handler, TakeHandler, Dead
  <2>2. RestartComing' /\ sched' \in Seq(Handlers)
    BY <2>1, OtherHandlerTaken
  <2>3. ModeTypes' /\ TimerTypes' /\ ModesAgree' /\ OffOnlyIfHeldUp'
    BY <1>0, <2>1, Zenon DEF ModeTypes, TimerTypes, ModesAgree, OffOnlyIfHeldUp, LinkUp
  <2> QED
    BY <2>2, <2>3 DEF RestartInv, TypeOK
<1>4. CASE update_timeout_handler
  <2>1. /\ UNCHANGED <<radio, advAge, m_conn_handle, TEST_LED1, timers>>
        /\ TakeHandler("params") /\ pc = "loop" /\ pc' \in {"loop", "on_conn_params_evt"}
        /\ radio' # "off"
    BY <1>4 DEF update_timeout_handler, TakeHandler, Dead
  <2>2. RestartComing' /\ sched' \in Seq(Handlers)
    BY <2>1, OtherHandlerTaken
  <2>3. updateCount' \in 0 .. MaxUpdates
    BY <1>0, <1>4, Constants DEF update_timeout_handler, ModeTypes
  <2>4. ModeTypes' /\ OffOnlyIfHeldUp'
    BY <1>0, <2>1, <2>3, Zenon DEF ModeTypes, OffOnlyIfHeldUp
  <2>5. TimerTypes'
    BY <1>0, <2>1 DEF TimerTypes
  <2>6. ModesAgree'
    <3>1. radio' # "idle"
      BY <1>0, <2>1 DEF ModesAgree
    <3> QED
      BY <1>0, <2>1, <3>1, Zenon DEF ModesAgree, LinkUp
  <2> QED
    BY <2>2, <2>4, <2>5, <2>6 DEF RestartInv, TypeOK
<1>5. CASE on_conn_params_evt
  <2>1. /\ UNCHANGED <<advAge, m_conn_handle, TEST_LED1, timers, sched, updateCount>>
        /\ pc = "on_conn_params_evt"
        /\ \/ radio = "connected" /\ radio' = "disconnecting" /\ pc' = "loop"
           \/ radio # "connected" /\ radio' = radio /\ pc' = "stale_handle"
    BY <1>5 DEF on_conn_params_evt
  <2>2. ModeTypes' /\ OffOnlyIfHeldUp'
    BY <1>0, <2>1, Zenon DEF ModeTypes, OffOnlyIfHeldUp
  <2>3. TimerTypes' /\ sched' \in Seq(Handlers)
    BY <1>0, <2>1 DEF TimerTypes
  <2>4. ModesAgree'
    <3>1. (LinkUp' <=> LinkUp) /\ radio' # "idle"
      BY <1>0, <2>1 DEF LinkUp, ModesAgree
    <3> QED
      BY <1>0, <2>1, <3>1, Zenon DEF ModesAgree
  <2>5. RestartComing'
    BY <1>0, <2>1 DEF RestartComing
  <2> QED
    BY <2>2, <2>3, <2>4, <2>5 DEF RestartInv, TypeOK
<1>6. CASE Idle \/ Stopped
  BY <1>6, StutterInv DEF Idle, Stopped
<1> QED
  BY <1>1, <1>2, <1>3, <1>4, <1>5, <1>6 DEF MainLoop

-----------------------------------------------------------------------------

(* The handlers that wait.  What is known of the gaps between them. *)
LEMMA Gaps ==
  /\ \A t \in TimerIds : Gap(t) \in Nat /\ Gap(t) > 0
  /\ Gap("adv") <= AdvPeriod /\ Gap("adv") <= SamplePeriod /\ Gap("sample") = Gap("adv")
  /\ Gap("params") <= FirstDelay /\ Gap("params") <= NextDelay
BY Constants DEF Gap, Lesser, TimerIds

(* Two timers of one line have one period.                                     *)
LEMMA SameLineGap ==
  ASSUME NEW h \in TimerIds, NEW t \in TimerIds, SameLine(h, t)
  PROVE  Gap(h) = Gap(t)
BY DEF SameLine, Gap, TimerIds

(* An expiry of t finds the last handler of its line a Gap old. *)
Ready(queue, t) ==
  timers[t] = 1 => \A i \in 1 .. Len(queue) :
                     SameLine(queue[i].handler, t) => Gap(t) <= queue[i].age

(* The handler of a timer that expires takes its turn. *)
LEMMA PutInTurn ==
  ASSUME NEW queue \in Seq(Handlers), InTurn(queue), NEW t \in TimerIds, Ready(queue, t)
  PROVE  /\ InTurn(PutExpired(queue, t))
         /\ \A i \in 1 .. Len(PutExpired(queue, t)) :
              \/ i \in 1 .. Len(queue) /\ PutExpired(queue, t)[i] = queue[i]
              \/ timers[t] = 1 /\ PutExpired(queue, t)[i] = [handler |-> t, age |-> 0]
<1> DEFINE new == PutExpired(queue, t)
           h == [handler |-> t, age |-> 0]
<1>1. CASE timers[t] # 1
  BY <1>1 DEF PutExpired
<1>2. CASE timers[t] = 1
  <2>1. new = Append(queue, h) /\ h \in Handlers
    BY <1>2, Constants DEF PutExpired, Handlers
  <2>2. /\ Len(new) = Len(queue) + 1 /\ Len(queue) \in Nat
        /\ new[Len(queue) + 1] = h
        /\ \A i \in 1 .. Len(queue) : new[i] = queue[i]
    BY <2>1
  <2> HIDE DEF new
  <2>3. ASSUME NEW j \in 1 .. Len(new), NEW i \in 1 .. j - 1,
               SameLine(new[i].handler, new[j].handler)
        PROVE  new[j].age + Gap(new[j].handler) <= new[i].age
    <3>1. CASE j \in 1 .. Len(queue)
      BY <2>2, <2>3, <3>1 DEF InTurn
    <3>2. CASE j = Len(queue) + 1
      <4>1. new[j] = h /\ i \in 1 .. Len(queue) /\ new[i] = queue[i]
        BY <2>2, <3>2
      <4>2. Gap(t) <= queue[i].age
        BY <1>2, <2>3, <4>1 DEF Ready
      <4> QED
        BY <4>1, <4>2, Gaps
    <3> QED
      BY <2>2, <3>1, <3>2
  <2>4. InTurn(new)
    BY <2>3 DEF InTurn
  <2>5. \A i \in 1 .. Len(new) :
          (i \in 1 .. Len(queue) /\ new[i] = queue[i]) \/ new[i] = h
    BY <2>2
  <2> QED
    BY <1>2, <2>4, <2>5 DEF new
<1> QED
  BY <1>1, <1>2

(* It leaves a timer of the other line, or one that does not expire, ready.  *)
LEMMA PutLeavesReady ==
  ASSUME NEW queue \in Seq(Handlers), InTurn(queue), NEW t \in TimerIds, Ready(queue, t),
         NEW u \in TimerIds, Ready(queue, u),
         timers[t] = 1 /\ timers[u] = 1 => ~SameLine(t, u)
  PROVE  Ready(PutExpired(queue, t), u)
<1> DEFINE new == PutExpired(queue, t)
<1>1. \A i \in 1 .. Len(new) :
        \/ i \in 1 .. Len(queue) /\ new[i] = queue[i]
        \/ timers[t] = 1 /\ new[i] = [handler |-> t, age |-> 0]
  BY PutInTurn
<1> HIDE DEF new
<1> SUFFICES ASSUME timers[u] = 1, NEW i \in 1 .. Len(new), SameLine(new[i].handler, u)
             PROVE  Gap(u) <= new[i].age
  BY DEF Ready, new
<1> QED
  BY <1>1 DEF Ready

(* The timers of the two modes never run at the same time. *)
LEMMA OneMode ==
  ASSUME RestartInv, NEW t \in TimerIds, NEW u \in TimerIds, t # u, SameLine(t, u)
  PROVE  ~(timers[t] > 0 /\ timers[u] > 0)
<1>1. timers["adv"] \in Nat /\ timers["sample"] \in Nat
  BY DEF RestartInv, TypeOK, TimerTypes, TimerIds
<1>2. ~(timers["adv"] > 0 /\ timers["sample"] > 0)
  BY <1>1 DEF RestartInv, ModesAgree
<1>3. {t, u} = {"adv", "sample"}
  BY DEF SameLine, TimerIds
<1> QED
  BY <1>2, <1>3

(* What waits stays in turn, and what expires comes after it. *)
LEMMA PutStaysInTurn ==
  ASSUME RestartInv, InTurn(sched), NextInTurn, Tick
  PROVE  /\ Aged \in Seq(Handlers) /\ InTurn(Aged) /\ InTurn(Put)
         /\ \A i \in 1 .. Len(Put) :
              \/ i \in 1 .. Len(Aged) /\ Put[i] = Aged[i]
              \/ \E u \in TimerIds : timers[u] = 1 /\ Put[i] = [handler |-> u, age |-> 0]
<1>0. ModeTypes /\ TimerTypes /\ sched \in Seq(Handlers) /\ TypeOK
  BY DEF RestartInv, TypeOK
<1>1. Aged \in Seq(Handlers) /\ Len(Aged) = Len(sched) /\ Len(sched) \in Nat
  BY <1>0, PutProperties DEF Tick, Aged
<1>2. ASSUME NEW i \in 1 .. Len(sched)
      PROVE  /\ Aged[i].handler = sched[i].handler /\ Aged[i].age = sched[i].age + 1
             /\ sched[i].handler \in TimerIds /\ sched[i].age \in Nat
  <2>1. sched[i] \in Handlers
    BY <1>0
  <2> QED
    BY <1>1, <2>1, Constants DEF Aged, Handlers
<1>3. InTurn(Aged)
  <2> SUFFICES ASSUME NEW j \in 1 .. Len(sched), NEW i \in 1 .. j - 1,
                      SameLine(sched[i].handler, sched[j].handler)
               PROVE  sched[j].age + 1 + Gap(sched[j].handler) <= sched[i].age + 1
    BY <1>1, <1>2 DEF InTurn
  <2>1. i \in 1 .. Len(sched)
    BY <1>1
  <2>2. sched[j].age + Gap(sched[j].handler) <= sched[i].age
    BY DEF InTurn
  <2>3. Gap(sched[j].handler) \in Nat /\ sched[i].age \in Nat /\ sched[j].age \in Nat
    BY <1>2, <2>1, Gaps
  <2> QED
    BY <2>2, <2>3
<1>4. \A t \in TimerIds : timers[t] \in Nat /\ timers'[t] \in Nat
  BY <1>0, TickInv DEF RestartInv, TypeOK, TimerTypes
<1>5. \A t \in TimerIds : Ready(Aged, t)
  BY <1>1, <1>2, <1>4 DEF Ready, NextInTurn
<1> DEFINE b == PutExpired(Aged, "adv")
           c == PutExpired(b, "sample")
<1>6. /\ b \in Seq(Handlers) /\ InTurn(b)
      /\ \A i \in 1 .. Len(b) :
           \/ i \in 1 .. Len(Aged) /\ b[i] = Aged[i]
           \/ timers["adv"] = 1 /\ b[i] = [handler |-> "adv", age |-> 0]
  BY <1>1, <1>3, <1>5, PutExpiredProperties, PutInTurn DEF TimerIds
<1>7. Ready(b, "sample") /\ Ready(b, "params")
  <2>1. ~(timers["adv"] = 1 /\ timers["sample"] = 1)
    BY OneMode DEF TimerIds, SameLine
  <2> QED
    BY <1>1, <1>3, <1>5, <2>1, PutLeavesReady DEF TimerIds, SameLine
<1> HIDE DEF b
<1>8. /\ c \in Seq(Handlers) /\ InTurn(c) /\ Ready(c, "params")
      /\ \A i \in 1 .. Len(c) :
           \/ i \in 1 .. Len(b) /\ c[i] = b[i]
           \/ timers["sample"] = 1 /\ c[i] = [handler |-> "sample", age |-> 0]
  BY <1>6, <1>7, PutExpiredProperties, PutInTurn, PutLeavesReady DEF TimerIds, SameLine
<1> HIDE DEF c
<1>9. /\ InTurn(Put)
      /\ \A i \in 1 .. Len(Put) :
           \/ i \in 1 .. Len(c) /\ Put[i] = c[i]
           \/ timers["params"] = 1 /\ Put[i] = [handler |-> "params", age |-> 0]
  BY <1>8, PutExpiredProperties, PutInTurn DEF TimerIds, Put, b, c
<1>10. \A i \in 1 .. Len(Put) :
         \/ i \in 1 .. Len(Aged) /\ Put[i] = Aged[i]
         \/ \E u \in TimerIds : timers[u] = 1 /\ Put[i] = [handler |-> u, age |-> 0]
  BY <1>6, <1>8, <1>9 DEF TimerIds
<1> QED
  BY <1>1, <1>3, <1>9, <1>10

(* A second passes: the timers that start again have their whole period to    *)
(* go.                                                                        *)
LEMMA TickInTurn ==
  ASSUME RestartInv, InTurn(sched), NextInTurn, Tick
  PROVE  InTurn(sched)' /\ NextInTurn'
<1>0. ModeTypes /\ TimerTypes /\ sched \in Seq(Handlers) /\ TypeOK
  BY DEF RestartInv, TypeOK
<1>1. Aged \in Seq(Handlers) /\ Len(Aged) = Len(sched) /\ Len(sched) \in Nat
  BY <1>0, PutProperties DEF Tick, Aged
<1>2. ASSUME NEW i \in 1 .. Len(sched)
      PROVE  /\ Aged[i].handler = sched[i].handler /\ Aged[i].age = sched[i].age + 1
             /\ sched[i].handler \in TimerIds /\ sched[i].age \in Nat
  <2>1. sched[i] \in Handlers
    BY <1>0
  <2> QED
    BY <1>1, <2>1, Constants DEF Aged, Handlers
<1>4. \A t \in TimerIds : timers[t] \in Nat /\ timers'[t] \in Nat
  BY <1>0, TickInv DEF RestartInv, TypeOK, TimerTypes
<1>5. /\ InTurn(Aged) /\ InTurn(Put)
      /\ \A i \in 1 .. Len(Put) :
           \/ i \in 1 .. Len(Aged) /\ Put[i] = Aged[i]
           \/ \E u \in TimerIds : timers[u] = 1 /\ Put[i] = [handler |-> u, age |-> 0]
  BY PutStaysInTurn
<1>11. sched' \in {Aged, Put}
  BY DEF Tick
<1>12. InTurn(sched)'
  BY <1>5, <1>11 DEF InTurn
<1>13. ASSUME NEW t \in TimerIds, timers'[t] > 0
       PROVE  /\ timers[t] > 0
              /\ timers'[t] = timers[t] - 1 \/ Gap(t) <= timers'[t]
  <2>1. timers' = [u \in TimerIds |->
                     CASE timers[u] > 1 -> timers[u] - 1
                       [] timers[u] = 1 /\ u # "params" -> Period(u)
                       [] OTHER -> 0]
    BY DEF Tick
  <2>2. timers'[t] = IF timers[t] > 1 THEN timers[t] - 1
                     ELSE IF timers[t] = 1 /\ t # "params" THEN Period(t) ELSE 0
    BY <1>4, <2>1
  <2>3. t # "params" => Gap(t) <= Period(t)
    BY Gaps DEF Period, TimerIds
  <2> QED
    BY <1>4, <1>13, <2>2, <2>3
<1>14. NextInTurn'
  <2> SUFFICES ASSUME NEW i \in 1 .. Len(sched'), NEW t \in TimerIds,
                      SameLine(sched'[i].handler, t), timers'[t] > 0
               PROVE  Gap(t) <= timers'[t] + sched'[i].age
    BY DEF NextInTurn, SameLine, Gap, Lesser
  <2>1. Gap(t) \in Nat
    BY Gaps
  <2>2. \/ i \in 1 .. Len(Aged) /\ sched'[i] = Aged[i]
        \/ \E u \in TimerIds : timers[u] = 1 /\ sched'[i] = [handler |-> u, age |-> 0]
    BY <1>5, <1>11
  <2>3. CASE i \in 1 .. Len(Aged) /\ sched'[i] = Aged[i]
    <3>1. /\ sched'[i].handler = sched[i].handler /\ sched'[i].age = sched[i].age + 1
          /\ sched[i].age \in Nat /\ i \in 1 .. Len(sched)
      BY <1>1, <1>2, <2>3
    <3>2. timers[t] > 0 /\ (timers'[t] = timers[t] - 1 \/ Gap(t) <= timers'[t])
      BY <1>13
    <3>3. Gap(t) <= timers[t] + sched[i].age
      BY <3>1, <3>2 DEF NextInTurn
    <3> QED
      BY <1>4, <2>1, <3>1, <3>2, <3>3
  <2>4. CASE \E u \in TimerIds : timers[u] = 1 /\ sched'[i] = [handler |-> u, age |-> 0]
    <3>1. PICK u \in TimerIds : timers[u] = 1 /\ sched'[i] = [handler |-> u, age |-> 0]
      BY <2>4
    <3>2. SameLine(u, t) /\ sched'[i].age = 0
      BY <3>1
    <3>3. timers[t] > 0 /\ (timers'[t] = timers[t] - 1 \/ Gap(t) <= timers'[t])
      BY <1>13
    <3>4. u = t
      BY <3>1, <3>2, <3>3, OneMode
    <3>5. timers'[t] # timers[t] - 1
      BY <3>1, <3>4
    <3> QED
      BY <1>4, <2>1, <3>2, <3>3, <3>5
  <2> QED
    BY <2>2, <2>3, <2>4
<1> QED
  BY <1>12, <1>14

(* A timer that starts has a Gap to go at the least. *)
LEMMA BleEventInTurn ==
  ASSUME RestartInv, RestartInv', InTurn(sched), NextInTurn, BleEvent
  PROVE  InTurn(sched)' /\ NextInTurn'
<1>0. TimerTypes /\ sched \in Seq(Handlers) /\ ModesAgree
  BY DEF RestartInv, TypeOK
<1>1. sched' = sched
  BY DEF BleEvent, Connected, Disconnected, AdvertisingTimeout, ParametersChanged
<1>2. InTurn(sched)'
  BY <1>1
<1>3. ASSUME NEW t \in TimerIds, timers'[t] > 0, timers'[t] # timers[t]
      PROVE  Gap(t) <= timers'[t]
  <2>1. CASE Connected
    <3>1. PICK negotiation \in {0, NegotiationDelay} :
            timers' = [timers EXCEPT !["adv"] = 0, !["sample"] = sample_timers_start,
                                     !["params"] = negotiation]
      BY <2>1 DEF Connected
    <3>2. sample_timers_start \in {timers["sample"], SamplePeriod}
      BY DEF sample_timers_start, Started
    <3>3. negotiation \in {0, FirstDelay, NextDelay}
      BY DEF NegotiationDelay
    <3> QED
      BY <1>0, <1>3, <3>1, <3>2, <3>3, Gaps, Constants DEF TimerTypes, TimerIds
  <2>2. CASE Disconnected
    <3>1. timers' = [timers EXCEPT !["sample"] = 0, !["adv"] = adv_timers_start, !["params"] = 0]
      BY <2>2 DEF Disconnected
    <3>2. adv_timers_start \in {timers["adv"], AdvPeriod}
      BY DEF adv_timers_start, Started
    <3> QED
      BY <1>0, <1>3, <3>1, <3>2, Gaps, Constants DEF TimerTypes, TimerIds
  <2>3. CASE AdvertisingTimeout
    BY <1>3, <2>3 DEF AdvertisingTimeout
  <2>4. CASE ParametersChanged
    <3>1. PICK left \in {timers["params"], FirstDelay, NextDelay} :
            timers' = [timers EXCEPT !["params"] = left]
      BY <2>4 DEF ParametersChanged, Started, NegotiationDelay
    <3> QED
      BY <1>0, <1>3, <3>1, Gaps, Constants DEF TimerTypes, TimerIds
  <2> QED
    BY <2>1, <2>2, <2>3, <2>4 DEF BleEvent
<1>4. NextInTurn'
  <2> SUFFICES ASSUME NEW i \in 1 .. Len(sched), NEW t \in TimerIds,
                      SameLine(sched[i].handler, t), timers'[t] > 0
               PROVE  Gap(t) <= timers'[t] + sched[i].age
    BY <1>1 DEF NextInTurn, SameLine, Gap, Lesser
  <2>1. sched[i] \in Handlers
    BY <1>0
  <2>2. Gap(t) \in Nat /\ sched[i].age \in Nat /\ timers'[t] \in Nat
    <3>1. sched[i].age \in Nat
      BY <2>1, Constants DEF Handlers
    <3>2. timers' \in [TimerIds -> Nat]
      BY DEF RestartInv, TypeOK, TimerTypes
    <3> QED
      BY <3>1, <3>2, Gaps
  <2>3. CASE timers'[t] = timers[t]
    BY <2>3 DEF NextInTurn
  <2>4. CASE timers'[t] # timers[t]
    BY <1>3, <2>2, <2>4
  <2> QED
    BY <2>3, <2>4
<1> QED
  BY <1>2, <1>4

(* Without the first handler the others are still in turn. *)
LEMMA TailInTurn ==
  ASSUME sched \in Seq(Handlers), sched # <<>>, InTurn(sched), NextInTurn,
         sched' = Tail(sched), UNCHANGED timers
  PROVE  InTurn(sched)' /\ NextInTurn'
<1>1. /\ Len(sched') = Len(sched) - 1 /\ Len(sched) \in Nat
      /\ \A i \in 1 .. Len(sched) - 1 : sched'[i] = sched[i + 1]
  BY SchedTail
<1>2. InTurn(sched)'
  <2> SUFFICES ASSUME NEW j \in 1 .. Len(sched'), NEW i \in 1 .. j - 1,
                      SameLine(sched'[i].handler, sched'[j].handler)
               PROVE  sched'[j].age + Gap(sched'[j].handler) <= sched'[i].age
    BY DEF InTurn, SameLine, Gap, Lesser
  <2>1. j + 1 \in 1 .. Len(sched) /\ i + 1 \in 1 .. (j + 1) - 1
    BY <1>1
  <2>2. sched'[j] = sched[j + 1] /\ sched'[i] = sched[i + 1]
    BY <1>1
  <2> QED
    BY <2>1, <2>2 DEF InTurn
<1>3. NextInTurn'
  <2> SUFFICES ASSUME NEW i \in 1 .. Len(sched'), NEW t \in TimerIds,
                      SameLine(sched'[i].handler, t), timers[t] > 0
               PROVE  Gap(t) <= timers[t] + sched'[i].age
    BY DEF NextInTurn, SameLine, Gap, Lesser
  <2>1. i + 1 \in 1 .. Len(sched) /\ sched'[i] = sched[i + 1]
    BY <1>1
  <2> QED
    BY <2>1 DEF NextInTurn
<1> QED
  BY <1>2, <1>3

(* The main loop takes handlers from the front and adds none out of turn.      *)
LEMMA MainLoopInTurn ==
  ASSUME RestartInv, InTurn(sched), NextInTurn, MainLoop \/ UNCHANGED vars
  PROVE  InTurn(sched)' /\ NextInTurn'
<1>1. sched \in Seq(Handlers)
  BY DEF RestartInv, TypeOK
<1>2. UNCHANGED timers
  BY DEF MainLoop, adv_timeout_handler_stop, adv_timeout_handler_start, sample_start_handler,
         update_timeout_handler, on_conn_params_evt, Idle, Stopped, vars
<1>3. CASE sched' = sched
  BY <1>2, <1>3 DEF NextInTurn
<1>4. CASE sched # <<>> /\ sched' = Tail(sched)
  BY <1>1, <1>2, <1>4, TailInTurn
<1>5. sched' = sched \/ (sched # <<>> /\ sched' = Tail(sched))
  BY DEF MainLoop, adv_timeout_handler_stop, adv_timeout_handler_start, sample_start_handler,
         update_timeout_handler, on_conn_params_evt, Idle, Stopped, vars, TakeHandler
<1> QED
  BY <1>3, <1>4, <1>5

(* The inductive invariant holds of every behaviour. *)
THEOREM LifeInvariant == Spec => []LifeInv
<1>1. Init => LifeInv
  BY InitRestartInv DEF Init, LifeInv, InTurn, NextInTurn
<1>2. LifeInv /\ [Next]_vars => LifeInv'
  <2>1. RestartInv /\ [Next]_vars => RestartInv'
    BY TickInv, BleEventInv, MainLoopInv, StutterInv DEF Next
  <2> QED
    BY <2>1, TickInTurn, BleEventInTurn, MainLoopInTurn DEF Next, LifeInv
<1> QED
  BY <1>1, <1>2, PTL DEF Spec

-----------------------------------------------------------------------------

(* How many handlers can wait.  Numbers a gap apart differ in their quotient  *)
(* by the gap.                                                                *)
LEMMA Quotients ==
  ASSUME NEW g \in Nat, g > 0, NEW a \in Nat, NEW b \in Nat
  PROVE  /\ a \div g \in Nat
         /\ b + g <= a => a \div g # b \div g
         /\ b <= a => b \div g <= a \div g
<1> DEFINE p == a \div g
           q == b \div g
<1>1. /\ p \in Nat /\ a % g \in 0 .. g - 1 /\ a = (p * g) + (a % g)
      /\ q \in Nat /\ b % g \in 0 .. g - 1 /\ b = (q * g) + (b % g)
  OBVIOUS
<1> HIDE DEF p, q
<1>2. ASSUME p = q
      PROVE  ~(b + g <= a)
  BY <1>1, <1>2
<1>3. ASSUME p < q
      PROVE  ~(b <= a)
  <2>1. PICK k \in Nat : q = p + 1 + k
    BY <1>1, <1>3
  <2>2. q * g = (p * g) + g + (k * g) /\ k * g \in Nat /\ p * g \in Nat
    BY <1>1, <2>1
  <2> QED
    BY <1>1, <2>2
<1> QED
  BY <1>1, <1>2, <1>3 DEF p, q

(* The quotients of their ages tell the handlers of a line apart. *)
LEMMA RoomForQueue ==
  ASSUME NEW queue \in Seq(Handlers), InTurn(queue)
  PROVE  Len(queue) <= (MaxLag \div Gap("adv")) + (MaxLag \div Gap("params")) + 2
<1> DEFINE m == MaxLag \div Gap("adv")
           n == MaxLag \div Gap("params")
           place(i) == IF queue[i].handler = "params"
                         THEN m + 1 + (queue[i].age \div Gap("params"))
                         ELSE queue[i].age \div Gap("adv")
           f == [i \in 1 .. Len(queue) |-> place(i)]
<1>1. /\ m \in Nat /\ n \in Nat /\ Len(queue) \in Nat
      /\ Gap("adv") \in Nat /\ Gap("adv") > 0 /\ Gap("params") \in Nat /\ Gap("params") > 0
  BY Gaps, Quotients, Constants DEF TimerIds
<1>2. ASSUME NEW i \in 1 .. Len(queue)
      PROVE  queue[i].handler \in TimerIds /\ queue[i].age \in Nat /\ queue[i].age <= MaxLag
  <2>1. queue[i] \in Handlers
    OBVIOUS
  <2> QED
    BY <2>1, Constants DEF Handlers
<1>3. ASSUME NEW i \in 1 .. Len(queue)
      PROVE  /\ queue[i].handler = "params" => place(i) \in m + 1 .. m + 1 + n
             /\ queue[i].handler # "params" => place(i) \in 0 .. m
  <2>1. /\ queue[i].age \div Gap("params") \in Nat /\ queue[i].age \div Gap("params") <= n
        /\ queue[i].age \div Gap("adv") \in Nat /\ queue[i].age \div Gap("adv") <= m
    BY <1>1, <1>2, Quotients, Constants
  <2> HIDE DEF m, n
  <2> QED
    BY <1>1, <2>1
<1>4. ASSUME NEW i \in 1 .. Len(queue), NEW j \in 1 .. Len(queue), i < j
      PROVE  place(i) # place(j)
  <2>1. CASE SameLine(queue[i].handler, queue[j].handler)
    <3>1. i \in 1 .. j - 1
      BY <1>1, <1>4
    <3>2. queue[j].age + Gap(queue[j].handler) <= queue[i].age
      BY <2>1, <3>1 DEF InTurn
    <3>3. CASE queue[j].handler = "params"
      <4>1. queue[i].handler = "params" /\ queue[j].age + Gap("params") <= queue[i].age
        BY <2>1, <3>2, <3>3 DEF SameLine
      <4>2. queue[i].age \div Gap("params") # queue[j].age \div Gap("params")
        BY <1>1, <1>2, <4>1, Quotients
      <4>3. /\ queue[i].age \div Gap("params") \in Nat
            /\ queue[j].age \div Gap("params") \in Nat
        BY <1>1, <1>2, Quotients
      <4> HIDE DEF m
      <4> QED
        BY <1>1, <3>3, <4>1, <4>2, <4>3
    <3>4. CASE queue[j].handler # "params"
      <4>1. queue[i].handler # "params" /\ queue[j].age + Gap("adv") <= queue[i].age
        BY <1>2, <2>1, <3>2, <3>4, Gaps DEF SameLine, TimerIds
      <4>2. queue[i].age \div Gap("adv") # queue[j].age \div Gap("adv")
        BY <1>1, <1>2, <4>1, Quotients
      <4> QED
        BY <3>4, <4>1, <4>2
    <3> QED
      BY <3>3, <3>4
  <2>2. CASE ~SameLine(queue[i].handler, queue[j].handler)
    <3>1. \/ place(i) \in m + 1 .. m + 1 + n /\ place(j) \in 0 .. m
          \/ place(j) \in m + 1 .. m + 1 + n /\ place(i) \in 0 .. m
      BY <1>3, <2>2 DEF SameLine
    <3> HIDE DEF m, n, place
    <3> QED
      BY <1>1, <3>1
  <2> QED
    BY <2>1, <2>2
<1> HIDE DEF place, m, n
<1>5. f \in [1 .. Len(queue) -> 0 .. m + 1 + n]
  BY <1>1, <1>3
<1>6. /\ IsFiniteSet(1 .. Len(queue)) /\ Cardinality(1 .. Len(queue)) = Len(queue)
      /\ IsFiniteSet(0 .. m + 1 + n) /\ Cardinality(0 .. m + 1 + n) = m + n + 2
  <2> DEFINE last == m + 1 + n
  <2>1. /\ last \in Nat /\ last - 0 + 1 = m + n + 2
        /\ 0 \in Int /\ 1 \in Int /\ last \in Int /\ Len(queue) \in Int
    BY <1>1
  <2> HIDE DEF last
  <2>2. /\ IsFiniteSet(1 .. Len(queue))
        /\ Cardinality(1 .. Len(queue)) = IF 1 > Len(queue) THEN 0 ELSE Len(queue) - 1 + 1
    BY <2>1, FS_Interval, Zenon
  <2>3. /\ IsFiniteSet(0 .. last)
        /\ Cardinality(0 .. last) = IF 0 > last THEN 0 ELSE last - 0 + 1
    BY <2>1, FS_Interval, Zenon
  <2>4. Cardinality(1 .. Len(queue)) = Len(queue) /\ Cardinality(0 .. last) = m + n + 2
    BY <1>1, <2>1, <2>2, <2>3
  <2> QED
    BY <2>2, <2>3, <2>4 DEF last
<1>7. ASSUME NEW i \in 1 .. Len(queue), NEW j \in 1 .. Len(queue), i # j
      PROVE  f[i] # f[j]
  BY <1>1, <1>4, <1>7
<1> HIDE DEF f
<1>8. ~(m + n + 2 < Len(queue))
  BY <1>5, <1>6, <1>7, FS_PigeonHole
<1> QED
  BY <1>1, <1>8 DEF m, n

(* The scheduler takes every handler, for every length of its queue that has  *)
(* room for those which can expire while the main loop is held up: the 10     *)
(* elements of main.c:64 are enough for 17 seconds at the real periods        *)
(* (main.c:58-59, 204, 551).                                                  *)
THEOREM RoomForAll == ASSUME RoomEnough PROVE Spec => []QueueNeverFull
<1>1. Init => QueueNeverFull
  BY DEF Init, QueueNeverFull
<1>2. ASSUME LifeInv, QueueNeverFull, [Next]_vars
      PROVE  QueueNeverFull'
  <2>1. CASE Tick
    <3>1. Put \in Seq(Handlers) /\ InTurn(Put)
      BY <1>2, <2>1, PutProperties, PutStaysInTurn DEF Tick, LifeInv, RestartInv
    <3>2. Len(Put) <= (MaxLag \div Gap("adv")) + (MaxLag \div Gap("params")) + 2
      BY <3>1, RoomForQueue
    <3>3. Len(Put) <= SchedQueueSize
      <4>1. MaxLag \div Gap("adv") \in Nat /\ MaxLag \div Gap("params") \in Nat
        BY Gaps, Quotients, Constants DEF TimerIds
      <4> QED
        BY <3>1, <3>2, <4>1, Constants, RoomEnough DEF RoomEnough
    <3> QED
      BY <2>1, <3>3 DEF Tick, QueueNeverFull
  <2>2. CASE BleEvent \/ MainLoop \/ UNCHANGED vars
    BY <1>2, <2>2 DEF QueueNeverFull, BleEvent, Connected, Disconnected, AdvertisingTimeout,
         ParametersChanged, MainLoop, adv_timeout_handler_stop, adv_timeout_handler_start,
         sample_start_handler, update_timeout_handler, on_conn_params_evt, Idle, Stopped, vars,
         TakeHandler
  <2> QED
    BY <1>2, <2>1, <2>2 DEF Next
<1> QED
  BY <1>1, <1>2, LifeInvariant, PTL DEF Spec

(* Every variable keeps its type: in particular no advertising outlasts      *)
(* AdvTimeout and no handler waits longer than MaxLag.                       *)
THEOREM LifeTypeCorrect == Spec => []TypeOK
<1>1. LifeInv => TypeOK
  BY DEF LifeInv, RestartInv
<1> QED
  BY <1>1, LifeInvariant, PTL

(* The device switches itself off only when the main loop left the restart   *)
(* of the advertising waiting for half of the timeout.                       *)
THEOREM OffMeansHeldUp == Spec => []OffOnlyIfHeldUp
<1>1. LifeInv => OffOnlyIfHeldUp
  BY DEF LifeInv, RestartInv
<1> QED
  BY <1>1, LifeInvariant, PTL

(* The device never switches itself off, for every pair of an advertising    *)
(* timeout and a wait of the main loop that is shorter than half of it       *)
(* (main.c:139-159, 479-488).                                                *)
THEOREM StaysOn == Spec => []NeverOff
<1>1. LifeInv => NeverOff
  <2> SUFFICES ASSUME LifeInv, NotHeldUp, radio = "off" PROVE FALSE
    BY DEF NeverOff
  <2>1. PICK i \in 1 .. Len(sched) : AdvTimeout <= AdvPeriod + sched[i].age
    BY DEF LifeInv, RestartInv, OffOnlyIfHeldUp
  <2>2. sched[i] \in Handlers
    BY DEF LifeInv, RestartInv, TypeOK
  <2>3. sched[i].age \in 0 .. MaxLag
    BY <2>2 DEF Handlers
  <2> QED
    BY <2>1, <2>3, Constants DEF NotHeldUp
<1> QED
  BY <1>1, LifeInvariant, PTL

(* The handle, the LED and the timers follow the link whatever the interrupt *)
(* cuts in two (main.c:412-446).                                             *)
THEOREM ModesFollowLink == Spec => []ModesAgree
<1>1. LifeInv => ModesAgree
  BY DEF LifeInv, RestartInv
<1> QED
  BY <1>1, LifeInvariant, PTL
=============================================================================
