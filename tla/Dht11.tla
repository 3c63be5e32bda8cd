-------------------------------- MODULE Dht11 --------------------------------
(***************************************************************************)
(* The temperature and humidity sensor and its queue of readings (dht11.c); *)
(* the queues of pm25.c and tvoc.c are filled the same way.                 *)
(*                                                                          *)
(* GetDht11 is called for the average and, for the compensation, by         *)
(* GetTvoc, so twice in each sample; the sample handler runs in the main    *)
(* loop and, when a phone connects, in the BLE interrupt.  Temperature and  *)
(* humidity always go together and are one value here; a reading sets them  *)
(* all at once.  The sensor's answer is external.                           *)
(***************************************************************************)
EXTENDS Naturals, Sequences

CONSTANTS DHT11_QUEUE_LENGTH,
          Values,     \* what can be measured, and 0, the static initial value
          MaxBehind   \* bound: readings the interrupt may store behind the queue

ASSUME Dht11Assumption ==
  DHT11_QUEUE_LENGTH \in Nat \ {0} /\ 0 \in Values /\ MaxBehind \in Nat \ {0}

VARIABLES
  sfDht11Queue,
  snDht11QueueIndex,
  U8T_data_H,          \* the last measurement with a right checksum
  temp,                \* the last reading made for the average
  calls,               \* of GetDht11, in the main loop and in the interrupt
  alone                \* for the properties: no phone has connected so far

dht11 == <<sfDht11Queue, snDht11QueueIndex, U8T_data_H, temp, calls, alone>>

Levels == {"main", "interrupt"}
Callers == {"GetAverageDht11", "TvocValue"}
Slots == 0 .. DHT11_QUEUE_LENGTH - 1

Idle == [pc |-> "idle", caller |-> "GetAverageDht11", value |-> 0, index |-> 0]

(* Before InitDht11: everything is zero. *)
Dht11Init ==
  /\ sfDht11Queue = [i \in Slots |-> 0]
  /\ snDht11QueueIndex = 0
  /\ U8T_data_H = 0 /\ temp = 0
  /\ calls = [c \in Levels |-> Idle]
  /\ alone = TRUE

-----------------------------------------------------------------------------

OnTop(c) == c = "interrupt" \/ calls["interrupt"].pc = "idle"

CallAt(c, pc) == OnTop(c) /\ calls[c].pc = pc

CallGoes(c, pc) == calls' = [calls EXCEPT ![c].pc = pc]

(* InitDht11, InitTvoc and the samples: any number of calls of each. *)
CallInMainLoop(caller) ==
  /\ CallAt("main", "idle")
  /\ calls' = [calls EXCEPT !["main"] = [Idle EXCEPT !.pc = "read", !.caller = caller]]
  /\ UNCHANGED <<sfDht11Queue, snDht11QueueIndex, U8T_data_H, temp>>

(* On a connection the interrupt samples: one call of each, and in between   *)
(* the main loop does not run, so each may as well be an interrupt.          *)
CallInInterrupt(caller) ==
  /\ snDht11QueueIndex < DHT11_QUEUE_LENGTH + MaxBehind
  /\ calls["interrupt"].pc = "idle"
  /\ calls' = [calls EXCEPT !["interrupt"] = [Idle EXCEPT !.pc = "read", !.caller = caller]]
  /\ UNCHANGED <<sfDht11Queue, snDht11QueueIndex, U8T_data_H, temp>>

(* The result goes to the caller; for the average that is the static temp.   *)
Return(c, v) ==
  /\ calls' = [calls EXCEPT ![c].value = v, ![c].pc = "slot"]
  /\ temp' = IF calls[c].caller = "GetAverageDht11" THEN v ELSE temp

(* The sensor answers and the checksum is right. *)
Measured(c) ==
  /\ CallAt(c, "read")
  /\ \E v \in Values : U8T_data_H' = v /\ Return(c, v)
  /\ UNCHANGED <<sfDht11Queue, snDht11QueueIndex>>

(* It answers and the checksum is wrong: the measurement before is taken.    *)
WrongChecksum(c) ==
  /\ CallAt(c, "read")
  /\ Return(c, U8T_data_H)
  /\ UNCHANGED <<sfDht11Queue, snDht11QueueIndex, U8T_data_H>>

(* It does not answer. *)
NoAnswer(c) ==
  /\ CallAt(c, "read")
  /\ Return(c, temp)
  /\ UNCHANGED <<sfDht11Queue, snDht11QueueIndex, U8T_data_H>>

(* The arguments of InsertDht11Queue: the result is read again.              *)
Inserted(c) == IF calls[c].caller = "GetAverageDht11" THEN temp ELSE calls[c].value

(* What is behind the queue is not modelled. *)
StoreAt(i, v) ==
  sfDht11Queue' = IF i \in Slots THEN [sfDht11Queue EXCEPT ![i] = v] ELSE sfDht11Queue

(* Mutant: the index is incremented before it is used. *)
StoreInNextSlot(c) ==
  /\ CallAt(c, "slot")
  /\ StoreAt(snDht11QueueIndex + 1, Inserted(c))
  /\ CallGoes(c, "increment")
  /\ UNCHANGED <<snDht11QueueIndex, U8T_data_H, temp>>

(* The reading is stored at the index,                                       *)
StoreInSlot(c) ==
  /\ CallAt(c, "slot")
  /\ StoreAt(snDht11QueueIndex, Inserted(c))
  /\ CallGoes(c, "increment")
  /\ UNCHANGED <<snDht11QueueIndex, U8T_data_H, temp>>

(* the index is loaded,                                                       *)
LoadIndex(c) ==
  /\ CallAt(c, "increment")
  /\ calls' = [calls EXCEPT ![c].index = snDht11QueueIndex, ![c].pc = "store"]
  /\ UNCHANGED <<sfDht11Queue, snDht11QueueIndex, U8T_data_H, temp>>

(* Mutant: the incremented index is compared with > instead of ==. *)
IncrementTooFar(c) ==
  /\ CallAt(c, "store")
  /\ snDht11QueueIndex' = calls[c].index + 1
  /\ calls' = [calls EXCEPT ![c] =
                  IF calls[c].index + 1 > DHT11_QUEUE_LENGTH
                    THEN [Idle EXCEPT !.pc = "reset"] ELSE Idle]
  /\ UNCHANGED <<sfDht11Queue, U8T_data_H, temp>>

(* incremented, stored, and compared in its register,                        *)
Increment(c) ==
  /\ CallAt(c, "store")
  /\ snDht11QueueIndex' = calls[c].index + 1
  /\ calls' = [calls EXCEPT ![c] =
                  IF calls[c].index + 1 = DHT11_QUEUE_LENGTH
                    THEN [Idle EXCEPT !.pc = "reset"] ELSE Idle]
  /\ UNCHANGED <<sfDht11Queue, U8T_data_H, temp>>

(* and set to zero at the end of the queue.                                  *)
Reset(c) ==
  /\ CallAt(c, "reset")
  /\ snDht11QueueIndex' = 0
  /\ CallGoes(c, "idle")
  /\ UNCHANGED <<sfDht11Queue, U8T_data_H, temp>>

GetDht11(c) ==
  \/ Measured(c) \/ WrongChecksum(c) \/ NoAnswer(c)
  \/ StoreInSlot(c) \/ LoadIndex(c) \/ Increment(c) \/ Reset(c)

Dht11Next ==
  \/ \E caller \in Callers : CallInMainLoop(caller) /\ UNCHANGED alone
  \/ \E caller \in Callers : CallInInterrupt(caller) /\ alone' = FALSE
  \/ \E c \in Levels : GetDht11(c) /\ UNCHANGED alone

Dht11Spec == Dht11Init /\ [][Dht11Next]_dht11

-----------------------------------------------------------------------------

Frames ==
  [pc : {"idle", "read", "slot", "increment", "store", "reset"}, caller : Callers,
   value : Values, index : 0 .. DHT11_QUEUE_LENGTH + MaxBehind]

Dht11TypeOK ==
  /\ sfDht11Queue \in [Slots -> Values]
  /\ snDht11QueueIndex \in 0 .. DHT11_QUEUE_LENGTH + MaxBehind
  /\ U8T_data_H \in Values /\ temp \in Values
  /\ calls \in [Levels -> Frames]
  /\ alone \in BOOLEAN

(* Between two calls the index is a slot of the queue, also after the         *)
(* interrupt's insertions ran between any two steps of the main loop's,       *)
(* carried the index on behind the queue or were undone by the main loop's    *)
(* store (dht11.c:13-20, main.c:184).                                         *)
IndexAtRest == (\A c \in Levels : calls[c].pc = "idle") => snDht11QueueIndex \in Slots

(* A reading goes to a slot of the queue, whoever inserts it, but for the     *)
(* interrupt's while the main loop's insertion is about to wrap: that one is  *)
(* stored behind the queue (dht11.c:15-19, main.c:184).                       *)
BehindOnlyInWrap ==
  \A c \in Levels :
    CallAt(c, "slot") /\ snDht11QueueIndex \notin Slots =>
      c = "interrupt" /\ calls["main"].pc = "reset"

(* The inductive strengthening of both: the index is behind the queue exactly *)
(* while one of the contexts is about to reset it.  What the main loop has    *)
(* loaded is a slot, whatever the interrupt has made of the index since.      *)
ResetPending ==
  /\ snDht11QueueIndex \notin Slots <=> \E c \in Levels : calls[c].pc = "reset"
  /\ \E c \in Levels : calls[c].pc # "reset"
  /\ calls["interrupt"].pc \in {"read", "slot", "increment", "store"} =>
       snDht11QueueIndex < DHT11_QUEUE_LENGTH + MaxBehind
  /\ calls["interrupt"].pc = "store" => calls["interrupt"].index = snDht11QueueIndex
  /\ calls["main"].pc = "store" => calls["main"].index \in Slots

(* Until a phone connects, the index is never more than one behind the last  *)
(* slot, the interrupt has not run, and no increment is lost.                 *)
Undisturbed ==
  alone => /\ calls["interrupt"].pc = "idle"
           /\ snDht11QueueIndex <= DHT11_QUEUE_LENGTH
           /\ calls["main"].pc = "store" => calls["main"].index = snDht11QueueIndex

IndexInv == Dht11TypeOK /\ ResetPending /\ Undisturbed

NextSlot ==
  LET i == IF calls["main"].pc \in {"increment", "store"}
             THEN snDht11QueueIndex + 1 ELSE snDht11QueueIndex
  IN  IF i = DHT11_QUEUE_LENGTH THEN 0 ELSE i

Slot(i) ==        \* of the i-th oldest reading
  IF NextSlot + i - 1 < DHT11_QUEUE_LENGTH THEN NextSlot + i - 1
                                           ELSE NextSlot + i - 1 - DHT11_QUEUE_LENGTH

last == [i \in 1 .. DHT11_QUEUE_LENGTH |-> sfDht11Queue[Slot(i)]]

Window == INSTANCE SlidingWindow WITH Length <- DHT11_QUEUE_LENGTH, last <- last

(* Until a phone connects, the queue is the sliding window of the last        *)
(* readings, in every step: the slot after the newest holds the oldest        *)
(* (dht11.c:13-20).                                                           *)
LastReadings == Window!Init /\ [][alone' => Window!Next]_last
=============================================================================
