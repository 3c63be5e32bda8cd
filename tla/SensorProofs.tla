---------------------------- MODULE SensorProofs -----------------------------
(***************************************************************************)
(* Proofs about what the sensors are read with: the queue of readings       *)
(* (Dht11), for every length, and the converter and its two readers (Adc),  *)
(* with and without a phone that connects in the middle of a reading.       *)
(*                                                                          *)
(* Of the queue: the index is a slot between two calls, and until a phone   *)
(* connects the queue is the sliding window of the last readings.  Of the   *)
(* converter: an undisturbed reading is its own.                            *)
(***************************************************************************)
EXTENDS Dht11, Adc, SequenceTheorems, TLAPS

-----------------------------------------------------------------------------

IndexTypes ==
  /\ snDht11QueueIndex \in 0 .. DHT11_QUEUE_LENGTH + MaxBehind
  /\ calls \in [Levels -> Frames]

DataTypes ==
  /\ sfDht11Queue \in [Slots -> Values]
  /\ U8T_data_H \in Values /\ temp \in Values

(* The parts of Dht11TypeOK.                                                        *)
LEMMA TypeParts == Dht11TypeOK <=> IndexTypes /\ DataTypes /\ alone \in BOOLEAN
  BY Zenon DEF Dht11TypeOK, IndexTypes, DataTypes

-----------------------------------------------------------------------------

(* A step that leaves the index alone and moves a call, not from a reset. *)
LEMMA FrameStep ==
  ASSUME IndexTypes, ResetPending, NEW c \in Levels, NEW new \in Frames,
         calls' = [calls EXCEPT ![c] = new], UNCHANGED snDht11QueueIndex,
         calls[c].pc # "reset",
         new.pc \in {"read", "slot", "increment", "store"},
         c = "interrupt" => snDht11QueueIndex < DHT11_QUEUE_LENGTH + MaxBehind,
         new.pc = "store" => /\ new.index = snDht11QueueIndex
                             /\ c = "main" => snDht11QueueIndex \in Slots
  PROVE  IndexTypes' /\ ResetPending'
<1>1. IndexTypes'
  BY DEF IndexTypes
<1>2. ResetPending'
  BY DEF IndexTypes, ResetPending, Levels, Frames, Slots
<1> QED  BY <1>1, <1>2

(* At first the index is the first slot.                                       *)
LEMMA InitInv == Dht11Init => IndexInv
<1> SUFFICES ASSUME Dht11Init PROVE IndexInv
  OBVIOUS
<1> USE Dht11Assumption DEF Dht11Init
<1>1. IndexTypes
  BY DEF IndexTypes, Idle, Frames, Callers
<1>2. DataTypes
  BY DEF DataTypes, Slots
<1>3. ResetPending /\ Undisturbed /\ alone \in BOOLEAN
  BY DEF ResetPending, Undisturbed, Idle, Slots, Levels
<1> QED  BY <1>1, <1>2, <1>3, TypeParts DEF IndexInv

(* A call begins.                                                              *)
LEMMA CallStep ==
  ASSUME IndexInv, NEW caller \in Callers,
         CallInMainLoop(caller) \/ CallInInterrupt(caller)
  PROVE  IndexTypes' /\ DataTypes' /\ ResetPending'
<1> USE Dht11Assumption
<1> IndexTypes /\ DataTypes /\ ResetPending
  BY TypeParts DEF IndexInv
<1> DEFINE new == [Idle EXCEPT !.pc = "read", !.caller = caller]
<1>1. new \in Frames /\ new.pc = "read"
  <2>1. 0 \in Values /\ 0 \in 0 .. DHT11_QUEUE_LENGTH + MaxBehind
    OBVIOUS
  <2> QED  BY <2>1 DEF Idle, Frames
<1>2. DataTypes'
  BY DEF CallInMainLoop, CallInInterrupt, DataTypes
<1>3. IndexTypes' /\ ResetPending'
  <2> HIDE DEF new
  <2>1. CASE CallInMainLoop(caller)
    <3>1. calls' = [calls EXCEPT !["main"] = new]
      BY <2>1 DEF CallInMainLoop, new
    <3> QED  BY <1>1, <2>1, <3>1, FrameStep DEF CallInMainLoop, CallAt, Levels
  <2>2. CASE CallInInterrupt(caller)
    <3>1. calls' = [calls EXCEPT !["interrupt"] = new]
      BY <2>2 DEF CallInInterrupt, new
    <3> QED  BY <1>1, <2>2, <3>1, FrameStep DEF CallInInterrupt, Levels
  <2> QED  BY <2>1, <2>2
<1> QED  BY <1>2, <1>3

(* The three outcomes of a reading. *)
LEMMA ReadStep ==
  ASSUME IndexInv, NEW c \in Levels, Measured(c) \/ WrongChecksum(c) \/ NoAnswer(c)
  PROVE  IndexTypes' /\ DataTypes' /\ ResetPending'
<1> USE Dht11Assumption
<1> IndexTypes /\ DataTypes /\ ResetPending
  BY TypeParts DEF IndexInv
<1>1. PICK v \in Values : Return(c, v) /\ U8T_data_H' \in Values
  BY DEF Measured, WrongChecksum, NoAnswer, DataTypes
<1>2. /\ calls[c].pc = "read"
      /\ UNCHANGED <<sfDht11Queue, snDht11QueueIndex>>
  BY DEF Measured, WrongChecksum, NoAnswer, CallAt
<1>3. DataTypes'
  BY <1>1, <1>2 DEF Return, DataTypes
<1> DEFINE new == [calls[c] EXCEPT !.value = v, !.pc = "slot"]
<1>4. calls' = [calls EXCEPT ![c] = new]
  BY <1>1 DEF Return
<1>5. new \in Frames /\ new.pc = "slot"
  BY DEF Frames, IndexTypes
<1>6. IndexTypes' /\ ResetPending'
  <2> HIDE DEF new
  <2> QED  BY <1>2, <1>4, <1>5, FrameStep DEF ResetPending
<1> QED  BY <1>3, <1>6

(* The insertion, in four steps. *)
LEMMA InsertStep ==
  ASSUME IndexInv, NEW c \in Levels,
         StoreInSlot(c) \/ LoadIndex(c) \/ Increment(c) \/ Reset(c)
  PROVE  IndexTypes' /\ DataTypes' /\ ResetPending'
<1> USE Dht11Assumption
<1> IndexTypes /\ DataTypes /\ ResetPending
  BY TypeParts DEF IndexInv
<1>1. CASE StoreInSlot(c)
  <2>1. Inserted(c) \in Values
    BY DEF Inserted, DataTypes, IndexTypes, Frames
  <2>2. DataTypes'
    BY <1>1, <2>1 DEF StoreInSlot, StoreAt, DataTypes
  <2> DEFINE new == [calls[c] EXCEPT !.pc = "increment"]
  <2>3. calls' = [calls EXCEPT ![c] = new]
    BY <1>1 DEF StoreInSlot, CallGoes
  <2>4. new \in Frames /\ new.pc = "increment"
    BY DEF IndexTypes, Frames
  <2>5. IndexTypes' /\ ResetPending'
    <3> HIDE DEF new
    <3> QED  BY <1>1, <2>3, <2>4, FrameStep DEF StoreInSlot, CallAt, ResetPending
  <2> QED  BY <2>2, <2>5
<1>2. CASE Increment(c)
  <2>1. DataTypes'
    BY <1>2 DEF Increment, DataTypes
  <2>2. PICK pc \in {"reset", "idle"} :
          /\ calls' = [calls EXCEPT ![c] = [Idle EXCEPT !.pc = pc]]
          /\ pc = "reset" <=> calls[c].index + 1 = DHT11_QUEUE_LENGTH
    <3>1. Idle = [Idle EXCEPT !.pc = "idle"]
      BY DEF Idle
    <3> QED  BY <1>2, <3>1 DEF Increment
  <2> DEFINE new == [Idle EXCEPT !.pc = pc]
  <2>3. new \in Frames /\ new.pc = pc
    BY DEF Idle, Frames, Callers
  <2> HIDE DEF new
  <2>4. /\ c = "main" => calls[c].index \in Slots /\ snDht11QueueIndex \in Slots
        /\ c = "interrupt" => /\ calls[c].index = snDht11QueueIndex
                              /\ snDht11QueueIndex < DHT11_QUEUE_LENGTH + MaxBehind
    BY <1>2 DEF Increment, CallAt, OnTop, ResetPending, IndexTypes, Slots, Levels
  <2>5. IndexTypes'
    <3>1. snDht11QueueIndex' \in 0 .. DHT11_QUEUE_LENGTH + MaxBehind
      BY <1>2, <2>4 DEF Increment, IndexTypes, Slots, Levels
    <3> QED  BY <2>2, <2>3, <3>1 DEF IndexTypes, new
  <2>6. ResetPending'
    BY <1>2, <2>2, <2>3, <2>4
       DEF Increment, CallAt, OnTop, ResetPending, IndexTypes, Slots, Levels, Frames, new
  <2> QED  BY <2>1, <2>5, <2>6
<1>3. CASE Reset(c)
  <2>1. DataTypes'
    BY <1>3 DEF Reset, DataTypes
  <2>2. IndexTypes'
    BY <1>3 DEF Reset, CallGoes, IndexTypes, Frames
  <2>3. ResetPending'
    BY <1>3 DEF Reset, CallGoes, CallAt, OnTop, ResetPending, IndexTypes, Slots, Frames, Levels
  <2> QED  BY <2>1, <2>2, <2>3
<1>4. CASE LoadIndex(c)
  <2>1. DataTypes'
    BY <1>4 DEF LoadIndex, DataTypes
  <2> DEFINE new == [calls[c] EXCEPT !.index = snDht11QueueIndex, !.pc = "store"]
  <2>2. calls' = [calls EXCEPT ![c] = new]
    BY <1>4 DEF LoadIndex
  <2>3. new \in Frames /\ new.pc = "store" /\ new.index = snDht11QueueIndex
    BY DEF IndexTypes, Frames
  <2>4. c = "main" => snDht11QueueIndex \in Slots
    BY <1>4 DEF LoadIndex, CallAt, OnTop, ResetPending, Levels
  <2>5. IndexTypes' /\ ResetPending'
    <3> HIDE DEF new
    <3> QED  BY <1>4, <2>2, <2>3, <2>4, FrameStep DEF LoadIndex, CallAt, ResetPending
  <2> QED  BY <2>1, <2>5
<1> QED  BY <1>1, <1>2, <1>3, <1>4

(* Only a phone that connects makes the interrupt call; without it, the main  *)
(* loop increments a slot and resets the index before it comes back.          *)
LEMMA UndisturbedStep ==
  ASSUME IndexInv, [Dht11Next]_dht11
  PROVE  Undisturbed' /\ alone' \in BOOLEAN
<1> USE Dht11Assumption
<1> IndexTypes /\ ResetPending /\ Undisturbed /\ alone \in BOOLEAN
  BY TypeParts DEF IndexInv
<1>1. ASSUME NEW caller \in Callers, CallInMainLoop(caller), UNCHANGED alone
      PROVE  Undisturbed' /\ alone' \in BOOLEAN
  BY <1>1 DEF CallInMainLoop, Undisturbed, Idle, IndexTypes, Levels
<1>2. ASSUME NEW caller \in Callers, CallInInterrupt(caller), alone' = FALSE
      PROVE  Undisturbed' /\ alone' \in BOOLEAN
  BY <1>2 DEF Undisturbed
<1>3. ASSUME NEW c \in Levels, GetDht11(c), UNCHANGED alone
      PROVE  Undisturbed' /\ alone' \in BOOLEAN
  <2> SUFFICES ASSUME alone PROVE Undisturbed'
    BY <1>3 DEF Undisturbed
  <2>1. /\ calls["interrupt"].pc = "idle" /\ snDht11QueueIndex <= DHT11_QUEUE_LENGTH
        /\ calls["main"].pc = "store" => calls["main"].index = snDht11QueueIndex
    BY DEF Undisturbed
  <2>2. c = "main"
    BY <1>3, <2>1 DEF GetDht11, Measured, WrongChecksum, NoAnswer, StoreInSlot, LoadIndex,
                      Increment, Reset, CallAt, Levels
  <2>3. calls'["interrupt"].pc = "idle"
    BY <1>3, <2>1, <2>2 DEF GetDht11, Measured, WrongChecksum, NoAnswer, Return, StoreInSlot,
                            LoadIndex, Increment, Reset, CallGoes, IndexTypes, Levels
  <2>4. snDht11QueueIndex' <= DHT11_QUEUE_LENGTH
    <3>1. CASE Increment(c)
      <4>1. calls["main"].index \in Slots
        BY <3>1, <2>1, <2>2 DEF Increment, CallAt, ResetPending, Levels
      <4> QED  BY <3>1, <2>2, <4>1 DEF Increment, Slots
    <3>2. CASE ~Increment(c)
      BY <1>3, <2>1, <3>2 DEF GetDht11, Measured, WrongChecksum, NoAnswer, StoreInSlot,
                              LoadIndex, Reset, IndexTypes
    <3> QED  BY <3>1, <3>2
  <2>5. calls'["main"].pc = "store" => calls'["main"].index = snDht11QueueIndex'
    <3>1. CASE LoadIndex(c)
      BY <3>1, <2>2 DEF LoadIndex, IndexTypes, Levels, Frames
    <3>2. CASE Measured(c) \/ WrongChecksum(c) \/ NoAnswer(c)
      <4>1. PICK v : Return(c, v)
        BY <3>2 DEF Measured, WrongChecksum, NoAnswer
      <4> QED  BY <4>1, <2>2 DEF Return, IndexTypes, Levels, Frames
    <3>3. CASE StoreInSlot(c) \/ Reset(c)
      BY <3>3, <2>2 DEF StoreInSlot, Reset, CallGoes, IndexTypes, Levels, Frames
    <3>4. CASE Increment(c)
      BY <3>4, <2>2 DEF Increment, Idle, IndexTypes, Levels
    <3> QED  BY <1>3, <3>1, <3>2, <3>3, <3>4 DEF GetDht11
  <2> QED  BY <2>3, <2>4, <2>5 DEF Undisturbed
<1>4. CASE UNCHANGED dht11
  BY <1>4 DEF dht11, Undisturbed
<1> QED  BY <1>1, <1>2, <1>3, <1>4 DEF Dht11Next

(* Every step keeps the inductive invariant.                                   *)
LEMMA NextInv == IndexInv /\ [Dht11Next]_dht11 => IndexInv'
<1> SUFFICES ASSUME IndexInv, [Dht11Next]_dht11 PROVE IndexInv'
  OBVIOUS
<1>1. IndexTypes' /\ DataTypes' /\ ResetPending'
  <2>1. CASE UNCHANGED dht11
    BY <2>1, TypeParts DEF IndexInv, IndexTypes, DataTypes, ResetPending, dht11
  <2> QED  BY <2>1, CallStep, ReadStep, InsertStep DEF Dht11Next, GetDht11
<1>2. Undisturbed' /\ alone' \in BOOLEAN
  BY UndisturbedStep
<1> QED  BY <1>1, <1>2 DEF IndexInv, Dht11TypeOK, IndexTypes, DataTypes

(* The inductive invariant, for every length and any number of insertions the *)
(* interrupt makes behind the queue (dht11.c:13-20).                          *)
THEOREM IndexInvariant == Dht11Spec => []IndexInv
  BY InitInv, NextInv, PTL DEF Dht11Spec

(* The index is a slot again whenever no call is under way: the insertion     *)
(* that carried it to the end resets it, however far the interrupt took it    *)
(* (dht11.c:13-20, main.c:184).                                               *)
THEOREM IndexInQueueAtRest == Dht11Spec => []IndexAtRest
<1>1. IndexInv => IndexAtRest
  BY DEF IndexInv, ResetPending, IndexAtRest
<1> QED  BY <1>1, IndexInvariant, PTL

(* A reading is stored behind the queue only by the interrupt, and only in    *)
(* the middle of the main loop's wrap (dht11.c:15-19, main.c:184).            *)
THEOREM StoredBehindOnlyInWrap == Dht11Spec => []BehindOnlyInWrap
<1>1. IndexInv => BehindOnlyInWrap
  BY DEF IndexInv, Dht11TypeOK, ResetPending, BehindOnlyInWrap, CallAt, OnTop, Levels, Frames
<1> QED  BY <1>1, IndexInvariant, PTL

-----------------------------------------------------------------------------

(* Dropping the first element of a sequence and appending one. *)
LEMMA Shift ==
  ASSUME NEW n \in Nat \ {0}, NEW s \in Seq(Values), Len(s) = n, NEW v \in Values
  PROVE  Append(Tail(s), v) = [i \in 1 .. n |-> IF i < n THEN s[i + 1] ELSE v]
<1> DEFINE t == Tail(s)
<1>1. t \in Seq(Values) /\ Len(t) = n - 1 /\ \A i \in 1 .. n - 1 : t[i] = s[i + 1]
  OBVIOUS
<1> HIDE DEF t
<1>2. /\ Append(t, v) \in Seq(Values) /\ Len(Append(t, v)) = n
      /\ \A i \in 1 .. n : Append(t, v)[i] = IF i < n THEN s[i + 1] ELSE v
  BY <1>1
<1> DEFINE a == Append(t, v)
<1>3. a = [i \in 1 .. n |-> a[i]]
  <2> HIDE DEF a
  <2>1. a \in Seq(Values) /\ Len(a) = n
    BY <1>2 DEF a
  <2> QED  BY <2>1, LenProperties
<1>4. Append(t, v) = [i \in 1 .. n |-> IF i < n THEN s[i + 1] ELSE v]
  BY <1>2, <1>3
<1> QED  BY <1>4 DEF t

(* The queue starts as a window of zeros.                                      *)
LEMMA InitWindow == Dht11Init => Window!Init
<1> SUFFICES ASSUME Dht11Init PROVE last = [i \in 1 .. DHT11_QUEUE_LENGTH |-> 0]
  BY DEF Window!Init, last
<1>1. ASSUME NEW i \in 1 .. DHT11_QUEUE_LENGTH PROVE Slot(i) \in Slots
  BY <1>1, Dht11Assumption DEF Dht11Init, Slot, NextSlot, Slots, Idle, Levels
<1> QED  BY <1>1 DEF Dht11Init, last

(* A step of the main loop that stores no reading leaves the window alone.    *)
LEMMA SameWindow ==
  ASSUME UNCHANGED sfDht11Queue, NextSlot' = NextSlot
  PROVE  last' = last
  BY DEF last, Slot

(* Storing a reading moves the window on by one.                               *)
LEMMA StoreIsInsert ==
  ASSUME IndexInv, alone, StoreInSlot("main")
  PROVE  \E v \in Values : last' = Append(Tail(last), v)
<1> USE Dht11Assumption
<1> DEFINE N == DHT11_QUEUE_LENGTH
           v == Inserted("main")
           k == snDht11QueueIndex
<1>1. calls \in [Levels -> Frames] /\ sfDht11Queue \in [Slots -> Values] /\ v \in Values
  BY DEF IndexInv, Dht11TypeOK, Inserted, Frames, Levels
<1>2. calls["main"].pc = "slot" /\ calls'["main"].pc = "increment" /\ k' = k
  BY <1>1 DEF StoreInSlot, CallAt, CallGoes, Levels
<1>3. k \in Slots
  BY <1>2 DEF IndexInv, ResetPending, Undisturbed, Levels
<1>4. sfDht11Queue' = [sfDht11Queue EXCEPT ![k] = v]
  BY <1>3 DEF StoreInSlot, StoreAt
<1>5. NextSlot = k /\ NextSlot' = (IF k + 1 = N THEN 0 ELSE k + 1)
  BY <1>2, <1>3 DEF NextSlot, Slots
<1>6. \A i \in 1 .. N : Slot(i) \in Slots
  BY <1>3, <1>5 DEF Slot, Slots
<1>7. last \in Seq(Values) /\ Len(last) = N
  BY <1>1, <1>6 DEF last
<1>8. ASSUME NEW i \in 1 .. N
      PROVE  sfDht11Queue'[Slot(i)'] = IF i < N THEN last[i + 1] ELSE v
  <2>1. CASE i < N
    <3>1. Slot(i)' = Slot(i + 1) /\ Slot(i + 1) \in Slots /\ Slot(i + 1) # k
      BY <2>1, <1>3, <1>5 DEF Slot, Slots
    <3>2. last[i + 1] = sfDht11Queue[Slot(i + 1)]
      BY <2>1 DEF last
    <3> QED  BY <2>1, <3>1, <3>2, <1>1, <1>4
  <2>2. CASE i = N
    <3>1. Slot(i)' = k
      BY <2>2, <1>3, <1>5 DEF Slot, Slots
    <3> QED  BY <2>2, <3>1, <1>1, <1>3, <1>4
  <2> QED  BY <2>1, <2>2
<1>9. last' = [i \in 1 .. N |-> sfDht11Queue'[Slot(i)']]
  BY DEF last
<1>10. last' = [i \in 1 .. N |-> IF i < N THEN last[i + 1] ELSE v]
  BY <1>8, <1>9
<1> QED  BY <1>1, <1>7, <1>10, Shift

(* Every step moves the window on or leaves it alone.                          *)
LEMMA NextWindow ==
  ASSUME IndexInv, alone', [Dht11Next]_dht11
  PROVE  last' = last \/ Window!Next
<1> USE Dht11Assumption
<1>0. /\ calls \in [Levels -> Frames] /\ snDht11QueueIndex \in 0 .. DHT11_QUEUE_LENGTH
      /\ calls["interrupt"].pc = "idle" /\ alone
  <2>1. alone
    BY DEF Dht11Next, dht11
  <2> QED  BY <2>1 DEF IndexInv, Dht11TypeOK, Undisturbed
<1>1. ASSUME NEW caller \in Callers, CallInMainLoop(caller)
      PROVE  last' = last
  BY <1>0, <1>1, SameWindow DEF CallInMainLoop, CallAt, NextSlot, Idle, Levels
<1>3. ASSUME NEW c \in Levels, GetDht11(c)
      PROVE  c = "main"
  BY <1>0, <1>3 DEF GetDht11, Measured, WrongChecksum, NoAnswer, StoreInSlot, LoadIndex,
                    Increment, Reset, CallAt, Levels
<1>4. CASE Measured("main") \/ WrongChecksum("main") \/ NoAnswer("main")
  <2>1. PICK v : Return("main", v)
    BY <1>4 DEF Measured, WrongChecksum, NoAnswer
  <2>2. /\ calls["main"].pc = "read" /\ calls'["main"].pc = "slot"
        /\ UNCHANGED <<sfDht11Queue, snDht11QueueIndex>>
    BY <1>0, <1>4, <2>1 DEF Measured, WrongChecksum, NoAnswer, CallAt, Return, Levels, Frames
  <2> QED  BY <2>2, SameWindow DEF NextSlot
<1>5. CASE StoreInSlot("main")
  BY <1>0, <1>5, StoreIsInsert DEF Window!Next, Window!Insert
<1>6. CASE Increment("main")
  <2>1. /\ calls["main"].pc = "store" /\ calls'["main"].pc \in {"reset", "idle"}
        /\ calls["main"].index = snDht11QueueIndex
    BY <1>0, <1>6 DEF Increment, CallAt, Idle, Levels, IndexInv, Undisturbed
  <2> QED  BY <1>6, <2>1, SameWindow DEF Increment, NextSlot
<1>9. CASE LoadIndex("main")
  <2>1. calls["main"].pc = "increment" /\ calls'["main"].pc = "store"
    BY <1>0, <1>9 DEF LoadIndex, CallAt, Levels, Frames
  <2> QED  BY <1>9, <2>1, SameWindow DEF LoadIndex, NextSlot
<1>7. CASE Reset("main")
  <2>1. calls["main"].pc = "reset" /\ calls'["main"].pc = "idle"
    BY <1>0, <1>7 DEF Reset, CallAt, CallGoes, Levels
  <2>2. snDht11QueueIndex = DHT11_QUEUE_LENGTH
    BY <1>0, <2>1 DEF IndexInv, ResetPending, Slots, Levels
  <2> QED  BY <1>7, <2>1, <2>2, SameWindow DEF Reset, NextSlot
<1>8. CASE UNCHANGED dht11
  BY <1>8, SameWindow DEF dht11, NextSlot
<1> QED  BY <1>0, <1>1, <1>3, <1>4, <1>5, <1>6, <1>7, <1>8, <1>9
     DEF Dht11Next, GetDht11

(* Until a phone connects, the queue of readings is the sliding window of     *)
(* SlidingWindow, for every length: each reading takes the place of the       *)
(* oldest, and the average is one of the last DHT11_QUEUE_LENGTH readings     *)
(* (dht11.c:13-20, 115-126).                                                  *)
THEOREM QueueIsWindow == Dht11Spec => LastReadings
<1>1. Dht11Init => Window!Init
  BY InitWindow
<1>2. IndexInv /\ [Dht11Next]_dht11 => [alone' => Window!Next]_last
  BY NextWindow
<1> QED  BY <1>1, <1>2, IndexInvariant, PTL DEF Dht11Spec, LastReadings

-----------------------------------------------------------------------------

(* What is inductive of AdcInv; the rest follows.                            *)
Ind ==
  /\ TypeOK /\ OpensLeft /\ UndisturbedIsAlone
  /\ NothingLeft /\ UndisturbedReads

(* A reader's frame, as TypeOK has it.                                       *)
Frame == [pc : Pcs, reader : Readers, opens : 0 .. 2]

USE DEF Contexts

-----------------------------------------------------------------------------

(* The frames at a step of the reader of c: only its own changes.            *)
LEMMA FrameSet ==
  ASSUME TypeOK, NEW c \in Contexts, NEW f \in Frame, frames' = [frames EXCEPT ![c] = f]
  PROVE  /\ frames' \in [Contexts -> Frame]
         /\ frames'[c] = f
         /\ \A d \in Contexts : d # c => frames'[d] = frames[d]
  BY DEF TypeOK, Frame

(* A step that only goes to another place.                                   *)
LEMMA Goes ==
  ASSUME TypeOK, NEW c \in Contexts, NEW p \in Pcs, Goto(c, p)
  PROVE  frames' = [frames EXCEPT ![c] =
                      [pc |-> p, reader |-> frames[c].reader, opens |-> frames[c].opens]]
<1>1. [frames[c] EXCEPT !.pc = p] =
        [pc |-> p, reader |-> frames[c].reader, opens |-> frames[c].opens]
  BY DEF TypeOK
<1> QED
  BY <1>1 DEF Goto

(* An undisturbed reader runs: nothing interrupts it.                         *)
LEMMA AloneRuns ==
  ASSUME Ind, NEW c \in Contexts, Reading(c), ~disturbed[c]
  PROVE  Running(c)
  BY DEF Ind, UndisturbedIsAlone, Running

(* The conversion a reader wants is one.                                     *)
LEMMA OwnType ==
  ASSUME TypeOK
  PROVE  /\ \A c \in Contexts :
              Own(c) \in Conversions /\ Own(c) # NoConversion
         /\ NoConversion \notin Conversions
<1>1. NoConversion \notin Conversions
  BY DEF NoConversion, Conversions, Readers
<1>2. ASSUME NEW c \in Contexts
      PROVE  Own(c) \in Conversions
  BY DEF TypeOK, Own, Conversions, Readers
<1> QED
  BY <1>1, <1>2

(* An older conversion is still one.                                         *)
LEMMA OlderType ==
  ASSUME NEW v \in Conversions \cup {NoConversion}, NEW c \in Contexts
  PROVE  /\ Older(v, c) \in Conversions \cup {NoConversion}
         /\ v \in Conversions => Older(v, c) \in Conversions
         /\ v = NoConversion => Older(v, c) = NoConversion
  BY DEF Older, Conversions, NoConversion, Readers

(* What a step of the reader of c has to keep, while it goes on reading and   *)
(* who disturbs whom does not change.                                         *)
LEMMA ReaderStep ==
  ASSUME Ind, NEW c \in Contexts, Running(c), Reading(c), NEW f \in Frame,
         frames' = [frames EXCEPT ![c] = f], UNCHANGED disturbed, f.pc # "idle",
         f.opens \in IF f.pc \in Opening THEN 1 .. Opens(f.reader) ELSE {0},
         TypeOK', NothingLeft', ReadsOwn(c) => ReadsOwn(c)'
  PROVE  Ind'
<1>1. /\ frames' \in [Contexts -> Frame] /\ frames'[c] = f
      /\ \A d \in Contexts : d # c => frames'[d] = frames[d]
  BY FrameSet DEF Ind
<1>2. OpensLeft'
  BY <1>1 DEF Ind, OpensLeft
<1>3. UndisturbedIsAlone'
  BY <1>1 DEF Ind, UndisturbedIsAlone, Reading
<1>4. UndisturbedReads'
  <2> SUFFICES ASSUME NEW d \in Contexts, Reading(d)', ~disturbed[d]'
               PROVE  ReadsOwn(d)'
    BY DEF UndisturbedReads
  <2>1. d = c
    BY <1>1 DEF Ind, UndisturbedIsAlone, Reading
  <2> QED
    BY <2>1 DEF Ind, UndisturbedReads
<1> QED
  BY <1>2, <1>3, <1>4 DEF Ind

(* OpenAdc: the crystal is requested.                                        *)
LEMMA sd_clock_hfclk_requestKeeps ==
  ASSUME Ind, NEW c \in Contexts, sd_clock_hfclk_request(c)
  PROVE  Ind'
<1> DEFINE f == [pc |-> "is_running", reader |-> frames[c].reader, opens |-> frames[c].opens]
<1>0. TypeOK /\ Running(c) /\ frames[c].pc = "request" /\ Reading(c)
  BY DEF Ind, sd_clock_hfclk_request, At, Reading
<1>1. f \in Frame /\ f.opens \in IF f.pc \in Opening THEN 1 .. Opens(f.reader) ELSE {0}
  BY <1>0 DEF Ind, TypeOK, OpensLeft, Opening, Opens, Frame, Pcs
<1>2. frames' = [frames EXCEPT ![c] = f]
  BY <1>0, Goes DEF sd_clock_hfclk_request, Pcs
<1>3. /\ frames' \in [Contexts -> Frame] /\ frames'[c] = f
      /\ \A d \in Contexts : d # c => frames'[d] = frames[d]
  BY <1>0, <1>1, <1>2, FrameSet
<1>4. TypeOK'
  BY <1>0, <1>3 DEF TypeOK, Frame, Conversions, sd_clock_hfclk_request, registers
<1>5. NothingLeft'
  BY <1>0, <1>3 DEF Ind, NothingLeft, Quiet, At, Running, Reading,
                    sd_clock_hfclk_request, registers
<1>6. ReadsOwn(c) => ReadsOwn(c)'
  BY <1>0, <1>1, <1>3
  DEF Ind, OpensLeft, ReadsOwn, FirstOpen, Quiet, Begun, Own, Opens,
      Opening, sd_clock_hfclk_request, registers
<1> QED
  BY <1>0, <1>1, <1>2, <1>4, <1>5, <1>6, ReaderStep DEF sd_clock_hfclk_request

(* OpenAdc: the crystal runs.                                                *)
LEMMA sd_clock_hfclk_is_runningKeeps ==
  ASSUME Ind, NEW c \in Contexts, sd_clock_hfclk_is_running(c)
  PROVE  Ind'
<1> DEFINE f == [pc |-> "while_busy", reader |-> frames[c].reader, opens |-> frames[c].opens]
<1>0. TypeOK /\ Running(c) /\ frames[c].pc = "is_running" /\ Reading(c)
  BY DEF Ind, sd_clock_hfclk_is_running, At, Reading
<1>1. f \in Frame /\ f.opens \in IF f.pc \in Opening THEN 1 .. Opens(f.reader) ELSE {0}
  BY <1>0 DEF Ind, TypeOK, OpensLeft, Opening, Opens, Frame, Pcs
<1>2. frames' = [frames EXCEPT ![c] = f]
  BY <1>0, Goes DEF sd_clock_hfclk_is_running, Pcs
<1>3. /\ frames' \in [Contexts -> Frame] /\ frames'[c] = f
      /\ \A d \in Contexts : d # c => frames'[d] = frames[d]
  BY <1>0, <1>1, <1>2, FrameSet
<1>4. TypeOK'
  BY <1>0, <1>3 DEF TypeOK, Frame, Conversions, sd_clock_hfclk_is_running, registers
<1>5. NothingLeft'
  BY <1>0, <1>3 DEF Ind, NothingLeft, Quiet, At, Running, Reading,
                    sd_clock_hfclk_is_running, registers
<1>6. ReadsOwn(c) => ReadsOwn(c)'
  BY <1>0, <1>1, <1>3
  DEF Ind, OpensLeft, ReadsOwn, FirstOpen, Quiet, Begun, Own, Opens,
      Opening, sd_clock_hfclk_is_running, registers
<1> QED
  BY <1>0, <1>1, <1>2, <1>4, <1>5, <1>6, ReaderStep DEF sd_clock_hfclk_is_running

(* OpenAdc: no event is set.                                                 *)
LEMMA WhileBusyKeeps ==
  ASSUME Ind, NEW c \in Contexts, WhileBusy(c)
  PROVE  Ind'
<1> DEFINE f == [pc |-> "config", reader |-> frames[c].reader, opens |-> frames[c].opens]
<1>0. TypeOK /\ Running(c) /\ frames[c].pc = "while_busy" /\ Reading(c)
  BY DEF Ind, WhileBusy, At, Reading
<1>1. f \in Frame /\ f.opens \in IF f.pc \in Opening THEN 1 .. Opens(f.reader) ELSE {0}
  BY <1>0 DEF Ind, TypeOK, OpensLeft, Opening, Opens, Frame, Pcs
<1>2. frames' = [frames EXCEPT ![c] = f]
  BY <1>0, Goes DEF WhileBusy, Pcs
<1>3. /\ frames' \in [Contexts -> Frame] /\ frames'[c] = f
      /\ \A d \in Contexts : d # c => frames'[d] = frames[d]
  BY <1>0, <1>1, <1>2, FrameSet
<1>4. TypeOK'
  BY <1>0, <1>3 DEF TypeOK, Frame, Conversions, WhileBusy, registers
<1>5. NothingLeft'
  BY <1>0, <1>3 DEF Ind, NothingLeft, Quiet, At, Running, Reading,
                    WhileBusy, registers
<1>6. ReadsOwn(c) => ReadsOwn(c)'
  BY <1>0, <1>1, <1>3
  DEF Ind, OpensLeft, ReadsOwn, FirstOpen, Quiet, Begun, Own, Opens,
      Opening, WhileBusy, registers
<1> QED
  BY <1>0, <1>1, <1>2, <1>4, <1>5, <1>6, ReaderStep DEF WhileBusy

(* OpenAdc: the channel is selected.                                         *)
LEMMA ConfigKeeps ==
  ASSUME Ind, NEW c \in Contexts, Config(c)
  PROVE  Ind'
<1> DEFINE f == [pc |-> "start", reader |-> frames[c].reader, opens |-> frames[c].opens]
<1>0. TypeOK /\ Running(c) /\ frames[c].pc = "config" /\ Reading(c)
  BY DEF Ind, Config, At, Reading
<1>1. f \in Frame /\ f.opens \in IF f.pc \in Opening THEN 1 .. Opens(f.reader) ELSE {0}
  BY <1>0 DEF Ind, TypeOK, OpensLeft, Opening, Opens, Frame, Pcs
<1>2. frames' = [frames EXCEPT ![c] = f]
  BY <1>0, Goes DEF Config, Pcs
<1>3. /\ frames' \in [Contexts -> Frame] /\ frames'[c] = f
      /\ \A d \in Contexts : d # c => frames'[d] = frames[d]
  BY <1>0, <1>1, <1>2, FrameSet
<1>4. TypeOK'
  BY <1>0, <1>3 DEF TypeOK, Frame, Conversions, Config, registers
<1>5. NothingLeft'
  BY <1>0, <1>3 DEF Ind, NothingLeft, Quiet, At, Running, Reading,
                    Config, registers
<1>6. ReadsOwn(c) => ReadsOwn(c)'
  BY <1>0, <1>1, <1>3
  DEF Ind, OpensLeft, ReadsOwn, FirstOpen, Quiet, Begun, Own, Opens,
      Opening, Config, registers
<1> QED
  BY <1>0, <1>1, <1>2, <1>4, <1>5, <1>6, ReaderStep DEF Config

(* GetAdcValue: the event is set.                                            *)
LEMMA WhileIdleKeeps ==
  ASSUME Ind, NEW c \in Contexts, WhileIdle(c)
  PROVE  Ind'
<1> DEFINE f == [pc |-> "result", reader |-> frames[c].reader, opens |-> frames[c].opens]
<1>0. TypeOK /\ Running(c) /\ frames[c].pc = "while_idle" /\ Reading(c)
  BY DEF Ind, WhileIdle, At, Reading
<1>1. f \in Frame /\ f.opens \in IF f.pc \in Opening THEN 1 .. Opens(f.reader) ELSE {0}
  BY <1>0 DEF Ind, TypeOK, OpensLeft, Opening, Opens, Frame, Pcs
<1>2. frames' = [frames EXCEPT ![c] = f]
  BY <1>0, Goes DEF WhileIdle, Pcs
<1>3. /\ frames' \in [Contexts -> Frame] /\ frames'[c] = f
      /\ \A d \in Contexts : d # c => frames'[d] = frames[d]
  BY <1>0, <1>1, <1>2, FrameSet
<1>4. TypeOK'
  BY <1>0, <1>3 DEF TypeOK, Frame, Conversions, WhileIdle, registers
<1>5. NothingLeft'
  BY <1>0, <1>3 DEF Ind, NothingLeft, Quiet, At, Running, Reading,
                    WhileIdle, registers
<1>6. ReadsOwn(c) => ReadsOwn(c)'
  BY <1>0, <1>1, <1>3
  DEF Ind, OpensLeft, ReadsOwn, FirstOpen, Quiet, Begun, Own, Opens,
      Opening, WhileIdle, registers
<1> QED
  BY <1>0, <1>1, <1>2, <1>4, <1>5, <1>6, ReaderStep DEF WhileIdle

(* GetAdcValue: the value is read.                                           *)
LEMMA ResultKeeps ==
  ASSUME Ind, NEW c \in Contexts, Result(c)
  PROVE  Ind'
<1> DEFINE f == [pc |-> "stop", reader |-> frames[c].reader, opens |-> frames[c].opens]
<1>0. TypeOK /\ Running(c) /\ frames[c].pc = "result" /\ Reading(c)
  BY DEF Ind, Result, At, Reading
<1>1. f \in Frame /\ f.opens \in IF f.pc \in Opening THEN 1 .. Opens(f.reader) ELSE {0}
  BY <1>0 DEF Ind, TypeOK, OpensLeft, Opening, Opens, Frame, Pcs
<1>2. frames' = [frames EXCEPT ![c] = f]
  BY <1>0, Goes DEF Result, Pcs
<1>3. /\ frames' \in [Contexts -> Frame] /\ frames'[c] = f
      /\ \A d \in Contexts : d # c => frames'[d] = frames[d]
  BY <1>0, <1>1, <1>2, FrameSet
<1>4. TypeOK'
  BY <1>0, <1>3 DEF TypeOK, Frame, Conversions, Result, registers
<1>5. NothingLeft'
  BY <1>0, <1>3 DEF Ind, NothingLeft, Quiet, At, Running, Reading,
                    Result, registers
<1>6. ReadsOwn(c) => ReadsOwn(c)'
  BY <1>0, <1>1, <1>3
  DEF Ind, OpensLeft, ReadsOwn, FirstOpen, Quiet, Begun, Own, Opens,
      Opening, Result, registers
<1> QED
  BY <1>0, <1>1, <1>2, <1>4, <1>5, <1>6, ReaderStep DEF Result

(* GetAdcValue: the converter is stopped.                                    *)
LEMMA StopKeeps ==
  ASSUME Ind, NEW c \in Contexts, Stop(c)
  PROVE  Ind'
<1> DEFINE f == [pc |-> "clear", reader |-> frames[c].reader, opens |-> frames[c].opens]
<1>0. TypeOK /\ Running(c) /\ frames[c].pc = "stop" /\ Reading(c)
  BY DEF Ind, Stop, At, Reading
<1>1. f \in Frame /\ f.opens \in IF f.pc \in Opening THEN 1 .. Opens(f.reader) ELSE {0}
  BY <1>0 DEF Ind, TypeOK, OpensLeft, Opening, Opens, Frame, Pcs
<1>2. frames' = [frames EXCEPT ![c] = f]
  BY <1>0, Goes DEF Stop, Pcs
<1>3. /\ frames' \in [Contexts -> Frame] /\ frames'[c] = f
      /\ \A d \in Contexts : d # c => frames'[d] = frames[d]
  BY <1>0, <1>1, <1>2, FrameSet
<1>4. TypeOK'
  BY <1>0, <1>3 DEF TypeOK, Frame, Conversions, Stop, registers
<1>5. NothingLeft'
  BY <1>0, <1>3 DEF Ind, NothingLeft, Quiet, At, Running, Reading, Stop,
                    registers
<1>6. ReadsOwn(c) => ReadsOwn(c)'
  BY <1>0, <1>1, <1>3
  DEF Ind, OpensLeft, ReadsOwn, FirstOpen, Quiet, Begun, Own, Opens,
      Opening, Stop, registers
<1> QED
  BY <1>0, <1>1, <1>2, <1>4, <1>5, <1>6, ReaderStep DEF Stop

(* GetAdcValue: the event is cleared.                                        *)
LEMMA ClearKeeps ==
  ASSUME Ind, NEW c \in Contexts, Clear(c)
  PROVE  Ind'
<1> DEFINE f == [pc |-> "release", reader |-> frames[c].reader, opens |-> frames[c].opens]
<1>0. TypeOK /\ Running(c) /\ frames[c].pc = "clear" /\ Reading(c)
  BY DEF Ind, Clear, At, Reading
<1>1. f \in Frame /\ f.opens \in IF f.pc \in Opening THEN 1 .. Opens(f.reader) ELSE {0}
  BY <1>0 DEF Ind, TypeOK, OpensLeft, Opening, Opens, Frame, Pcs
<1>2. frames' = [frames EXCEPT ![c] = f]
  BY <1>0, Goes DEF Clear, Pcs
<1>3. /\ frames' \in [Contexts -> Frame] /\ frames'[c] = f
      /\ \A d \in Contexts : d # c => frames'[d] = frames[d]
  BY <1>0, <1>1, <1>2, FrameSet
<1>4. TypeOK'
  BY <1>0, <1>3 DEF TypeOK, Frame, Conversions, Clear, registers
<1>5. NothingLeft'
  BY <1>0, <1>3 DEF Ind, NothingLeft, Quiet, At, Running, Reading, Clear,
                    registers
<1>6. ReadsOwn(c) => ReadsOwn(c)'
  BY <1>0, <1>1, <1>3
  DEF Ind, OpensLeft, ReadsOwn, FirstOpen, Quiet, Begun, Own, Opens,
      Opening, Clear, registers
<1> QED
  BY <1>0, <1>1, <1>2, <1>4, <1>5, <1>6, ReaderStep DEF Clear

(* OpenAdc: the conversion starts, or an earlier one goes on.                *)
LEMMA StartKeeps ==
  ASSUME Ind, NEW c \in Contexts, Start(c)
  PROVE  Ind'
<1> DEFINE f == [pc |-> IF frames[c].opens > 1 THEN "request" ELSE "while_idle",
                  reader |-> frames[c].reader, opens |-> frames[c].opens - 1]
<1>0. TypeOK /\ Running(c) /\ frames[c].pc = "start" /\ Reading(c)
  BY DEF Ind, Start, At, Reading
<1>1. f \in Frame /\ f.opens \in IF f.pc \in Opening THEN 1 .. Opens(f.reader) ELSE {0}
  BY <1>0 DEF Ind, TypeOK, OpensLeft, Opening, Opens, Frame, Pcs
<1>2. frames' = [frames EXCEPT ![c] = f]
  BY <1>0 DEF Ind, TypeOK, Start
<1>3. /\ frames' \in [Contexts -> Frame] /\ frames'[c] = f
      /\ \A d \in Contexts : d # c => frames'[d] = frames[d]
  BY <1>0, <1>1, <1>2, FrameSet
<1>4. TypeOK'
  BY <1>0, <1>3 DEF TypeOK, Frame, Conversions, Start, registers
<1>5. NothingLeft'
  BY <1>0, <1>3 DEF Ind, NothingLeft, Quiet, At, Running, Reading, Start,
                    registers
<1>6. ReadsOwn(c) => ReadsOwn(c)'
  <2> SUFFICES ASSUME ReadsOwn(c)
               PROVE  ReadsOwn(c)'
    OBVIOUS
  <2>1. Own(c)' = Own(c)
    BY <1>3 DEF Own
  <2>2. hfclk /\ CONFIG = frames[c].reader /\ (pulse <=> frames[c].reader = "pm25")
    BY <1>0 DEF ReadsOwn
  <2>3. [channel |-> CONFIG, of |-> c, lit |-> pulse, clocked |-> hfclk] = Own(c)
    <3>1. pulse = (frames[c].reader = "pm25") /\ hfclk = TRUE
      BY <1>0, <2>2, Zenon DEF TypeOK
    <3> QED
      BY <2>2, <3>1, Zenon DEF Own
  <2>6. /\ (pulse' <=> frames'[c].reader = "pm25")
        /\ hfclk' /\ CONFIG' = frames'[c].reader
    <3>1. frames'[c].reader = frames[c].reader
      BY <1>3
    <3> QED
      BY <2>2, <3>1, Zenon DEF Start
  <2>7. ~FirstOpen(c)' /\ frames'[c].pc \in {"request", "while_idle"}
    <3>1. /\ frames[c].opens \in 1 .. Opens(frames[c].reader)
          /\ Opens(frames[c].reader) \in Nat
      BY <1>0 DEF Ind, OpensLeft, Opening, Opens
    <3>2. frames'[c].opens = frames[c].opens - 1 /\ frames'[c].reader = frames[c].reader
      BY <1>3
    <3>3. frames'[c].opens # Opens(frames'[c].reader)
      BY <3>1, <3>2
    <3>4. frames'[c].pc \in {"request", "while_idle"}
      BY <1>3
    <3> QED
      BY <3>3, <3>4 DEF FirstOpen
  <2>4. CASE converting' = [channel |-> CONFIG, of |-> c, lit |-> pulse, clocked |-> hfclk]
    <3>1. converting' = Own(c) /\ converting' # NoConversion
      BY <2>3, <2>4, OwnType, <1>0
    <3>2. EVENTS_END => RESULT = Own(c)
      BY <1>0 DEF ReadsOwn, Quiet, Begun
    <3>3. Begun(c)'
      BY <2>1, <3>1, <3>2 DEF Begun, Start
    <3> QED
      BY <2>6, <2>7, <3>3 DEF ReadsOwn
  <2>5. CASE converting # NoConversion /\ UNCHANGED converting
    <3>1. Begun(c)
      BY <1>0, <2>5 DEF ReadsOwn, Quiet
    <3>2. Begun(c)'
      BY <2>1, <2>5, <3>1 DEF Begun, Start
    <3> QED
      BY <2>6, <2>7, <3>2 DEF ReadsOwn
  <2> QED
    BY <2>4, <2>5 DEF Start
<1> QED
  BY <1>0, <1>1, <1>2, <1>4, <1>5, <1>6, ReaderStep DEF Start

(* The reader goes on with the gas, or is done.                              *)
LEMMA ReleaseKeeps ==
  ASSUME Ind, NEW c \in Contexts, sd_clock_hfclk_release(c)
  PROVE  Ind'
<1>0. TypeOK /\ Running(c) /\ frames[c].pc = "release" /\ Reading(c) /\ Quiet
  BY DEF Ind, NothingLeft, sd_clock_hfclk_release, At, Reading
<1>1. converting' = NoConversion /\ UNCHANGED <<EVENTS_END, CONFIG>>
  BY <1>0, OlderType DEF sd_clock_hfclk_release, Quiet
<1>2. CASE frames[c].reader = "pm25"
  <2> DEFINE f == [pc |-> "request", reader |-> "tvoc", opens |-> Opens("tvoc")]
  <2>1. f \in Frame /\ f.opens = 2
    BY DEF Frame, Pcs, Readers, Opens
  <2>2. /\ frames' \in [Contexts -> Frame] /\ frames'[c] = f
        /\ \A d \in Contexts : d # c => frames'[d] = frames[d]
    BY <1>0, <1>2, <2>1, FrameSet DEF sd_clock_hfclk_release
  <2>3. RESULT' \in Conversions
    BY <1>0, <1>2, OlderType DEF sd_clock_hfclk_release, TypeOK
  <2>4. TypeOK'
    BY <1>0, <1>1, <1>2, <2>2, <2>3 DEF TypeOK, Frame, sd_clock_hfclk_release
  <2>5. OpensLeft'
    BY <2>1, <2>2 DEF Ind, OpensLeft, Opens, Opening
  <2>6. UndisturbedIsAlone'
    BY <1>0, <1>2, <2>2 DEF Ind, UndisturbedIsAlone, Reading, Running, TypeOK,
                            sd_clock_hfclk_release
  <2>7. NothingLeft'
    BY <1>0, <1>1, <2>2 DEF NothingLeft, Quiet, At, Running, Reading
  <2>8. UndisturbedReads'
    <3> SUFFICES ASSUME NEW d \in Contexts, Reading(d)', ~disturbed[d]'
                 PROVE  ReadsOwn(d)'
      BY DEF UndisturbedReads
    <3>1. d = c
      BY <2>2, <2>6 DEF UndisturbedIsAlone, Reading
    <3>2. Quiet' /\ pulse' = FALSE
      BY <1>0, <1>1, <1>2 DEF Quiet, sd_clock_hfclk_release
    <3>3. (pulse' <=> frames'[c].reader = "pm25")
      BY <2>2, <3>2
    <3> QED
      BY <2>1, <2>2, <3>1, <3>2, <3>3 DEF ReadsOwn, FirstOpen, Opens, Opening
  <2> QED
    BY <2>4, <2>5, <2>6, <2>7, <2>8 DEF Ind
<1>3. CASE frames[c].reader # "pm25"
  <2> DEFINE f == [pc |-> "idle", reader |-> frames[c].reader, opens |-> frames[c].opens]
  <2>1. f \in Frame /\ f.opens = 0
    BY <1>0 DEF Ind, OpensLeft, Opening, TypeOK, Frame, Pcs
  <2>2. frames' = [frames EXCEPT ![c] = f]
    BY <1>0, <1>3, Goes DEF sd_clock_hfclk_release, Pcs
  <2>3. /\ frames' \in [Contexts -> Frame] /\ frames'[c] = f
        /\ \A d \in Contexts : d # c => frames'[d] = frames[d]
    BY <1>0, <2>1, <2>2, FrameSet
  <2>4. UNCHANGED <<RESULT, pulse, disturbed>> /\ hfclk' = FALSE
    BY <1>3 DEF sd_clock_hfclk_release
  <2>5. TypeOK'
    BY <1>0, <1>1, <2>3, <2>4 DEF TypeOK, Frame
  <2>6. OpensLeft'
    BY <2>1, <2>3 DEF Ind, OpensLeft, Opening
  <2>7. UndisturbedIsAlone'
    BY <2>3, <2>4 DEF Ind, UndisturbedIsAlone, Reading
  <2>8. NothingLeft'
    BY <1>0, <1>1, <2>3 DEF NothingLeft, Quiet, At, Running, Reading, Ind
  <2>9. UndisturbedReads'
    <3> SUFFICES ASSUME NEW d \in Contexts, Reading(d)', ~disturbed[d]'
                 PROVE  FALSE
      BY DEF UndisturbedReads
    <3> QED
      BY <1>0, <2>3, <2>4 DEF Ind, UndisturbedIsAlone, Reading
  <2> QED
    BY <2>5, <2>6, <2>7, <2>8, <2>9 DEF Ind
<1> QED
  BY <1>2, <1>3

-----------------------------------------------------------------------------

(* A context begins with the dust.                                           *)
LEMMA BeginFacts ==
  ASSUME TypeOK, NEW c \in Contexts, Begin(c, "pm25")
  PROVE  /\ frames' \in [Contexts -> Frame]
         /\ frames'[c] = [pc |-> "request", reader |-> "pm25", opens |-> 1]
         /\ \A d \in Contexts : d # c => frames'[d] = frames[d]
         /\ RESULT' \in Conversions /\ converting' \in Conversions \cup {NoConversion}
         /\ converting = NoConversion => converting' = NoConversion
         /\ pulse' = TRUE
<1> DEFINE f == [pc |-> "request", reader |-> "pm25", opens |-> 1]
<1>1. f \in Frame
  BY DEF Frame, Pcs, Readers
<1>2. frames' = [frames EXCEPT ![c] = f]
  BY DEF Begin, Opens
<1>3. RESULT' \in Conversions /\ converting' \in Conversions \cup {NoConversion}
  BY OlderType DEF TypeOK, Begin
<1>4. converting = NoConversion => converting' = NoConversion
  BY OlderType DEF TypeOK, Begin
<1> QED
  BY <1>1, <1>2, <1>3, <1>4, FrameSet DEF Begin

(* Whoever begins undisturbed finds the converter at rest.                   *)
LEMMA BeginKeeps ==
  ASSUME Ind, NEW c \in Contexts, ~Reading("interrupt"), ~Reading(c),
         Begin(c, "pm25"),
         UNCHANGED <<EVENTS_END, CONFIG, hfclk>>, disturbed' \in [Contexts -> BOOLEAN],
         c = "interrupt" =>
           disturbed' = [main |-> Reading("main") \/ disturbed["main"],
                         interrupt |-> Reading("main")]
  PROVE  Ind'
<1>1. /\ frames' \in [Contexts -> Frame]
      /\ frames'[c] = [pc |-> "request", reader |-> "pm25", opens |-> 1]
      /\ \A d \in Contexts : d # c => frames'[d] = frames[d]
      /\ RESULT' \in Conversions /\ converting' \in Conversions \cup {NoConversion}
      /\ converting = NoConversion => converting' = NoConversion
      /\ pulse' = TRUE
  BY BeginFacts DEF Ind
<1>2. TypeOK'
  BY <1>1 DEF Ind, TypeOK, Frame
<1>3. OpensLeft'
  BY <1>1 DEF Ind, OpensLeft, Opening, Opens
<1>4. UndisturbedIsAlone'
  BY <1>1 DEF Ind, UndisturbedIsAlone, Reading
<1>5. NothingLeft'
  BY <1>1 DEF Ind, NothingLeft, Quiet, At, Running, Reading
<1>6. UndisturbedReads'
  <2> SUFFICES ASSUME NEW d \in Contexts, Reading(d)', ~disturbed[d]'
               PROVE  ReadsOwn(d)'
    BY DEF UndisturbedReads
  <2>1. d = c /\ ~Reading("main")
    BY <1>1, <1>4 DEF UndisturbedIsAlone, Reading
  <2>2. Quiet'
    BY <1>1, <2>1 DEF Ind, NothingLeft, Quiet
  <2>3. (pulse' <=> frames'[c].reader = "pm25")
    BY <1>1
  <2> QED
    BY <1>1, <2>1, <2>2, <2>3 DEF ReadsOwn, FirstOpen, Opens, Opening
<1> QED
  BY <1>2, <1>3, <1>4, <1>5, <1>6 DEF Ind

(* A conversion ends only where one may go on.                               *)
LEMMA ConversionEndsKeeps ==
  ASSUME Ind, ConversionEnds
  PROVE  Ind'
<1>1. TypeOK' /\ OpensLeft' /\ UndisturbedIsAlone'
  BY DEF Ind, TypeOK, OpensLeft, UndisturbedIsAlone, Reading, ConversionEnds
<1>2. NothingLeft'
  BY DEF Ind, NothingLeft, Quiet, At, Running, Reading, ConversionEnds
<1>3. UndisturbedReads'
  <2> SUFFICES ASSUME NEW c \in Contexts, Reading(c), ~disturbed[c]
               PROVE  ReadsOwn(c)'
    BY DEF UndisturbedReads, Reading, ConversionEnds
  <2>1. ReadsOwn(c) /\ Running(c)
    BY AloneRuns DEF Ind, UndisturbedReads
  <2>2. ~FirstOpen(c) /\ frames[c].pc \notin {"clear", "release"} /\ Begun(c)
    BY <2>1 DEF Ind, NothingLeft, ReadsOwn, Quiet, At, ConversionEnds
  <2>3. Begun(c)'
    BY <2>2 DEF Begun, Own, ConversionEnds
  <2> QED
    BY <2>1, <2>2, <2>3 DEF ReadsOwn, FirstOpen, ConversionEnds
<1> QED
  BY <1>1, <1>2, <1>3 DEF Ind

-----------------------------------------------------------------------------

(* The inductive invariant of the frames, whether or not a phone connects in *)
(* the middle of a reading: what each undisturbed reader finds at each of its *)
(* steps (adc.c, pm25.c:44-49, tvoc.c:54-55).                                 *)
LEMMA Inductive == Spec => []Ind
<1>1. Init => Ind
  <2> SUFFICES ASSUME Init
               PROVE  Ind
    OBVIOUS
  <2>1. TypeOK
    <3>1. RESULT \in Conversions
      BY DEF Init, Conversions, Readers
    <3>2. frames \in [Contexts -> [pc : Pcs, reader : Readers, opens : 0 .. 2]]
      BY DEF Init, Readers, Pcs
    <3> QED
      BY <3>1, <3>2 DEF Init, TypeOK, Readers
  <2>2. OpensLeft /\ UndisturbedIsAlone /\ NothingLeft /\ UndisturbedReads
    BY DEF Init, OpensLeft, UndisturbedIsAlone, NothingLeft,
           UndisturbedReads, Opening, Quiet, At, Reading
  <2> QED
    BY <2>1, <2>2 DEF Ind
<1>2. Ind /\ [Next]_vars => Ind'
  <2> SUFFICES ASSUME Ind, [Next]_vars
               PROVE  Ind'
    OBVIOUS
  <2>1. CASE GetAveragePM25
    <3>1. /\ ~Reading("interrupt") /\ ~Reading("main")
          /\ disturbed' \in [Contexts -> BOOLEAN]
      BY <2>1 DEF Ind, TypeOK, GetAveragePM25, At, Running, Reading
    <3> QED
      BY <2>1, <3>1, BeginKeeps DEF GetAveragePM25
  <2>2. CASE Connected
    <3>1. /\ (Reading("main") \/ disturbed["main"]) \in BOOLEAN
          /\ Reading("main") \in BOOLEAN
      BY DEF Reading
    <3>2. disturbed' = [main |-> Reading("main") \/ disturbed["main"],
                        interrupt |-> Reading("main")]
      BY <2>2 DEF Connected
    <3>3. disturbed' \in [Contexts -> BOOLEAN]
      <4> DEFINE a == Reading("main") \/ disturbed["main"]
                 b == Reading("main")
      <4>1. a \in BOOLEAN /\ b \in BOOLEAN /\ disturbed' = [main |-> a, interrupt |-> b]
        BY <3>1, <3>2
      <4> HIDE DEF a, b
      <4>2. [main |-> a, interrupt |-> b] \in [Contexts -> BOOLEAN]
        BY <4>1
      <4> QED
        BY <4>1, <4>2
    <3> QED
      BY <2>2, <3>2, <3>3, BeginKeeps DEF Connected
  <2>3. CASE ConversionEnds
    BY <2>3, ConversionEndsKeeps
  <2>4. CASE UNCHANGED vars
    BY <2>4 DEF vars, registers, Ind, TypeOK, OpensLeft, UndisturbedIsAlone,
                NothingLeft, UndisturbedReads, ReadsOwn, FirstOpen,
                Quiet, Begun, Own, At, Running, Reading
  <2>5. CASE Waiting
    BY <2>4, <2>5 DEF Waiting
  <2>6. ASSUME NEW c \in Contexts, Step(c)
        PROVE  Ind'
    <3>1. CASE OpenAdc(c)
      BY <3>1, sd_clock_hfclk_requestKeeps, sd_clock_hfclk_is_runningKeeps,
         WhileBusyKeeps, ConfigKeeps, StartKeeps DEF OpenAdc
    <3>2. CASE GetAdcValue(c)
      BY <3>2, WhileIdleKeeps, ResultKeeps, StopKeeps, ClearKeeps, ReleaseKeeps DEF GetAdcValue
    <3> QED
      BY <2>6, <3>1, <3>2 DEF Step
  <2> QED
    BY <2>1, <2>2, <2>3, <2>4, <2>5, <2>6 DEF Next
<1> QED
  BY <1>1, <1>2, PTL DEF Spec

(* An undisturbed reader takes the value of a conversion it started itself,   *)
(* of its own channel, with the crystal requested and, for the dust, inside   *)
(* the pulse (adc.c:9-41, pm25.c:44-49, tvoc.c:54-55).                        *)
THEOREM ReadingsAreOwn == Spec => []OwnReading
<1>1. Ind => OwnReading
  BY DEF Ind, UndisturbedReads, ReadsOwn, FirstOpen, Opening, Begun,
         OwnReading, Reading
<1> QED
  BY <1>1, Inductive, PTL

(* A reader that waits in vain came too late for the second time it opens the *)
(* converter, or was disturbed (adc.c:17, 33); with what this follows from.   *)
THEOREM AdcInvariant == Spec => []AdcInv
<1>1. Ind => OnlyTheseWaits
  <2> SUFFICES ASSUME Ind, NEW c \in Contexts, Stuck(c), ~disturbed[c]
               PROVE  SecondOpenTooLate(c)
    BY DEF OnlyTheseWaits, EventOfTheOther
  <2>1. Reading(c) /\ ReadsOwn(c)
    BY DEF Ind, UndisturbedReads, Stuck, At, Reading
  <2>2. CASE frames[c].pc = "while_idle"
    BY <2>1, <2>2 DEF ReadsOwn, FirstOpen, Opening, Begun, Stuck, At
  <2>3. CASE frames[c].pc = "while_busy" /\ EVENTS_END
    <3>1. ~FirstOpen(c) /\ frames[c].pc \in Opening
      BY <2>1, <2>3 DEF ReadsOwn, Quiet, Opening
    <3>2. /\ frames[c].opens \in 1 .. Opens(frames[c].reader)
          /\ frames[c].reader \in Readers
      BY <3>1 DEF Ind, OpensLeft, TypeOK
    <3> QED
      BY <2>3, <3>1, <3>2 DEF SecondOpenTooLate, FirstOpen, Opens, Readers
  <2> QED
    BY <2>2, <2>3 DEF Stuck, At
<1> QED
  BY <1>1, Inductive, PTL DEF AdcInv, Ind
=============================================================================
