------------------------- MODULE RxBufferQueueProofs -------------------------
(* Proofs about the RX buffer queue, for every queue length, every number of *)
(* writes and every choice of the malformed ones.                            *)
EXTENDS RxBufferQueue, Sequences, TLAPS

(* What is known of the constants, in the form the provers use. *)
LEMMA Constants ==
  /\ QueueLength \in Nat /\ QueueLength > 0
  /\ MaxWrites \in Nat
  /\ WellFormed \subseteq Nat
  /\ \A m \in WellFormed : m > 0
BY Assumptions DEF QueueLengthAssumption, WellFormedAssumption

(* The mask of a position is the position, that of the length is zero: the   *)
(* two cases a masked index of rx_buffer_queue.c:36 and 51 meets.            *)
LEMMA MaskOfIndex ==
  ASSUME NEW i \in 0 .. QueueLength
  PROVE  /\ Mask(i) \in Positions
         /\ i < QueueLength => Mask(i) = i
         /\ i = QueueLength => Mask(i) = 0
BY Constants DEF Mask, Positions

(* The byte behind a stored packet is 0 or it is not. *)
LEMMA LeftBehindType ==
  ASSUME tails \in [Positions -> BOOLEAN], NEW p \in Positions
  PROVE  LeftBehind(p) \in [Positions -> BOOLEAN]
<1> DEFINE remains == written + 1 \in Dirty \/ (tails[p] /\ written + 1 \notin Clean)
<1>1. remains \in BOOLEAN
  OBVIOUS
<1>2. LeftBehind(p) = [tails EXCEPT ![p] = remains]
  BY Zenon DEF LeftBehind
<1> HIDE DEF remains
<1>3. QED
  BY <1>1, <1>2

(* The remainder is the one number below the divisor that is left when whole *)
(* multiples of it are taken away.                                           *)
LEMMA QuotientAndRemainder ==
  ASSUME NEW d \in Int
  PROVE  /\ d = ((d \div QueueLength) * QueueLength) + (d % QueueLength)
         /\ (d % QueueLength) \in Positions
         /\ (d \div QueueLength) \in Int
BY Constants DEF Positions

(* A number is its laps and a position; the remainder is the position.         *)
LEMMA RemainderIsUnique ==
  ASSUME NEW q \in Int, NEW r \in Positions
  PROVE  (q * QueueLength + r) % QueueLength = r
BY Constants DEF Positions

(* A lap more leaves the same remainder; less than a lap is the remainder.   *)
LEMMA LapRemainder ==
  ASSUME NEW d \in Int
  PROVE  (d + QueueLength) % QueueLength = d % QueueLength
<1> DEFINE q == d \div QueueLength
           r == d % QueueLength
<1>1. d = q * QueueLength + r /\ r \in Positions /\ q \in Int
  BY QuotientAndRemainder
<1> HIDE DEF q, r
<1>2. d + QueueLength = (q + 1) * QueueLength + r /\ q + 1 \in Int
  BY <1>1, Constants DEF Positions
<1>3. (d + QueueLength) % QueueLength = r
  BY <1>1, <1>2, RemainderIsUnique
<1>4. QED
  BY <1>3 DEF r

(* A position is its own remainder.                                            *)
LEMMA SmallRemainder == \A d \in Positions : d % QueueLength = d
BY Constants DEF Positions

(* A slot is written once a lap: the writes that went into it are those that *)
(* had a lap before, and the one stored now.                                 *)
LEMMA SlotMatesAfterLap ==
  ASSUME NEW S, NEW old \in Nat, NEW new \in Nat,
         new = old + QueueLength \/ (old = 0 /\ new \in 1 .. QueueLength)
  PROVE  SlotMates(S, new) = SlotMates(S, old) \cup (S \cap {new})
<1>1. ASSUME NEW n \in 1 .. old
      PROVE  (new - n) % QueueLength = 0 <=> (old - n) % QueueLength = 0
  <2>1. new = old + QueueLength /\ old - n \in Int
    BY <1>1
  <2>2. new - n = (old - n) + QueueLength
    BY <1>1, <2>1, Constants
  <2>3. QED
    BY <2>1, <2>2, LapRemainder
<1>2. ASSUME NEW n \in old + 1 .. new - 1
      PROVE  (new - n) % QueueLength # 0
  <2>1. new - n \in Positions /\ new - n # 0
    BY <1>2, Constants DEF Positions
  <2>2. QED
    BY <2>1, SmallRemainder
<1>3. new > old /\ (new - new) % QueueLength = 0
  BY Constants, SmallRemainder DEF Positions
<1>4. QED
  BY <1>1, <1>2, <1>3 DEF SlotMates

(* What memcpy leaves behind the write is what the writes of the slot leave. *)
LEMMA RemainsAfterLap ==
  ASSUME NEW old \in Nat, NEW new \in Nat,
         new = old + QueueLength \/ (old = 0 /\ new \in 1 .. QueueLength)
  PROVE  Remains(new) <=> new \in Dirty \/ (Remains(old) /\ new \notin Clean)
<1>1. /\ SlotMates(Dirty, new) = SlotMates(Dirty, old) \cup (Dirty \cap {new})
      /\ SlotMates(Clean, new) = SlotMates(Clean, old) \cup (Clean \cap {new})
  BY SlotMatesAfterLap
<1>2. /\ \A n \in SlotMates(Dirty, old) : n \in Nat /\ n < new
      /\ \A c \in SlotMates(Clean, old) : c \in Nat /\ c < new
  BY Constants DEF SlotMates
<1>3. CASE new \in Dirty
  <2>1. new \notin Clean
    BY <1>3, Assumptions DEF LengthAssumption
  <2>2. new \in SlotMates(Dirty, new) /\ SlotMates(Clean, new) = SlotMates(Clean, old)
    BY <1>1, <1>3, <2>1
  <2>3. QED
    BY <1>2, <1>3, <2>2 DEF Remains
<1>4. CASE new \notin Dirty /\ new \in Clean
  <2>1. new \in SlotMates(Clean, new) /\ SlotMates(Dirty, new) = SlotMates(Dirty, old)
    BY <1>1, <1>4
  <2>2. \A n \in SlotMates(Dirty, new) : ~(new < n)
    BY <1>2, <2>1
  <2>3. QED
    BY <1>4, <2>1, <2>2 DEF Remains
<1>5. CASE new \notin Dirty /\ new \notin Clean
  BY <1>1, <1>5 DEF Remains
<1>6. QED
  BY <1>3, <1>4, <1>5

(* The queue as main() sets it up satisfies the invariant. *)
LEMMA InitQueueInv == Init => QueueInv
<1> SUFFICES ASSUME Init PROVE QueueInv
  OBVIOUS
<1> USE Constants DEF Init, init_rx_buffer_queue_evt
<1>1. TypeOK
  <2>1. slots \in [Positions -> 0 .. written] /\ tails \in [Positions -> BOOLEAN]
    BY DEF Positions
  <2>2. executed \in [checked : 0 .. written, command : 0 .. written, payload : 0 .. written]
    OBVIOUS
  <2>3. overrun \in BOOLEAN /\ pc \in {"poll", "length", "check", "dispatch", "download", "advance"}
    OBVIOUS
  <2>4. /\ read_index \in 0 .. QueueLength /\ write_index \in 0 .. QueueLength
        /\ written \in 0 .. MaxWrites /\ taken \in Nat
        /\ checked \in 0 .. written /\ command \in 0 .. written
        /\ pc = "poll"
    OBVIOUS
  <2>5. QED
    BY ONLY <2>1, <2>2, <2>3, <2>4 DEF TypeOK
<1>2. SlotsHoldLastLap
  BY DEF SlotsHoldLastLap, lapStart, Positions
<1>3. ReadsForward
  BY DEF ReadsForward, coming, lapStart
<1>4. IndicesAgree
  BY DEF IndicesAgree, backlog, WholePacket
<1>5. TailsAreRemains
  <2>1. \A p \in Positions : slots[p] = 0 /\ ~tails[p]
    OBVIOUS
  <2>2. ~Remains(0)
    BY DEF Remains, SlotMates
  <2>3. QED
    BY ONLY <2>1, <2>2 DEF TailsAreRemains
<1>6. QED
  BY <1>1, <1>2, <1>3, <1>4, <1>5 DEF QueueInv

(* The numbers compared are integers, whatever the state. *)
LEMMA ComingIsInt ==
  ASSUME TypeOK
  PROVE  coming \in Int /\ executed.payload \in Int
<1>1. CASE pc = "poll"
  BY <1>1, Constants DEF TypeOK, coming, lapStart
<1>2. CASE pc # "poll"
  <2>1. coming = slots[read_index] /\ read_index \in Positions
    BY <1>2 DEF TypeOK, coming
  <2>2. QED
    BY <2>1 DEF TypeOK
<1>3. QED
  BY <1>1, <1>2

(* What is coming stays a number.                                              *)
LEMMA ComingIsIntNext ==
  ASSUME TypeOK'
  PROVE  coming' \in Int
<1>1. CASE pc' = "poll"
  BY <1>1, Constants DEF TypeOK, coming, lapStart
<1>2. CASE pc' # "poll"
  <2>1. coming' = slots'[read_index'] /\ read_index' \in Positions
    BY <1>2 DEF TypeOK, coming, Positions
  <2>2. QED
    BY <2>1 DEF TypeOK, Positions
<1>3. QED
  BY <1>1, <1>2

(* The interrupt stores a write, wherever the main loop stands. *)
LEMMA StoreQueueInv ==
  ASSUME QueueInv, add_rx_buffer_to_queue
  PROVE  QueueInv'
<1> DEFINE w == Mask(write_index)
<1>1. /\ w \in Positions
      /\ write_index < QueueLength => w = write_index
      /\ write_index = QueueLength => w = 0
  BY MaskOfIndex DEF QueueInv, TypeOK
<1>2. TypeOK /\ SlotsHoldLastLap /\ ReadsForward /\ IndicesAgree /\ TailsAreRemains
  BY DEF QueueInv
<1>3. /\ slots' = [slots EXCEPT ![w] = written + 1]
      /\ tails' = LeftBehind(w)
      /\ write_index' = w + 1
      /\ written' = written + 1
      /\ written < MaxWrites
      /\ overrun' = (overrun \/ ~Room)
      /\ UNCHANGED <<read_index, pc, checked, command, executed, taken>>
  BY DEF add_rx_buffer_to_queue
<1> HIDE DEF w
<1>4. TypeOK'
  <2>1. tails' \in [Positions -> BOOLEAN]
    BY <1>1, <1>2, <1>3, LeftBehindType DEF TypeOK
  <2>2. QED
    BY <2>1, <1>1, <1>2, <1>3, Constants DEF TypeOK, Positions
<1>5. lapStart' = lapStart \/ lapStart' = lapStart + QueueLength
  BY <1>1, <1>2, <1>3, Constants DEF TypeOK, lapStart
<1>6. SlotsHoldLastLap'
  <2>1. /\ lapStart' = 0 \/ lapStart' >= QueueLength
        /\ write_index' # 0
        /\ IF pc' = "poll" THEN read_index' > write_index' => lapStart' > 0
                           ELSE read_index' >= write_index' => lapStart' > 0
    BY <1>1, <1>2, <1>3, Constants DEF TypeOK, SlotsHoldLastLap, lapStart, Positions
  <2>2. ASSUME NEW p \in Positions
        PROVE  slots'[p] = IF p < write_index' THEN lapStart' + p + 1
                           ELSE IF lapStart' = 0 THEN 0
                           ELSE lapStart' - QueueLength + p + 1
    <3>1. slots'[p] = IF p = w THEN written + 1 ELSE slots[p]
      BY <1>1, <1>2, <1>3 DEF TypeOK
    <3>2. CASE write_index = QueueLength
      <4>1. lapStart' = written /\ write_index' = 1 /\ written >= QueueLength
        BY <1>1, <1>2, <1>3, <3>2, Constants
           DEF TypeOK, SlotsHoldLastLap, lapStart, Positions
      <4>2. slots[p] = written - QueueLength + p + 1
        BY <1>2, <3>2, Constants DEF TypeOK, SlotsHoldLastLap, lapStart, Positions
      <4>3. CASE p = 0
        BY <1>1, <1>2, <3>1, <3>2, <4>1, <4>3, Constants DEF TypeOK, Positions
      <4>4. CASE p > 0
        BY <1>1, <1>2, <3>1, <3>2, <4>1, <4>2, <4>4, Constants DEF TypeOK, Positions
      <4>5. QED
        BY <4>3, <4>4, Constants DEF Positions
    <3>3. CASE write_index < QueueLength
      <4>1. lapStart' = lapStart /\ write_index' = write_index + 1 /\ w = write_index
        BY <1>1, <1>2, <1>3, <3>3, Constants DEF TypeOK, lapStart, Positions
      <4>2. CASE p = w
        BY <1>1, <1>2, <3>1, <4>1, <4>2, Constants DEF TypeOK, lapStart, Positions
      <4>3. CASE p # w
        BY <1>1, <1>2, <3>1, <4>1, <4>3, Constants DEF TypeOK, SlotsHoldLastLap, Positions
      <4>4. QED
        BY <4>2, <4>3
    <3>4. QED
      BY <1>2, <3>2, <3>3, Constants DEF TypeOK
  <2>3. QED
    BY <2>1, <2>2, <1>1, Constants DEF SlotsHoldLastLap, Positions
<1>7. coming <= coming'
  BY <1>1, <1>2, <1>3, Constants
     DEF TypeOK, SlotsHoldLastLap, coming, lapStart, Positions
<1>8. coming \in Int /\ coming' \in Int /\ executed.payload \in Int
  BY <1>2, <1>4, ComingIsInt, ComingIsIntNext
<1>9. ReadsForward'
  BY <1>2, <1>3, <1>7, <1>8 DEF ReadsForward
<1>10. IndicesAgree'
  <2>1. SUFFICES ASSUME ~overrun' PROVE IndicesAgree'
    BY DEF IndicesAgree
  <2>2. ~overrun /\ Room /\ backlog' = backlog + 1
    <3>1. ~overrun /\ Room
      BY <1>3, <2>1, Zenon
    <3>2. backlog' = backlog + 1
      BY <1>2, <1>3, Constants DEF TypeOK, backlog
    <3>3. QED
      BY <3>1, <3>2
  <2>3. backlog' \in 0 .. (IF pc' = "poll" THEN QueueLength - 1 ELSE QueueLength)
    BY <1>2, <1>3, <2>2, Constants DEF IndicesAgree, Room
  <2>4. write_index' \in {read_index' + backlog', read_index' + backlog' - QueueLength}
    BY <1>1, <1>2, <1>3, <2>2, Constants DEF TypeOK, IndicesAgree, Room, backlog, Positions
  <2>5. pc' # "poll" => backlog' > 0
    BY <1>2, <1>3, <2>2, Constants DEF TypeOK, IndicesAgree, backlog
  <2>6. /\ pc' \in {"check", "dispatch", "download"} => checked' = taken' + 1
        /\ pc' \in {"dispatch", "download"} => checked' \in WellFormed
        /\ pc' = "download" => command' = checked'
        /\ WholePacket'
    BY <1>2, <1>3, <2>2 DEF IndicesAgree, WholePacket
  <2>7. QED
    BY <2>3, <2>4, <2>5, <2>6 DEF IndicesAgree
<1>11. TailsAreRemains'
  <2> DEFINE new == written + 1
  <2>1. new \in Nat /\ slots[w] \in Nat /\ tails \in [Positions -> BOOLEAN]
    BY <1>1, <1>2 DEF TypeOK
  <2>2. new = slots[w] + QueueLength \/ (slots[w] = 0 /\ new \in 1 .. QueueLength)
    <3>1. /\ write_index \in 0 .. QueueLength /\ written \in Nat
          /\ lapStart = written - write_index /\ lapStart \in Nat
      BY <1>2, Constants DEF TypeOK, SlotsHoldLastLap, lapStart
    <3>2. slots[w] = IF w < write_index THEN lapStart + w + 1
                     ELSE IF lapStart = 0 THEN 0 ELSE lapStart - QueueLength + w + 1
      BY <1>1, <1>2 DEF SlotsHoldLastLap
    <3>3. CASE write_index = QueueLength
      BY <1>1, <3>1, <3>2, <3>3, Constants
    <3>4. CASE write_index < QueueLength
      BY <1>1, <3>1, <3>2, <3>4, Constants
    <3>5. QED
      BY <3>1, <3>3, <3>4, Constants
  <2>3. Remains(new) <=> new \in Dirty \/ (Remains(slots[w]) /\ new \notin Clean)
    BY <2>1, <2>2, RemainsAfterLap
  <2>4. tails'[w] <=> new \in Dirty \/ (tails[w] /\ new \notin Clean)
    BY <1>1, <1>3, <2>1, Zenon DEF LeftBehind
  <2>5. ASSUME NEW p \in Positions
        PROVE  tails'[p] <=> Remains(slots'[p])
    <3>1. CASE p = w
      <4>1. slots'[w] = new
        BY <1>1, <1>2, <1>3 DEF TypeOK
      <4>2. tails[w] <=> Remains(slots[w])
        BY <1>1, <1>2, Zenon DEF TailsAreRemains
      <4>3. QED
        BY <2>3, <2>4, <3>1, <4>1, <4>2, Zenon
    <3>2. CASE p # w
      <4>1. slots'[p] = slots[p]
        BY <1>1, <1>2, <1>3, <3>2 DEF TypeOK
      <4>2. tails'[p] = tails[p]
        BY <1>3, <2>1, <3>2, Zenon DEF LeftBehind
      <4>3. QED
        BY <1>2, <4>1, <4>2, Zenon DEF TailsAreRemains
    <3>3. QED
      BY <3>1, <3>2
  <2>6. QED
    BY <2>5, Zenon DEF TailsAreRemains
<1>12. QED
  BY <1>4, <1>6, <1>9, <1>10, <1>11 DEF QueueInv

(* The five steps of the main loop. *)
LEMMA PollQueueInv ==
  ASSUME QueueInv, Poll
  PROVE  QueueInv' /\ coming' = coming
<1>1. TypeOK /\ SlotsHoldLastLap /\ ReadsForward /\ IndicesAgree
  BY DEF QueueInv
<1>2. /\ pc = "poll" /\ pc' = "length"
      /\ read_index # write_index
      /\ read_index' = Mask(read_index)
      /\ UNCHANGED <<write_index, slots, tails, checked, command, executed, written, taken, overrun>>
  BY DEF Poll, IsRxBufferQueueEmypt, history
<1>3. /\ read_index' \in Positions
      /\ read_index < QueueLength => read_index' = read_index
      /\ read_index = QueueLength => read_index' = 0
  BY <1>1, <1>2, MaskOfIndex DEF TypeOK
<1>4. TypeOK'
  BY <1>1, <1>2, <1>3, Constants DEF TypeOK, Positions
<1>5. lapStart' = lapStart /\ backlog' = backlog
  BY <1>2 DEF lapStart, backlog
<1>6. SlotsHoldLastLap'
  BY <1>1, <1>2, <1>3, <1>5, Constants DEF TypeOK, SlotsHoldLastLap, lapStart, Positions
<1>7. coming' = coming
  BY <1>1, <1>2, <1>3, Constants DEF TypeOK, SlotsHoldLastLap, coming, lapStart, Positions
<1>8. ReadsForward'
  BY <1>1, <1>2, <1>7 DEF ReadsForward
<1>9. IndicesAgree'
  <2>1. SUFFICES ASSUME ~overrun PROVE IndicesAgree'
    BY <1>2 DEF IndicesAgree
  <2>2. /\ backlog \in 1 .. QueueLength
        /\ write_index \in {read_index' + backlog, read_index' + backlog - QueueLength}
    <3>1. /\ backlog \in 0 .. QueueLength - 1
          /\ write_index = read_index + backlog \/ write_index = read_index + backlog - QueueLength
      BY <1>1, <1>2, <2>1 DEF IndicesAgree
    <3>2. /\ read_index \in 0 .. QueueLength /\ write_index \in 0 .. QueueLength
          /\ write_index = 0 => read_index = 0
      BY <1>1 DEF TypeOK, SlotsHoldLastLap
    <3>3. backlog # 0
      BY <1>2, <3>1, <3>2, Constants
    <3>4. QED
      BY <1>3, <3>1, <3>2, <3>3, Constants
  <2>3. QED
    BY <1>1, <1>2, <1>5, <2>1, <2>2, Constants DEF IndicesAgree, WholePacket
<1>10. TailsAreRemains'
  BY <1>2 DEF QueueInv, TailsAreRemains, Remains, SlotMates
<1>11. QED
  BY <1>4, <1>6, <1>7, <1>8, <1>9, <1>10 DEF QueueInv

(* While a packet is being served, the slot holds the oldest write not yet   *)
(* taken, unless the phone outran the queue.                                 *)
LEMMA ServesOldest ==
  ASSUME QueueInv, pc # "poll"
  PROVE  /\ coming = slots[read_index]
         /\ ~overrun => coming = taken + 1
BY Constants DEF QueueInv, TypeOK, SlotsHoldLastLap, IndicesAgree, coming, lapStart,
                 backlog, Positions

(* The reads of the slot change no index. *)
LEMMA ReadQueueInv ==
  ASSUME QueueInv, ReadLength \/ al_check_recv_packet \/ Dispatch \/ Download
  PROVE  QueueInv' /\ coming' = coming
<1>1. TypeOK /\ SlotsHoldLastLap /\ ReadsForward /\ IndicesAgree
  BY DEF QueueInv
<1>2. /\ pc \in {"length", "check", "dispatch", "download"}
      /\ pc' \in {"check", "dispatch", "download", "advance"}
      /\ UNCHANGED <<read_index, write_index, slots, tails, written, taken, overrun>>
  BY DEF ReadLength, al_check_recv_packet, Dispatch, Download, queue, history
<1>3. slots[read_index] \in 0 .. written
  BY <1>1, <1>2 DEF TypeOK
<1>4. slots[read_index] = coming /\ (~overrun => coming = taken + 1)
  BY <1>2, ServesOldest
<1>5. coming' = coming
  BY <1>2, <1>4 DEF coming
<1>6. TypeOK'
  BY <1>1, <1>2, <1>3 DEF TypeOK, ReadLength, al_check_recv_packet, Dispatch, Download
<1>7. SlotsHoldLastLap'
  BY <1>1, <1>2 DEF SlotsHoldLastLap, lapStart
<1>8. ReadsForward'
  BY <1>1, <1>2, <1>3, <1>4, <1>5
     DEF ReadsForward, TypeOK, ReadLength, al_check_recv_packet, Dispatch, Download
<1>9. IndicesAgree'
  <2>1. SUFFICES ASSUME ~overrun PROVE IndicesAgree'
    BY <1>2 DEF IndicesAgree
  <2>2. /\ backlog' \in 0 .. (IF pc' = "poll" THEN QueueLength - 1 ELSE QueueLength)
        /\ write_index' \in {read_index' + backlog', read_index' + backlog' - QueueLength}
        /\ backlog' > 0
    BY <1>1, <1>2, <2>1 DEF IndicesAgree, backlog
  <2>3. /\ pc' \in {"check", "dispatch", "download"} => checked' = taken' + 1
        /\ pc' \in {"dispatch", "download"} => checked' \in WellFormed
        /\ pc' = "download" => command' = checked'
        /\ WholePacket'
    BY <1>1, <1>2, <1>4, <2>1 
       DEF IndicesAgree, WholePacket, ReadLength, al_check_recv_packet, Passes, Dispatch, Download
  <2>4. QED
    BY <2>2, <2>3 DEF IndicesAgree
<1>10. TailsAreRemains'
  BY <1>2 DEF QueueInv, TailsAreRemains, Remains, SlotMates
<1>11. QED
  BY <1>5, <1>6, <1>7, <1>8, <1>9, <1>10 DEF QueueInv

(* The slot is released: what comes next is younger than what it held.       *)
LEMMA AdvanceQueueInv ==
  ASSUME QueueInv, Advance
  PROVE  QueueInv'
<1>1. TypeOK /\ SlotsHoldLastLap /\ ReadsForward /\ IndicesAgree
  BY DEF QueueInv
<1>2. /\ pc = "advance" /\ pc' = "poll"
      /\ read_index' = read_index + 1
      /\ taken' = taken + 1
      /\ UNCHANGED <<write_index, slots, tails, checked, command, executed, written, overrun>>
  BY DEF Advance
<1>3. TypeOK'
  BY <1>1, <1>2, Constants DEF TypeOK, Positions
<1>4. SlotsHoldLastLap'
  BY <1>1, <1>2, Constants DEF TypeOK, SlotsHoldLastLap, lapStart, Positions
<1>5. coming < coming'
  BY <1>1, <1>2, Constants DEF TypeOK, SlotsHoldLastLap, coming, lapStart, Positions
<1>6. coming \in Int /\ coming' \in Int /\ executed.payload \in Int
  BY <1>1, <1>3, ComingIsInt, ComingIsIntNext
<1>7. ReadsForward'
  BY <1>1, <1>2, <1>5, <1>6 DEF ReadsForward
<1>8. IndicesAgree'
  BY <1>1, <1>2, Constants DEF TypeOK, IndicesAgree, WholePacket, backlog, Positions
<1>9. TailsAreRemains'
  BY <1>2 DEF QueueInv, TailsAreRemains, Remains, SlotMates
<1>10. QED
  BY <1>3, <1>4, <1>7, <1>8, <1>9 DEF QueueInv

-----------------------------------------------------------------------------

(* Every step of the main loop and of the interrupt keeps the invariant. *)
LEMMA NextQueueInv == QueueInv /\ [Next]_vars => QueueInv'
<1> SUFFICES ASSUME QueueInv, [Next]_vars PROVE QueueInv'
  OBVIOUS
<1>1. CASE add_rx_buffer_to_queue
  BY <1>1, StoreQueueInv
<1>2. CASE Poll
  BY <1>2, PollQueueInv
<1>3. CASE ReadLength \/ al_check_recv_packet \/ Dispatch \/ Download
  BY <1>3, ReadQueueInv
<1>4. CASE Advance
  BY <1>4, AdvanceQueueInv
<1>5. CASE UNCHANGED vars
  BY <1>5 DEF vars, queue, history, QueueInv, TypeOK, SlotsHoldLastLap, ReadsForward,
              IndicesAgree, TailsAreRemains, Remains, SlotMates, WholePacket, coming,
              lapStart, backlog, Positions
<1>6. QED
  BY <1>1, <1>2, <1>3, <1>4, <1>5 DEF Next, rx_buffer_queue_evt_schedule, PollEmpty

(* The inductive invariant holds in every reachable state: the slots hold    *)
(* the last lap of writes, the reader only moves forward, and the two        *)
(* indices differ by the backlog up to a lap while nothing was outrun.       *)
THEOREM QueueInvariant == Spec => []QueueInv
BY InitQueueInv, NextQueueInv, PTL DEF Spec

(* The unmasked indices never leave 0 .. QueueLength and only slots that     *)
(* exist are read or written (rx_buffer_queue.c:36, 51).                     *)
THEOREM TypeCorrect == Spec => []TypeOK
<1>1. QueueInv => TypeOK
  BY DEF QueueInv
<1>2. QED
  BY <1>1, QueueInvariant, PTL

(* No packet is put together from two writes unless the phone outruns the    *)
(* queue, although the main loop reads the slot in several steps.            *)
THEOREM NoTornPacket == Spec => []WholePacket
<1>1. QueueInv => WholePacket
  BY DEF QueueInv, IndicesAgree, WholePacket
<1>2. QED
  BY <1>1, QueueInvariant, PTL

(* Comparing the two unmasked indices is the right test of emptiness up to   *)
(* QueueLength - 1 stored writes (rx_buffer_queue.c:12).                     *)
THEOREM EmptyTestRight == Spec => []EmptyIsEmpty
<1>1. QueueInv => EmptyIsEmpty
  <2>1. SUFFICES ASSUME QueueInv, ~overrun, pc = "poll"
                 PROVE  IsRxBufferQueueEmypt <=> backlog = 0
    BY DEF EmptyIsEmpty
  <2>2. /\ backlog \in 0 .. QueueLength - 1
        /\ write_index = read_index + backlog \/ write_index = read_index + backlog - QueueLength
    BY <2>1 DEF QueueInv, IndicesAgree
  <2>3. /\ read_index \in 0 .. QueueLength /\ write_index \in 0 .. QueueLength
        /\ write_index = 0 => read_index = 0
    BY <2>1 DEF QueueInv, TypeOK, SlotsHoldLastLap
  <2>4. QED
    BY <2>2, <2>3, Constants DEF IsRxBufferQueueEmypt
<1>2. QED
  BY <1>1, QueueInvariant, PTL

(* Whatever the load, packets are executed in the order of their writes and  *)
(* none is executed twice: even a lap the interrupt overwrote is skipped     *)
(* forward, never back.                                                      *)
THEOREM ExecutedInOrder == Spec => InOrder
<1>1. ASSUME QueueInv, [Next]_vars
      PROVE  executed' # executed => executed'.payload > executed.payload
  <2>1. CASE Download
    <3>1. executed'.payload = coming /\ executed.payload < coming
      BY <1>1, <2>1, ServesOldest DEF Download, QueueInv, ReadsForward
    <3>2. coming \in Nat /\ executed.payload \in Nat
      BY <1>1, <2>1, ServesOldest DEF Download, QueueInv, TypeOK
    <3>3. QED
      BY <3>1, <3>2
  <2>2. CASE UNCHANGED executed
    BY <2>2
  <2>3. QED
    BY <1>1, <2>1, <2>2
       DEF Next, rx_buffer_queue_evt_schedule, add_rx_buffer_to_queue, Poll, PollEmpty,
           ReadLength, al_check_recv_packet, Dispatch, Advance, vars
<1>2. QueueInv /\ [Next]_vars => [executed' # executed => executed'.payload > executed.payload]_vars
  BY <1>1
<1>3. QED
  BY <1>2, QueueInvariant, PTL DEF Spec, InOrder

(* A right packet is refused only for the byte that an earlier, longer write *)
(* left in its slot, whatever the length of the queue and the load; when the *)
(* phone stores another over it in the course of the check, it has outrun    *)
(* the queue (application.c:78, rx_buffer_queue.c:53).                       *)
THEOREM RefusedOnlyByRemains == Spec => RefusedByRemains
<1> DEFINE SameSlot(S) == {n \in S \cap 1 .. checked - 1 : (checked - n) % QueueLength = 0}
           Left == \E n \in SameSlot(Dirty) : \A c \in SameSlot(Clean) : c < n
           Refused == pc = "check" /\ pc' # "check" /\ checked \in WellFormed
                        => IF slots[read_index] = checked
                           THEN pc' = "advance" <=> checked \in Odd /\ Left
                           ELSE overrun
<1>1. ASSUME QueueInv, [Next]_vars
      PROVE  Refused
  <2> SUFFICES ASSUME pc = "check", pc' # "check", checked \in WellFormed
               PROVE  IF slots[read_index] = checked
                      THEN pc' = "advance" <=> checked \in Odd /\ Left
                      ELSE overrun
    OBVIOUS
  <2>1. al_check_recv_packet
    BY <1>1 DEF Next, rx_buffer_queue_evt_schedule, add_rx_buffer_to_queue, Poll, PollEmpty,
                ReadLength, Dispatch, Download, Advance, vars
  <2>2. slots[read_index] # checked => overrun
    BY <1>1, ServesOldest DEF QueueInv, IndicesAgree
  <2>3. ASSUME slots[read_index] = checked
        PROVE  pc' = "advance" <=> checked \in Odd /\ Left
    <3>1. pc' = "advance" <=> checked \in Odd /\ tails[read_index]
      BY <2>1, <2>3 DEF al_check_recv_packet, Passes
    <3>2. read_index \in Positions /\ checked \in Nat
      BY <1>1, Constants DEF QueueInv, TypeOK
    <3>3. tails[read_index] <=> Remains(checked)
      BY <1>1, <2>3, <3>2, Zenon DEF QueueInv, TailsAreRemains
    <3>4. ASSUME checked \in Odd
          PROVE  /\ SlotMates(Dirty, checked) = SameSlot(Dirty)
                 /\ SlotMates(Clean, checked) = SameSlot(Clean)
      <4>1. checked \notin Dirty /\ checked \notin Clean
        BY <3>4, Assumptions DEF LengthAssumption
      <4>2. QED
        BY <3>2, <4>1 DEF SlotMates
    <3>5. checked \in Odd => (Remains(checked) <=> Left)
      BY <3>4 DEF Remains
    <3>6. QED
      BY <3>1, <3>3, <3>5, Zenon
  <2>4. QED
    BY <2>2, <2>3
<1>2. QueueInv /\ [Next]_vars => [Refused]_vars
  BY <1>1
<1>3. QED
  BY <1>2, QueueInvariant, PTL DEF Spec, RefusedByRemains

-----------------------------------------------------------------------------

(* The sequence of the numbers after t, as the refinement mapping builds it. *)
LEMMA Window ==
  ASSUME NEW t \in Nat, NEW n \in Nat
  PROVE  LET window == [i \in 1 .. n |-> t + i]
         IN  /\ window \in Seq(Nat)
             /\ Len(window) = n
             /\ Append(window, t + n + 1) = [i \in 1 .. n + 1 |-> t + i]
             /\ n > 0 => /\ Head(window) = t + 1
                         /\ Tail(window) = [i \in 1 .. n - 1 |-> t + 1 + i]
<1> DEFINE window == [i \in 1 .. n |-> t + i]
<1>1. window \in Seq(Nat) /\ Len(window) = n
  OBVIOUS
<1>2. Append(window, t + n + 1) = [i \in 1 .. n + 1 |-> t + i]
  BY <1>1
<1>3. ASSUME n > 0
      PROVE  /\ Head(window) = t + 1
             /\ Tail(window) = [i \in 1 .. n - 1 |-> t + 1 + i]
  BY <1>1, <1>3
<1>4. QED
  BY <1>1, <1>2, <1>3

(* Where the main loop stands, as RxFifo sees it. *)
LEMMA PhaseOfPc ==
  /\ pc = "poll" => phaseBar = "idle"
  /\ pc = "advance" => phaseBar = "served"
  /\ pc \notin {"poll", "advance"} => phaseBar = "serving"
BY DEF phaseBar

(* The same after a step.                                                      *)
LEMMA PhaseOfPcNext ==
  /\ pc' = "poll" => phaseBar' = "idle"
  /\ pc' = "advance" => phaseBar' = "served"
  /\ pc' \notin {"poll", "advance"} => phaseBar' = "serving"
BY DEF phaseBar

(* What the invariant says of the abstract queue before anything is lost. *)
LEMMA PendingFacts ==
  ASSUME QueueInv, ~overrun
  PROVE  /\ taken \in Nat /\ backlog \in Nat
         /\ Len(pendingBar) = backlog
         /\ Append(pendingBar, written + 1) = [i \in 1 .. backlog + 1 |-> taken + i]
         /\ backlog > 0 => /\ pendingBar # <<>>
                           /\ Head(pendingBar) = taken + 1
                           /\ Tail(pendingBar) = [i \in 1 .. backlog - 1 |-> taken + 1 + i]
<1>1. taken \in Nat /\ backlog \in Nat
  BY DEF QueueInv, TypeOK, IndicesAgree
<1>2. written = taken + backlog
  BY <1>1 DEF QueueInv, TypeOK, backlog
<1>3. /\ pendingBar \in Seq(Nat) /\ Len(pendingBar) = backlog
      /\ Append(pendingBar, taken + backlog + 1) = [i \in 1 .. backlog + 1 |-> taken + i]
      /\ backlog > 0 => /\ Head(pendingBar) = taken + 1
                        /\ Tail(pendingBar) = [i \in 1 .. backlog - 1 |-> taken + 1 + i]
  BY <1>1, Window DEF pendingBar
<1>4. backlog > 0 => pendingBar # <<>>
  BY <1>1, <1>3
<1>5. QED
  BY <1>1, <1>2, <1>3, <1>4

(* Main loop and interrupt together implement the FIFO of RxFifo: every step *)
(* of the code is the abstract operation it should be, or changes nothing    *)
(* the abstract queue shows.                                                 *)
THEOREM QueueImplementsFifo == Spec => ImplementsFifo
<1> USE DEF Fifo!fifoVars
<1>1. Init => Fifo!Init
  <2>1. SUFFICES ASSUME Init PROVE Fifo!Init
    OBVIOUS
  <2>2. backlog = 0 /\ pc = "poll" /\ executed.payload = 0 /\ overrun = FALSE /\ taken = 0
    BY <2>1 DEF Init, backlog
  <2>3. pendingBar = <<>>
    BY <2>2 DEF pendingBar
  <2>4. phaseBar = "idle"
    BY <2>2, PhaseOfPc
  <2>5. QED
    BY <2>2, <2>3, <2>4 DEF Fifo!Init
<1>2. ASSUME QueueInv, [Next]_vars
      PROVE  [Fifo!Next]_(Fifo!fifoVars)
  <2>1. CASE overrun /\ ~UNCHANGED vars
    <3>1. overrun' = TRUE
      BY <1>2, <2>1
         DEF Next, rx_buffer_queue_evt_schedule, add_rx_buffer_to_queue, Poll, PollEmpty,
             ReadLength, al_check_recv_packet, Dispatch, Download, Advance, history, vars,
             QueueInv, TypeOK
    <3>2. QED
      BY <2>1, <3>1 DEF Fifo!Next, Fifo!Outrun
  <2>2. CASE UNCHANGED vars
    BY <2>2 DEF vars, queue, history, backlog, pendingBar, phaseBar
  <2>3. CASE ~overrun /\ add_rx_buffer_to_queue
    <3>1. /\ written' = written + 1 /\ taken' = taken /\ written + 1 \in 1 .. MaxWrites
          /\ pc' = pc /\ executed' = executed
          /\ overrun' = (overrun \/ ~Room)
      BY <1>2, <2>3, Constants DEF add_rx_buffer_to_queue, QueueInv, TypeOK
    <3>2. Room <=> Fifo!Room
      BY <1>2, <2>3, PendingFacts, PhaseOfPc, Constants
         DEF Room, Fifo!Room, pendingBar, phaseBar
    <3>3. CASE Room
      <4>1. overrun' = overrun
        BY <2>3, <3>1, <3>3, <1>2, Zenon DEF QueueInv, TypeOK
      <4>2. backlog' = backlog + 1
        BY <1>2, <3>1 DEF backlog, QueueInv, TypeOK
      <4>3. pendingBar' = Append(pendingBar, written + 1)
        BY <1>2, <2>3, <3>1, <4>2, PendingFacts DEF pendingBar
      <4>4. phaseBar' = phaseBar
        BY <3>1 DEF phaseBar
      <4>5. Fifo!Store
        BY <3>1, <3>2, <3>3, <4>1, <4>3, <4>4 DEF Fifo!Store
      <4>6. QED
        BY <4>5 DEF Fifo!Next
    <3>4. CASE ~Room
      <4>1. overrun' = TRUE
        BY <3>1, <3>4, Zenon
      <4>2. QED
        BY <3>2, <3>4, <4>1 DEF Fifo!Next, Fifo!Outrun
    <3>5. QED
      BY <3>3, <3>4
  <2>4. CASE ~overrun /\ Poll
    <3>1. /\ pc = "poll" /\ pc' = "length" /\ backlog' = backlog /\ taken' = taken
          /\ executed' = executed /\ overrun' = overrun
      BY <2>4 DEF Poll, history, backlog
    <3>2. backlog > 0
      BY <1>2, <2>4, PollQueueInv, <3>1 DEF QueueInv, IndicesAgree
    <3>3. pendingBar' = pendingBar
      BY <3>1 DEF pendingBar
    <3>4. Fifo!Serve
      BY <1>2, <2>4, <3>1, <3>2, <3>3, PendingFacts, PhaseOfPc, PhaseOfPcNext
         DEF Fifo!Serve
    <3>5. QED
      BY <3>4 DEF Fifo!Next
  <2>5. CASE ~overrun /\ (ReadLength \/ al_check_recv_packet \/ Dispatch \/ Download)
    <3>1. /\ pc \in {"length", "check", "dispatch", "download"}
          /\ backlog' = backlog /\ taken' = taken /\ overrun' = overrun
      BY <2>5 DEF ReadLength, al_check_recv_packet, Dispatch, Download, queue, history, backlog
    <3>2. phaseBar = "serving" /\ pendingBar' = pendingBar
      BY <3>1, PhaseOfPc DEF pendingBar
    <3>3. slots[read_index] = taken + 1 /\ Head(pendingBar) = taken + 1
      BY <1>2, <2>5, <3>1, ServesOldest, PendingFacts DEF QueueInv, IndicesAgree
    <3>4. CASE ReadLength \/ (al_check_recv_packet /\ Passes(read_index))
      <4>1. pc = "check" => checked = slots[read_index]
        BY <1>2, <2>5, <3>3 DEF QueueInv, IndicesAgree
      <4>2. pc' \in {"check", "dispatch"} /\ executed' = executed
        BY <3>4, <4>1 DEF ReadLength, al_check_recv_packet
      <4>3. phaseBar' = "serving"
        BY <4>2, PhaseOfPcNext
      <4>4. QED
        BY <3>1, <3>2, <4>2, <4>3
    <3>5. CASE al_check_recv_packet /\ ~Passes(read_index)
      <4>1. checked = slots[read_index]
        BY <1>2, <2>5, <3>3, <3>5 DEF QueueInv, IndicesAgree, al_check_recv_packet
      <4>2. phaseBar' = "served" /\ executed' = executed
        BY <3>5, <4>1, PhaseOfPcNext DEF al_check_recv_packet
      <4>3. Fifo!Reject
        BY <3>1, <3>2, <3>3, <3>5, <4>2 DEF Fifo!Reject, Passes
      <4>4. QED
        BY <4>3 DEF Fifo!Next
    <3>6. CASE Dispatch
      <4>1. phaseBar' = "serving" /\ executed' = executed
        BY <3>6, PhaseOfPcNext DEF Dispatch
      <4>2. QED
        BY <3>1, <3>2, <4>1
    <3>7. CASE Download
      <4>1. phaseBar' = "served" /\ executed'.payload = Head(pendingBar)
        BY <3>3, <3>7, PhaseOfPcNext DEF Download
      <4>2. Head(pendingBar) \in WellFormed
        BY <1>2, <2>5, <3>1, <3>3, <3>7 DEF Download, QueueInv, IndicesAgree
      <4>3. Fifo!Deliver
        BY <3>1, <3>2, <4>1, <4>2 DEF Fifo!Deliver
      <4>4. QED
        BY <4>3 DEF Fifo!Next
    <3>8. QED
      BY <2>5, <3>4, <3>5, <3>6, <3>7
  <2>6. CASE ~overrun /\ Advance
    <3>1. /\ pc = "advance" /\ pc' = "poll" /\ backlog' = backlog - 1 /\ taken' = taken + 1
          /\ executed' = executed /\ overrun' = overrun
      BY <1>2, <2>6 DEF Advance, backlog, QueueInv, TypeOK
    <3>2. backlog > 0
      BY <1>2, <2>6, <3>1 DEF QueueInv, IndicesAgree
    <3>3. pendingBar' = Tail(pendingBar)
      BY <1>2, <2>6, <3>1, <3>2, PendingFacts DEF pendingBar
    <3>4. Fifo!Remove
      BY <3>1, <3>3, PhaseOfPc, PhaseOfPcNext DEF Fifo!Remove
    <3>5. QED
      BY <3>4 DEF Fifo!Next
  <2>7. overrun \in BOOLEAN
    BY <1>2 DEF QueueInv, TypeOK
  <2>8. QED
    BY <1>2, <2>1, <2>2, <2>3, <2>4, <2>5, <2>6, <2>7
       DEF Next, rx_buffer_queue_evt_schedule, PollEmpty
<1>3. QED
  BY <1>1, <1>2, QueueInvariant, PTL DEF Spec, ImplementsFifo, Fifo!Spec
=============================================================================
