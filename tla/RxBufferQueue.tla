---------------------------- MODULE RxBufferQueue ----------------------------
(***************************************************************************)
(* The RX buffer queue (Source/Buffer/rx_buffer_queue.c) between the BLE    *)
(* event interrupt, which stores every write of the phone, and the main     *)
(* loop, which takes one stored write per turn and hands it, in place, to   *)
(* the application layer.  The interrupt runs to completion whenever it     *)
(* likes, so it is one action; the main loop is cut at each access to the   *)
(* shared queue.  A write is known by its sequence number.                  *)
(***************************************************************************)
EXTENDS Integers

CONSTANTS QueueLength,  \* RX_BUFFER_QUEUE_LENGTH
          MaxWrites,    \* bound: writes the phone sends in a behaviour
          WellFormed,   \* the writes that carry a packet with the right header and checksum
          Odd,          \* the writes of an odd length
          Dirty, Clean  \* the longer writes, by the byte they leave where an odd one ends

(* A power of two, so that the mask is the remainder. *)
QueueLengthAssumption == QueueLength \in Nat \ {0}

(* A slot that was never written is all zero: its magic number is wrong. *)
WellFormedAssumption == MaxWrites \in Nat /\ WellFormed \subseteq Nat \ {0}

(* One odd length: Dirty writes have a byte other than 0 just behind it,     *)
(* Clean ones a 0, the others do not reach it.                               *)
LengthAssumption == Odd \cap (Dirty \cup Clean) = {} /\ Dirty \cap Clean = {}

ASSUME Assumptions == QueueLengthAssumption /\ WellFormedAssumption /\ LengthAssumption

VARIABLES read_index, write_index,  \* unmasked between turns: 0 .. QueueLength
          slots,      \* p_buffer: the number of the write each element holds
          tails,      \* p_buffer: is the byte behind an odd write in it other than 0
          pc,         \* of the main loop
          checked,    \* the write whose length was read, which is checked
          command,    \* the write al_recv_packet took the command id from
          executed,   \* what the last executed packet was made of
          written,    \* history: writes stored so far
          taken,      \* history: slots the main loop is done with
          overrun     \* history: a write was stored with no room for it

queue == <<read_index, write_index, slots, tails>>
history == <<written, taken, overrun>>
vars == <<queue, pc, checked, command, executed, history>>

Positions == 0 .. QueueLength - 1

(* index & ROTATION_MASK *)
Mask(i) == i % QueueLength

(* Mutant: only one of the two indices is masked for the comparison. *)
EmptyMaskedOnce == read_index = Mask(write_index)

IsRxBufferQueueEmypt == read_index = write_index

backlog == written - taken

(* The queue cannot tell QueueLength stored writes from none when the main   *)
(* loop asks, but the slot being served is released without asking.          *)
Room == backlog < IF pc = "poll" THEN QueueLength - 1 ELSE QueueLength

-----------------------------------------------------------------------------

init_rx_buffer_queue_evt ==
  /\ read_index = 0
  /\ write_index = 0
  /\ slots = [p \in Positions |-> 0]
  /\ tails = [p \in Positions |-> FALSE]

Init ==
  /\ init_rx_buffer_queue_evt
  /\ pc = "poll"
  /\ checked = 0 /\ command = 0
  /\ executed = [checked |-> 0, command |-> 0, payload |-> 0]
  /\ written = 0 /\ taken = 0
  /\ overrun = FALSE

(* memcpy of the length received: what lies behind it stays as it was. *)
LeftBehind(p) == [tails EXCEPT ![p] = written + 1 \in Dirty \/ (@ /\ written + 1 \notin Clean)]

(* Mutant: the write is copied to the element at read_index. *)
StoredAtReadIndex ==
  /\ written < MaxWrites
  /\ slots' = [slots EXCEPT ![Mask(read_index)] = written + 1]
  /\ tails' = LeftBehind(Mask(read_index))
  /\ write_index' = Mask(write_index) + 1
  /\ written' = written + 1
  /\ overrun' = (overrun \/ ~Room)
  /\ UNCHANGED <<read_index, pc, checked, command, executed, taken>>

(* Mutant: write_index is masked after its increment, not before. *)
MaskedAfterStoring ==
  /\ written < MaxWrites
  /\ slots' = [slots EXCEPT ![write_index] = written + 1]
  /\ tails' = LeftBehind(Mask(write_index))
  /\ write_index' = Mask(write_index + 1)
  /\ written' = written + 1
  /\ overrun' = (overrun \/ ~Room)
  /\ UNCHANGED <<read_index, pc, checked, command, executed, taken>>

(* The interrupt: on_write, ble_uart_recv_handler, add_rx_buffer_to_queue.   *)
(* It copies the write and never looks at read_index.                        *)
add_rx_buffer_to_queue ==
  /\ written < MaxWrites
  /\ slots' = [slots EXCEPT ![Mask(write_index)] = written + 1]
  /\ tails' = LeftBehind(Mask(write_index))
  /\ write_index' = Mask(write_index) + 1
  /\ written' = written + 1
  /\ overrun' = (overrun \/ ~Room)
  /\ UNCHANGED <<read_index, pc, checked, command, executed, taken>>

(* rx_buffer_queue_evt_schedule: the test and the masking of read_index.     *)
Poll ==
  /\ pc = "poll"
  /\ ~IsRxBufferQueueEmypt
  /\ read_index' = Mask(read_index)
  /\ pc' = "length"
  /\ UNCHANGED <<write_index, slots, tails, checked, command, executed, history>>

(* The test finds the queue empty: the turn of the main loop does nothing.   *)
PollEmpty ==
  /\ pc = "poll"
  /\ IsRxBufferQueueEmypt
  /\ UNCHANGED vars

(* Mutant: the word count of the checksum is rounded down. *)
LastByteUncovered(p) == slots[p] \in WellFormed

(* checksum: it counts an odd length up to whole words, so that the byte     *)
(* behind the packet is summed too.                                          *)
Passes(p) == slots[p] \in WellFormed /\ ~(slots[p] \in Odd /\ tails[p])

(* The slot is passed in place, its length by value.                         *)
ReadLength ==
  /\ pc = "length"
  /\ checked' = slots[read_index]
  /\ pc' = "check"
  /\ UNCHANGED <<queue, command, executed, history>>

(* Mutant: a packet that fails the check ends the turn of the main loop. *)
CheckReturnsEarly ==
  /\ pc = "check"
  /\ pc' = IF Passes(read_index) THEN "dispatch" ELSE "poll"
  /\ UNCHANGED <<queue, checked, command, executed, history>>

(* Header and checksum are read from the slot, word by word.  A write that   *)
(* came over it since its length was read makes them those of two packets,   *)
(* cut anywhere: they may come out right or wrong.                           *)
al_check_recv_packet ==
  /\ pc = "check"
  /\ pc' \in {"dispatch", "advance"}
  /\ slots[read_index] = checked => (pc' = "dispatch" <=> Passes(read_index))
  /\ UNCHANGED <<queue, checked, command, executed, history>>

(* al_recv_packet copies the AL header and switches on the command id. *)
Dispatch ==
  /\ pc = "dispatch"
  /\ command' = slots[read_index]
  /\ pc' = "download"
  /\ UNCHANGED <<queue, checked, executed, history>>

(* The handler of the command: al_download_payload copies the payload out of *)
(* the slot, and the rest of the handler works on the copy.                  *)
Download ==
  /\ pc = "download"
  /\ executed' = [checked |-> checked, command |-> command, payload |-> slots[read_index]]
  /\ pc' = "advance"
  /\ UNCHANGED <<queue, checked, command, history>>

(* Mutant: read_index is masked after its increment too. *)
AdvanceMasked ==
  /\ pc = "advance"
  /\ read_index' = Mask(read_index + 1)
  /\ taken' = taken + 1
  /\ pc' = "poll"
  /\ UNCHANGED <<write_index, slots, tails, checked, command, executed, written, overrun>>

(* Back in rx_buffer_queue_evt_schedule, whatever al_recv_packet returned. *)
Advance ==
  /\ pc = "advance"
  /\ read_index' = read_index + 1
  /\ taken' = taken + 1
  /\ pc' = "poll"
  /\ UNCHANGED <<write_index, slots, tails, checked, command, executed, written, overrun>>

rx_buffer_queue_evt_schedule ==
  Poll \/ PollEmpty \/ ReadLength \/ al_check_recv_packet \/ Dispatch \/ Download \/ Advance

Next == rx_buffer_queue_evt_schedule \/ add_rx_buffer_to_queue

(* The main loop is for (;;) with nothing in it that waits for the phone:    *)
(* it always takes its next step.  Nothing obliges the phone to write.       *)
Fairness == WF_vars(rx_buffer_queue_evt_schedule)

Spec == Init /\ [][Next]_vars

FairSpec == Spec /\ Fairness

-----------------------------------------------------------------------------

(* The indices stay within one of the array, so that masking them always     *)
(* yields a slot (rx_buffer_queue.c:36, 51), and the slots hold real writes. *)
TypeOK ==
  /\ read_index \in 0 .. QueueLength
  /\ write_index \in 0 .. QueueLength
  /\ slots \in [Positions -> 0 .. written]
  /\ tails \in [Positions -> BOOLEAN]
  /\ pc \in {"poll", "length", "check", "dispatch", "download", "advance"}
  /\ pc # "poll" => read_index \in Positions
  /\ checked \in 0 .. written
  /\ command \in 0 .. written
  /\ executed \in [checked : 0 .. written, command : 0 .. written, payload : 0 .. written]
  /\ written \in 0 .. MaxWrites
  /\ taken \in Nat
  /\ overrun \in BOOLEAN

(* While the phone does not outrun the queue, an executed packet is one      *)
(* write: its checksum, its command id and its payload come from the same    *)
(* one although the interrupt stores others between the reads of the slot    *)
(* (application.c:296, 300, 166).                                            *)
WholePacket ==
  ~overrun => /\ executed.checked = executed.command
              /\ executed.command = executed.payload

(* While the phone does not outrun the queue, the comparison of the two      *)
(* unmasked indices tells the main loop the truth: it sees an empty queue    *)
(* exactly when nothing is stored, whichever of the indices has been masked  *)
(* since it last wrapped (rx_buffer_queue.c:12, 36, 51).                     *)
EmptyIsEmpty ==
  ~overrun /\ pc = "poll" => (IsRxBufferQueueEmypt <=> backlog = 0)

(* Whatever the load, the main loop never goes back: a packet it executes    *)
(* was stored after all those it executed before, even when a whole lap was  *)
(* overwritten in between.  No packet is executed twice.                     *)
InOrder == [][executed' # executed => executed'.payload > executed.payload]_vars

(* A right packet is refused in two cases only.  Either the phone outran the *)
(* queue and stored another write over it while it was being checked, or its *)
(* length is odd and an earlier, longer write of the same slot left a byte   *)
(* behind it that no longer one has cleared since (application.c:78,         *)
(* rx_buffer_queue.c:53).                                                    *)
RefusedByRemains ==
  [][LET SameSlot(S) == {n \in S \cap 1 .. checked - 1 : (checked - n) % QueueLength = 0}
     IN  pc = "check" /\ pc' # "check" /\ checked \in WellFormed
           => IF slots[read_index] = checked
              THEN pc' = "advance" <=>
                     checked \in Odd /\ \E n \in SameSlot(Dirty) : \A c \in SameSlot(Clean) : c < n
              ELSE overrun]_vars

(* The inductive invariant, in four parts.  The indices are known only up    *)
(* to a lap, so each part says which lap a slot belongs to.                  *)

(* lapStart is the number of writes stored before write_index last wrapped.  *)
lapStart == written - write_index

(* Whatever the load, the slots below write_index hold the current lap, the  *)
(* others the lap before (nothing, in the first lap).                        *)
SlotsHoldLastLap ==
  /\ lapStart = 0 \/ lapStart >= QueueLength
  /\ write_index = 0 => written = 0 /\ read_index = 0
  /\ \A p \in Positions :
       slots[p] = IF p < write_index THEN lapStart + p + 1
                  ELSE IF lapStart = 0 THEN 0 ELSE lapStart - QueueLength + p + 1
  /\ IF pc = "poll" THEN read_index > write_index => lapStart > 0
                    ELSE read_index >= write_index => lapStart > 0

(* The write at read_index, or the one that would be stored there next.      *)
coming ==
  IF pc # "poll" THEN slots[read_index]
  ELSE IF read_index <= write_index THEN lapStart + read_index + 1
  ELSE lapStart - QueueLength + read_index + 1

(* Whatever the load, what was executed is older than what is coming.        *)
ReadsForward ==
  /\ executed.payload <= coming
  /\ pc # "advance" => executed.payload < coming

(* While the phone does not outrun the queue, write_index is read_index plus *)
(* the backlog, up to a lap, and the packet being served is the oldest one.  *)
IndicesAgree ==
  ~overrun =>
    /\ backlog \in 0 .. (IF pc = "poll" THEN QueueLength - 1 ELSE QueueLength)
    /\ write_index \in {read_index + backlog, read_index + backlog - QueueLength}
    /\ pc # "poll" => backlog > 0
    /\ pc \in {"check", "dispatch", "download"} => checked = taken + 1
    /\ pc \in {"dispatch", "download"} => checked \in WellFormed
    /\ pc = "download" => command = checked
    /\ WholePacket

(* The writes of S up to m that went into the slot of m. *)
SlotMates(S, m) == {n \in S \cap 1 .. m : (m - n) % QueueLength = 0}

(* The last longer write that went into the slot of m left a byte other than *)
(* 0 where an odd one ends.                                                  *)
Remains(m) == \E n \in SlotMates(Dirty, m) : \A c \in SlotMates(Clean, m) : c < n

(* Whatever the load, what lies behind an odd write in a slot is what the    *)
(* last longer one has left, however many laps ago that was.                 *)
TailsAreRemains == \A p \in Positions : tails[p] <=> Remains(slots[p])

QueueInv == TypeOK /\ SlotsHoldLastLap /\ ReadsForward /\ IndicesAgree /\ TailsAreRemains

(* The abstract queue the code's state stands for. *)
pendingBar == [i \in 1 .. backlog |-> taken + i]

phaseBar == CASE pc = "poll" -> "idle"
              [] pc = "advance" -> "served"
              [] OTHER -> "serving"

Fifo == INSTANCE RxFifo WITH Write <- 1 .. MaxWrites, Capacity <- QueueLength - 1,
  Fragile <- Odd, pending <- pendingBar, phase <- phaseBar, delivered <- executed.payload

(* While the phone does not outrun it, the queue is the FIFO of RxFifo: each *)
(* write is delivered at most once, whole and in order, or rejected.         *)
ImplementsFifo == Fifo!Spec

(* Every stored write is eventually taken by the main loop, unless the phone *)
(* outruns it: the loop is never stuck on a full queue it believes empty.    *)
EveryWriteIsTaken ==
  \A m \in 1 .. MaxWrites : (written = m) ~> (taken >= m \/ overrun)
=============================================================================
