-------------------------- MODULE TransportReceiver --------------------------
(***************************************************************************)
(* The receiving half of the transport control layer (transport.c): the     *)
(* bytes of the phone's sub-packets are put where they belong in one        *)
(* buffer, and counted; when as many have come as the header says, the      *)
(* packet is given to the application layer.  Which have come is not noted: *)
(* a byte of the buffer that is 0 is taken for one that has not.            *)
(*                                                                          *)
(* The phone is external: it sends sub-packets of any of its packets in any *)
(* order, leaves some out, repeats others, and may fill the last one up     *)
(* with zeros.                                                              *)
(***************************************************************************)
EXTENDS Naturals, Sequences, FiniteSets

CONSTANTS TCL_SUB_PACKETS,         \* that TCL_PAYLOAD_MTU has room for
          BLE_UART_PAYLOAD_MTU,    \* bytes in a sub-packet
          TCL_RECV_WAIT_MAX_TIMES,
          Packets                  \* external: what the phone sends: sequences of
                                   \* sub-packets, which are sequences of bytes

Last(p) == p[Len(p)]

ASSUME ReceiverAssumption ==
  /\ TCL_SUB_PACKETS \in Nat /\ TCL_RECV_WAIT_MAX_TIMES \in Nat
  /\ BLE_UART_PAYLOAD_MTU \in Nat \ {0}
  /\ \A p \in Packets :
       /\ p \in Seq(Seq(Nat)) /\ Len(p) \in 1 .. TCL_SUB_PACKETS
       /\ \A id \in 1 .. Len(p) - 1 : Len(p[id]) = BLE_UART_PAYLOAD_MTU
       /\ Len(Last(p)) \in 1 .. BLE_UART_PAYLOAD_MTU

VARIABLES
  payload,        \* m_recv_payload
  count,          \* m_recv_data_length_count
  waiting,        \* m_recv_packet_timer
  reported,       \* history: what was given to the application layer just now,
  heard,          \* the sub-packets received since the buffer was empty,
  mixed           \* which are of several packets, or a 0 of them came twice

receiver == <<payload, count, waiting, reported, heard, mixed>>

Positions == (1 .. TCL_SUB_PACKETS) \X (1 .. BLE_UART_PAYLOAD_MTU)

Nothing == [data |-> <<>>, of |-> <<>>, mixed |-> FALSE]
NotWaiting == [status |-> "stop", count |-> 0]

ReceiverInit ==
  /\ payload = [at \in Positions |-> 0] /\ count = 0
  /\ waiting = NotWaiting
  /\ reported = Nothing /\ heard = {} /\ mixed = FALSE

-----------------------------------------------------------------------------

(* One that is not full may be filled up.                                     *)
SubPackets ==
  {sub \in UNION {[packet : {p}, id : 1 .. Len(p), filled_up : BOOLEAN] : p \in Packets} :
     sub.filled_up => Len(sub.packet[sub.id]) < BLE_UART_PAYLOAD_MTU}

(* The positions in the buffer of a packet's bytes, and of a sub-packet's,    *)
(* whose sequence_id is counted from 1 here, and what these are.              *)
Places(p) == {at \in Positions : at[1] <= Len(p) /\ at[2] <= Len(p[at[1]])}

PlacesOf(sub) ==
  {at \in Positions : at[1] = sub.id /\ (sub.filled_up \/ at \in Places(sub.packet))}

Byte(p, at) == IF at \in Places(p) THEN p[at[1]][at[2]] ELSE 0

payload_length(p) == Cardinality(Places(p))

(* Mutant: every byte received is stored, and counted. *)
EveryByte(sub) == PlacesOf(sub)

(* The bytes that tcl_download_recv_packet_payload stores, and counts. *)
Fresh(sub) == {at \in PlacesOf(sub) : payload[at] = 0}

Download(sub) ==
  [at \in Positions |-> IF at \in Fresh(sub) THEN Byte(sub.packet, at) ELSE payload[at]]

(* Mutant: a 0 that is stored is not counted. *)
CountedUnlessZero(sub) ==
  count + Cardinality({at \in Fresh(sub) : Byte(sub.packet, at) # 0})

Counted(sub) == count + Cardinality(Fresh(sub))

(* Whether one more sub-packet mixes up the reception. *)
MixedWith(sub) ==
  mixed \/ \E other \in heard :
             \/ other.packet # sub.packet
             \/ \E at \in PlacesOf(other) \cap PlacesOf(sub) : Byte(sub.packet, at) = 0

tcl_init_recv_env ==
  /\ payload' = [at \in Positions |-> 0] /\ count' = 0
  /\ heard' = {} /\ mixed' = FALSE

(* TCL_ERROR: the timer is left alone. *)
RecvTooMany(sub) ==
  /\ Counted(sub) > payload_length(sub.packet)
  /\ tcl_init_recv_env
  /\ reported' = Nothing /\ UNCHANGED waiting

(* al_recv_handler. *)
RecvWhole(sub) ==
  /\ Counted(sub) = payload_length(sub.packet)
  /\ reported' = [data |-> [at \in Places(sub.packet) |-> Download(sub)[at]],
                  of |-> sub.packet, mixed |-> MixedWith(sub)]
  /\ tcl_init_recv_env
  /\ waiting' = NotWaiting

(* The timer's count goes on from the last sub-packet. *)
RecvPart(sub) ==
  /\ Counted(sub) < payload_length(sub.packet)
  /\ payload' = Download(sub) /\ count' = Counted(sub)
  /\ waiting' = [waiting EXCEPT !.status = "start"]
  /\ heard' = heard \cup {sub} /\ mixed' = MixedWith(sub)
  /\ reported' = Nothing

tcl_process_recv_packet(sub) == RecvTooMany(sub) \/ RecvWhole(sub) \/ RecvPart(sub)

(* Mutant: what has come stays. *)
WaitOver ==
  /\ waiting.status = "start" /\ waiting.count >= TCL_RECV_WAIT_MAX_TIMES
  /\ waiting' = NotWaiting
  /\ UNCHANGED <<payload, count, heard, mixed>>

(* The receiving half of tcl_timer_time_out: one more period is waited, *)
WaitOn ==
  /\ waiting.status = "start" /\ waiting.count < TCL_RECV_WAIT_MAX_TIMES
  /\ waiting' = [waiting EXCEPT !.count = @ + 1]
  /\ UNCHANGED <<payload, count, heard, mixed>>

(* or what has come is thrown away. *)
WaitedTooLong ==
  /\ waiting.status = "start" /\ waiting.count >= TCL_RECV_WAIT_MAX_TIMES
  /\ waiting' = NotWaiting
  /\ tcl_init_recv_env

RecvTimeOut ==
  /\ WaitOn \/ WaitedTooLong
  /\ reported' = Nothing

(* What else happens in the layer. *)
Quiet == reported' = Nothing /\ UNCHANGED <<payload, count, waiting, heard, mixed>>

ReceiverNext == Quiet \/ RecvTimeOut \/ \E sub \in SubPackets : tcl_process_recv_packet(sub)

ReceiverSpec == ReceiverInit /\ [][ReceiverNext]_receiver

-----------------------------------------------------------------------------

ReceiverTypeOK ==
  /\ payload \in [Positions -> Nat] /\ count \in Nat
  /\ waiting \in [status : {"stop", "start"}, count : 0 .. TCL_RECV_WAIT_MAX_TIMES]
  /\ heard \subseteq SubPackets /\ mixed \in BOOLEAN

(* What the application layer gets is the packet the phone sent, however the  *)
(* sub-packets were ordered, repeated, interrupted or thrown away, unless     *)
(* some of another packet are among them, or a zero that was sent again is    *)
(* counted again.  A packet filled up with zeros never comes to it, as these  *)
(* are counted, too (transport.c:382-384, 406-410).                           *)
ReportedIsSent ==
  reported # Nothing /\ ~reported.mixed =>
    reported.data = [at \in Places(reported.of) |-> Byte(reported.of, at)]

(* The places that the sub-packets received have filled.                      *)
Filled == UNION {PlacesOf(sub) : sub \in heard}

(* And it gets it with the sub-packet that completes it, not before, under    *)
(* the same condition: exactly when the bytes that have come are the packet's.*)
(* If the zeros of a last sub-packet that was filled up are among them, as    *)
(* transport.c:176-184 fills it up, the packet is complete and not given, but *)
(* thrown away (transport.c:406-415).                                         *)
WholeIsReported ==
  [][\A sub \in SubPackets :
       tcl_process_recv_packet(sub) /\ ~MixedWith(sub) =>
         IF Filled \cup PlacesOf(sub) = Places(sub.packet)
           THEN reported'.of = sub.packet
           ELSE reported' = Nothing]_receiver

(* A part of a packet does not stay for ever (transport.c:417, 498-501).      *)
PartEnds == count > 0 ~> count = 0

(* Their inductive strengthening.  Unless mixed up, what has been received is *)
(* of one packet; the buffer holds its bytes where they belong, and count is  *)
(* the number of the places that sub-packets of it have filled.               *)
OnePacket ==
  /\ \A sub, other \in heard : other.packet = sub.packet
  /\ \A sub \in heard : \A at \in Filled : payload[at] = Byte(sub.packet, at)
  /\ \A at \in Positions \ Filled : payload[at] = 0
  /\ count = Cardinality(Filled)
  /\ \A sub \in heard : count < payload_length(sub.packet)

RecvInv == ReceiverTypeOK /\ ReportedIsSent /\ (~mixed => OnePacket)
=============================================================================
