------------------------------ MODULE Transport ------------------------------
(***************************************************************************)
(* The sending half of the transport control layer (transport.c), which is  *)
(* no longer built: a packet is cut into sub-packets, each waits for its    *)
(* acknowledgement and is sent again at a time-out.                         *)
(*                                                                          *)
(* Its entry points are called one at a time, by the application layer, by  *)
(* the BLE events and by a timer.  The data are abstracted to the number of *)
(* the piece, of BLE_UART_PAYLOAD_MTU bytes, that is sent.  The phone is    *)
(* external: it may miss a sub-packet, and acknowledge it late or not at    *)
(* all.                                                                     *)
(***************************************************************************)
EXTENDS Naturals, Sequences

CONSTANTS TCL_RESEND_MAX_TIMES,
          MaxNumber,     \* sub-packets in the longest packet
          IdRange,       \* sequence numbers, 2^8 of them in the code
          MaxAcks        \* bound: acknowledgements under way

ASSUME TransportAssumption ==
  /\ TCL_RESEND_MAX_TIMES \in Nat /\ MaxNumber \in Nat \ {0} /\ MaxAcks \in Nat \ {0}
  /\ IdRange \in Nat /\ IdRange > MaxNumber + 1

VARIABLES
  m_send_status,
  env,            \* m_p_send_data, m_send_sub_packet_number, m_send_sequence_id
  timer,          \* m_send_sub_packet_timer
  acks,           \* external: acknowledgements under way to the device
  got,            \* external: the sub-packets of this packet the phone has received
  total,          \* how many sub-packets this packet has, for the properties:
  sends,          \* how often this sub-packet was sent
  confused,       \* an acknowledgement answers something else than was just sent
  stray           \* one has named a sub-packet behind the packet

vars == <<m_send_status, env, timer, acks, got, total, sends, confused, stray>>

(* What m_p_send_data points to: a piece, all behind the longest packet being *)
(* one, or nothing.                                                           *)
NULL == MaxNumber + 1
Data == 0 .. NULL
NextPiece(p) == IF p < MaxNumber THEN p + 1 ELSE p

(* tcl_init_send_env *)
NoEnv == [data |-> NULL, number |-> 0, id |-> 0]

Stopped == [status |-> "stop", count |-> 0]

Init ==
  /\ m_send_status = "success"
  /\ env = NoEnv
  /\ timer = Stopped
  /\ acks = <<>> /\ got = {} /\ total = 0 /\ sends = 0
  /\ confused = FALSE /\ stray = FALSE

-----------------------------------------------------------------------------

(* External: what becomes of a sub-packet the SoftDevice has taken.  A phone  *)
(* that refuses it names it, or, like tcl_send_ack_packet, always the first.  *)
(* What a confused phone has is not followed.                                 *)
Reaches(e, pending, before) ==
  LET with == IF confused' THEN {} ELSE before \cup {[id |-> e.id, data |-> e.data]}
      without == IF confused' THEN {} ELSE before
  IN  \/ acks' = pending /\ got' \in {with, without}
      \/ /\ Len(pending) < MaxAcks
         /\ acks' = Append(pending, [id |-> e.id, err |-> FALSE])
         /\ got' = with
      \/ /\ Len(pending) < MaxAcks
         /\ \E named \in {0, e.id} :
              acks' = Append(pending, [id |-> named, err |-> TRUE])
         /\ got' = without

(* The sub-packet of e is sent, t the timer, pending the acknowledgements and *)
(* before what the phone has until then.  The SoftDevice takes it,            *)
Taken(e, t, pending, before) ==
  /\ Reaches(e, pending, before)
  /\ timer' = [t EXCEPT !.status = "start"]

(* or refuses it: tcl_send_failed. *)
Refused(t, pending, before) ==
  /\ m_send_status' = "failed" /\ env' = NoEnv
  /\ timer' = t /\ acks' = pending /\ got' = IF confused' THEN {} ELSE before

tcl_send_sub_packet(e, t, pending) ==
  \/ Taken(e, t, pending, got) /\ env' = e /\ UNCHANGED m_send_status
  \/ Refused(t, pending, got)

(* TCL_WAIT, while another packet is sending, changes nothing.  A packet of   *)
(* one sub-packet has succeeded once that is taken; the timer runs on.        *)
tcl_send_packet(number) ==
  /\ m_send_status # "sending"
  /\ confused' = (acks # <<>>) /\ stray' = FALSE
  /\ LET e == [data |-> 0, number |-> number, id |-> 0]
     IN  \/ /\ Taken(e, timer, acks, {})
            /\ IF number = 1 THEN m_send_status' = "success" /\ env' = NoEnv
                             ELSE m_send_status' = "sending" /\ env' = e
         \/ Refused(timer, acks, {})
  /\ total' = number /\ sends' = 1

-----------------------------------------------------------------------------

(* tcl_process_recv_ack takes the number of the acknowledgement as it is.     *)
AckedEnv == [env EXCEPT !.id = (Head(acks).id + 1) % IdRange]

(* "Just send again the previous sub-packet": under the next number. *)
RecvErr ==
  /\ acks # <<>> /\ Head(acks).err
  /\ sends' = 1 /\ confused' = TRUE
  /\ UNCHANGED <<total, stray>>
  /\ tcl_send_sub_packet(AckedEnv, Stopped, Tail(acks))

(* Mutant: the pointer to the data is not advanced. *)
RecvAckSamePiece ==
  /\ acks # <<>> /\ ~Head(acks).err
  /\ AckedEnv.id < env.number
  /\ sends' = 1
  /\ UNCHANGED <<total, confused, stray>>
  /\ tcl_send_sub_packet(AckedEnv, Stopped, Tail(acks))

(* ACK for a sub-packet that is not the last: the next one is sent. *)
RecvAck ==
  /\ acks # <<>> /\ ~Head(acks).err
  /\ AckedEnv.id < env.number
  /\ sends' = 1
  /\ UNCHANGED <<total, confused, stray>>
  /\ tcl_send_sub_packet([AckedEnv EXCEPT !.data = NextPiece(@)], Stopped, Tail(acks))

(* Mutant: the acknowledgement of the last sub-packet but one will do. *)
RecvLastAckTooSoon ==
  /\ acks # <<>> /\ ~Head(acks).err
  /\ AckedEnv.id + 1 = env.number
  /\ m_send_status' = "success" /\ env' = NoEnv
  /\ timer' = Stopped /\ acks' = Tail(acks)
  /\ UNCHANGED <<got, total, sends, confused, stray>>

(* ACK for the last sub-packet: tcl_send_success. *)
RecvLastAck ==
  /\ acks # <<>> /\ ~Head(acks).err
  /\ AckedEnv.id = env.number
  /\ m_send_status' = "success" /\ env' = NoEnv
  /\ timer' = Stopped /\ acks' = Tail(acks)
  /\ UNCHANGED <<got, total, sends, confused, stray>>

(* TCL_ERROR: number and timer are changed all the same. *)
RecvStrayAck ==
  /\ acks # <<>> /\ ~Head(acks).err
  /\ AckedEnv.id > env.number
  /\ env' = AckedEnv
  /\ timer' = Stopped /\ acks' = Tail(acks)
  /\ stray' = TRUE
  /\ UNCHANGED <<m_send_status, got, total, sends, confused>>

tcl_process_recv_ack == RecvErr \/ RecvAck \/ RecvLastAck \/ RecvStrayAck

(* tcl_recv_packet with a packet that is not valid: tcl_send_ack_packet, whose *)
(* refusal is taken for that of the packet that is sending, if any.            *)
RecvInvalid ==
  /\ m_send_status' = "failed" /\ env' = NoEnv
  /\ UNCHANGED <<timer, acks, got, total, sends, confused, stray>>

(* Mutant: only the timer is stopped. *)
GiveUpSilently ==
  /\ timer.status = "start" /\ timer.count >= TCL_RESEND_MAX_TIMES
  /\ timer' = Stopped
  /\ UNCHANGED <<m_send_status, env, acks, got, total, sends, confused, stray>>

(* The timer expires once more than it resends: tcl_send_failed. *)
GiveUp ==
  /\ timer.status = "start" /\ timer.count >= TCL_RESEND_MAX_TIMES
  /\ m_send_status' = "failed" /\ env' = NoEnv
  /\ timer' = Stopped
  /\ UNCHANGED <<acks, got, total, sends, confused, stray>>

(* Mutant: the sub-packet is sent once more. *)
ResendOnceMore ==
  /\ timer.status = "start" /\ timer.count <= TCL_RESEND_MAX_TIMES
  /\ sends' = sends + 1
  /\ confused' = (confused \/ acks # <<>> \/ m_send_status # "sending")
  /\ UNCHANGED <<total, stray>>
  /\ tcl_send_sub_packet(env, [timer EXCEPT !.count = @ + 1], acks)

(* Sent again, also when nothing is sending any more. *)
Resend ==
  /\ timer.status = "start" /\ timer.count < TCL_RESEND_MAX_TIMES
  /\ sends' = sends + 1
  /\ confused' = (confused \/ acks # <<>> \/ m_send_status # "sending")
  /\ UNCHANGED <<total, stray>>
  /\ tcl_send_sub_packet(env, [timer EXCEPT !.count = @ + 1], acks)

tcl_timer_time_out == GiveUp \/ Resend

Next ==
  \/ \E number \in 1 .. MaxNumber : tcl_send_packet(number)
  \/ tcl_process_recv_ack \/ RecvInvalid \/ tcl_timer_time_out

Spec == Init /\ [][Next]_vars

(* The timer's interrupt comes. *)
FairSpec == Spec /\ WF_vars(tcl_timer_time_out)

-----------------------------------------------------------------------------

Ids == 0 .. IdRange - 1

TypeOK ==
  /\ m_send_status \in {"success", "sending", "failed"}
  /\ env \in [data : Data, number : 0 .. MaxNumber, id : Ids]
  /\ timer \in [status : {"stop", "start"}, count : 0 .. TCL_RESEND_MAX_TIMES]
  /\ acks \in Seq([id : Ids, err : BOOLEAN]) /\ Len(acks) <= MaxAcks
  /\ got \subseteq [id : Ids, data : Data]
  /\ total \in 0 .. MaxNumber /\ sends \in Nat
  /\ confused \in BOOLEAN /\ stray \in BOOLEAN

(* Whatever is lost and sent again, the phone gets each piece under its own   *)
(* number, unless an acknowledgement comes after the time-out that resent its *)
(* sub-packet, or from an earlier packet (transport.c:332-346, 495).          *)
OwnPieces == ~confused => \A sub \in got : sub.data = sub.id

(* A packet of several sub-packets has succeeded only when the phone has all  *)
(* of them, under the same condition (transport.c:346-348).                   *)
SuccessMeansReceived ==
  m_send_status = "success" /\ total > 1 /\ ~confused =>
    got = {[id |-> i, data |-> i] : i \in 0 .. total - 1}

(* While a packet is sending a time-out will come, unless an acknowledgement  *)
(* named a sub-packet behind the packet: then nothing ends the sending any    *)
(* more (transport.c:336, 349-351).                                           *)
TimeOutComes == m_send_status = "sending" => timer.status = "start" \/ stray

(* Every sending ends, however much is lost, unless an acknowledgement        *)
(* answers something else than was just sent (transport.c:487-498).           *)
SendingEnds == m_send_status = "sending" ~> (m_send_status # "sending" \/ confused)

(* A sub-packet is sent at most TCL_RESEND_MAX_TIMES times more, as           *)
(* transport.c:483-484 says, also when the timer still runs from an earlier   *)
(* packet (transport.c:291, 490).                                             *)
GivesUpInTime == sends <= TCL_RESEND_MAX_TIMES + 1

(* Their inductive strengthening.  Outside of a packet there is nothing to    *)
(* send; while the timer runs, its count bounds the resends.                  *)
EnvOfPacket ==
  /\ m_send_status # "sending" => env.number = 0
  /\ m_send_status = "sending" => env.number = total
  /\ timer.status = "start" => sends <= timer.count + 1

Own(i) == [id |-> i, data |-> i]

(* Unless confused, only this sub-packet's acknowledgement is under way, and  *)
(* the phone has all sub-packets before it.                                   *)
InStep ==
  /\ env.id < total /\ env.data = env.id
  /\ \A i \in 0 .. env.id - 1 : Own(i) \in got
  /\ \A sub \in got : sub.id <= env.id
  /\ \/ acks = <<>> \/ Head(acks).err
     \/ Head(acks).id = env.id /\ Own(env.id) \in got

Straight ==
  /\ Len(acks) <= 1
  /\ IF m_send_status = "sending" THEN InStep
       ELSE acks = <<>> \/ Head(acks).err \/ Head(acks).id < MaxNumber

TclInv ==
  /\ TypeOK /\ OwnPieces /\ SuccessMeansReceived /\ TimeOutComes /\ GivesUpInTime
  /\ EnvOfPacket /\ (~confused => Straight)
=============================================================================
