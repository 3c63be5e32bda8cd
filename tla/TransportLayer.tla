---------------------------- MODULE TransportLayer ----------------------------
(***************************************************************************)
(* Both halves of the transport control layer (transport.c).  They keep     *)
(* variables of their own and share their entry points: tcl_recv_packet     *)
(* tells acknowledgements from data, and one timer, of 500 ms, serves both. *)
(***************************************************************************)
EXTENDS Transport, TransportReceiver

layer == <<vars, receiver>>

LayerInit == Init /\ ReceiverInit

(* The application layer sends a packet, *)
Send == (\E number \in 1 .. MaxNumber : tcl_send_packet(number)) /\ Quiet

(* an acknowledgement, or a packet that is not valid, comes, *)
RecvAckOrInvalid == (tcl_process_recv_ack \/ RecvInvalid) /\ Quiet

(* or a valid one with data, which is not acknowledged. *)
RecvData == (\E sub \in SubPackets : tcl_process_recv_packet(sub)) /\ UNCHANGED vars

(* The timer's interrupt serves the sending half, then the receiving. *)
TimerInterrupt ==
  \/ tcl_timer_time_out /\ RecvTimeOut
  \/ tcl_timer_time_out /\ waiting.status = "stop" /\ Quiet
  \/ timer.status = "stop" /\ RecvTimeOut /\ UNCHANGED vars

LayerNext == Send \/ RecvAckOrInvalid \/ RecvData \/ TimerInterrupt

LayerSpec == LayerInit /\ [][LayerNext]_layer

(* The timer's interrupt comes while it has anything to do. *)
FairLayerSpec == LayerSpec /\ WF_layer(TimerInterrupt)
=============================================================================
