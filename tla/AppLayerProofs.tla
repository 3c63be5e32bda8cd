--------------------------- MODULE AppLayerProofs ---------------------------
(***************************************************************************)
(* Proofs about the application layer, for any set of requests, any queue   *)
(* capacity and any number of transmit buffers, requests and connections.   *)
(***************************************************************************)
EXTENDS AppLayer, TLAPS

(* What is known of the constants, in the form the provers use. *)
LEMMA Constants ==
  /\ QueueCapacity \in Nat /\ QueueCapacity > 0 /\ TxBuffers \in Nat /\ TxBuffers > 0
  /\ MaxRequests \in Nat /\ MaxConnections \in Nat
BY AppLayerAssumption

(* The head of a queue of packets is one, and the rest is a shorter queue.   *)
LEMMA HeadAndTail ==
  ASSUME QueueTypes, pending # <<>>
  PROVE  /\ Head(pending) \in Packets /\ Head(pending) = pending[1]
         /\ Tail(pending) \in Seq(Packets)
         /\ Len(pending) \in Nat \ {0}
         /\ Len(Tail(pending)) = Len(pending) - 1
         /\ \A i \in 1 .. Len(pending) - 1 : Tail(pending)[i] = pending[i + 1]
BY DEF QueueTypes

(* The same of the notifications the SoftDevice holds. *)
LEMMA OutboxTail ==
  ASSUME SenderTypes, outbox # <<>>
  PROVE  /\ Tail(outbox) \in Seq(Replies)
         /\ Len(outbox) \in Nat \ {0}
         /\ Len(Tail(outbox)) = Len(outbox) - 1
         /\ \A i \in 1 .. Len(outbox) - 1 : Tail(outbox)[i] = outbox[i + 1]
BY DEF SenderTypes

-----------------------------------------------------------------------------

(* The initial state satisfies the inductive invariant. *)
LEMMA InitInv == Init => AppInv
<1> SUFFICES ASSUME Init PROVE AppInv
  OBVIOUS
<1> USE DEF Init, NoConn, NoReply
<1>1. QueueTypes
  BY Constants DEF QueueTypes
<1>2. SenderTypes
  <2>1. outbox \in Seq(Replies) /\ Len(outbox) <= TxBuffers
    BY Constants
  <2>2. answered \subseteq 1 .. requests /\ dropped \subseteq 1 .. requests
    OBVIOUS
  <2>3. sendError \in BOOLEAN /\ reply \in Replies \cup {NoReply}
    OBVIOUS
  <2> QED
    BY <2>1, <2>2, <2>3, Zenon DEF SenderTypes
<1>3. PlantTypes
  <2>1. calendar \in 0 .. requests /\ switched \in 0 .. requests
    OBVIOUS
  <2>2. fan \in [power : BOOLEAN, duty : {0, 60}] /\ led \in BOOLEAN
    OBVIOUS
  <2>3. execute_status_vaule \in
          {"EXE_STAT", "CONTROL", "SETTING"} \X ({"CLOSE"} \cup {r[2] : r \in Requests})
    OBVIOUS
  <2> QED
    BY <2>1, <2>2, <2>3, Zenon DEF PlantTypes
<1>4. LinkTypes
  <2>1. connections \in 0 .. MaxConnections /\ conn_handle \in 0 .. connections
    BY Constants
  <2> QED
    BY <2>1, Zenon DEF LinkTypes
<1>5. PacketsInOrder
  BY DEF PacketsInOrder, OlderThanPending
<1>6. ReplyInSend /\ LastReplyTellsState
  BY DEF ReplyInSend, LastReplyTellsState
<1> QED
  BY <1>1, <1>2, <1>3, <1>4, <1>5, <1>6 DEF AppInv, TypeOK

(* A reply is made of these parts. *)
LEMMA MadeReply ==
  ASSUME NEW id \in 1 .. MaxRequests, NEW command \in {"EXE_STAT", "RT_DATA", "STATUS"},
         NEW key \in ReplyKeys, NEW value \in ReplyValues
  PROVE  [id |-> id, command |-> command, key |-> key, value |-> value] \in Replies
BY DEF Replies

(* Every way through al_recv_packet keeps the types. *)
LEMMA TakePacketTypes ==
  ASSUME AppInv, TakePacket
  PROVE  TypeOK'
<1>0. pending # <<>> /\ TypeOK /\ QueueTypes /\ SenderTypes /\ PlantTypes /\ LinkTypes
  BY DEF TakePacket, AppInv, TypeOK
<1> DEFINE p == Head(pending)
<1>1. /\ p \in Packets /\ p.id \in 1 .. requests
      /\ Tail(pending) \in Seq(Packets) /\ Len(Tail(pending)) <= QueueCapacity
  <2>1. 1 \in 1 .. Len(pending) /\ p = pending[1] /\ p \in Packets
    BY <1>0, HeadAndTail
  <2>2. pending[1].id <= requests
    BY <2>1 DEF AppInv, PacketsInOrder
  <2>3. p.id \in Nat /\ p.id > 0
    BY <2>1, Constants DEF Packets
  <2>4. requests \in Nat
    BY <1>0, Constants DEF QueueTypes
  <2> QED
    BY <1>0, <2>1, <2>2, <2>3, <2>4, HeadAndTail, Constants DEF QueueTypes
<1>2. al_recv_packet
  BY DEF TakePacket, al_process_control_packet, al_process_setting_packet,
         al_process_rt_monitor_packet, al_process_status_packet, RefusePacket, CallUnsetHandler
<1>3. /\ pc' \in {"poll", "send", "fault"}
      /\ m_al_send_status' \in {"SUCCESS", "SENDING"}
      /\ sendResult' \in {"AL_SUCCESS", "AL_WAIT", "AL_ERROR"}
  <2> USE <1>0 DEF QueueTypes, SenderTypes, al_send_packet
  <2>1. CASE al_process_control_packet
    BY <2>1 DEF al_process_control_packet
  <2>2. CASE al_process_setting_packet
    BY <2>2 DEF al_process_setting_packet
  <2>3. CASE al_process_rt_monitor_packet
    BY <2>3 DEF al_process_rt_monitor_packet
  <2>4. CASE al_process_status_packet
    BY <2>4 DEF al_process_status_packet
  <2>5. CASE RefusePacket \/ CallUnsetHandler
    BY <2>5 DEF RefusePacket, CallUnsetHandler
  <2> QED
    BY <2>1, <2>2, <2>3, <2>4, <2>5 DEF TakePacket
<1>4. reply' \in Replies \cup {NoReply}
  <2> DEFINE id == p.id
             Made(command, key, value) ==
               reply' = [id |-> id, command |-> command, key |-> key, value |-> value]
  <2>0. id \in 1 .. MaxRequests /\ reply \in Replies \cup {NoReply}
    BY <1>0, <1>1 DEF Packets, SenderTypes
  <2>1. CASE al_process_control_packet
    <3>1. \/ reply' = reply
          \/ /\ p.key \in {"CLOSE", "OPEN"}
             /\ Made("EXE_STAT", "SUCCESS", <<"CONTROL", p.key>>)
      BY <2>1 DEF al_process_control_packet, al_send_packet
    <3> QED
      BY <2>0, <3>1, MadeReply DEF ReplyKeys, ReplyValues, RtDataKeys
  <2>2. CASE al_process_rt_monitor_packet
    <3>1. \/ reply' = reply
          \/ p.key \in RtDataKeys /\ Made("RT_DATA", p.key, <<"reading">>)
      BY <2>2 DEF al_process_rt_monitor_packet, al_send_packet
    <3> QED
      BY <2>0, <3>1, MadeReply DEF ReplyKeys, ReplyValues, RtDataKeys
  <2>3. CASE al_process_status_packet
    <3>1. purify_status \in {"CLOSE", "OPEN"}
      BY <1>0 DEF PlantTypes
    <3>2. \/ reply' = reply
          \/ /\ p.key \in StatusKeys
             /\ \E value \in {purify_status, "byte at 100"} : Made("STATUS", p.key, <<value>>)
      BY <2>3 DEF al_process_status_packet, al_send_packet
    <3> QED
      BY <2>0, <3>1, <3>2, MadeReply DEF ReplyKeys, ReplyValues, StatusKeys
  <2>4. CASE al_process_setting_packet \/ RefusePacket \/ CallUnsetHandler
    BY <2>0, <2>4 DEF al_process_setting_packet, RefusePacket, CallUnsetHandler
  <2> QED
    BY <2>1, <2>2, <2>3, <2>4 DEF TakePacket
<1>5. QueueTypes'
  <2>1. pending' = Tail(pending) /\ UNCHANGED <<handler, requests, asked>>
    BY <1>2 DEF al_recv_packet, asks
  <2> QED
    BY <1>0, <1>1, <1>3, <2>1 DEF QueueTypes
<1>6. SenderTypes'
  <2>1. UNCHANGED <<outbox, requests, answered, dropped, sendError>>
    BY <1>2 DEF al_recv_packet, asks
  <2> QED
    BY <1>0, <1>3, <1>4, <2>1 DEF SenderTypes
<1>7. LinkTypes'
  BY <1>0, <1>2 DEF LinkTypes, al_recv_packet, link
<1>8. PlantTypes'
  <2>0. p.key \in {r[2] : r \in Requests} /\ p.id \in 0 .. requests /\ requests' = requests
    BY <1>1, <1>2 DEF Packets, al_recv_packet, asks
  <2> USE <1>0 DEF PlantTypes
  <2>1. CASE al_process_control_packet
    <3>1. /\ execute_status_vaule' = <<"CONTROL", p.key>> /\ calendar' = calendar
          /\ \/ UNCHANGED <<purify_status, led, fan, switched>>
             \/ /\ purify_status' = "CLOSE" /\ led' = FALSE /\ switched' = p.id
                /\ fan' = [power |-> FALSE, duty |-> 0]
             \/ /\ purify_status' = "OPEN" /\ led' = TRUE /\ switched' = p.id
                /\ fan' = [power |-> TRUE, duty |-> 60]
      BY <2>1, Zenon DEF al_process_control_packet, OpenFan, CloseFan
    <3>2. led' \in BOOLEAN /\ purify_status' \in {"CLOSE", "OPEN"}
      BY <3>1, Zenon
    <3>3. fan' \in [power : BOOLEAN, duty : {0, 60}]
      <4>1. CASE fan' = fan
        BY <4>1
      <4>2. CASE fan' = [power |-> FALSE, duty |-> 0]
        BY <4>2
      <4>3. CASE fan' = [power |-> TRUE, duty |-> 60]
        BY <4>3
      <4> QED
        BY <3>1, <4>1, <4>2, <4>3, Zenon
    <3>4. switched' \in 0 .. requests
      BY <2>0, <3>1
    <3>5. /\ execute_status_vaule' \in
                {"EXE_STAT", "CONTROL", "SETTING"} \X ({"CLOSE"} \cup {r[2] : r \in Requests})
          /\ calendar' \in 0 .. requests
      BY <2>0, <3>1
    <3> QED
      BY <2>0, <3>2, <3>3, <3>4, <3>5, Zenon
  <2>2. CASE al_process_setting_packet
    BY <2>0, <2>2 DEF al_process_setting_packet
  <2>3. CASE al_process_rt_monitor_packet
    BY <2>0, <2>3 DEF al_process_rt_monitor_packet, plant
  <2>4. CASE al_process_status_packet
    BY <2>0, <2>4 DEF al_process_status_packet, plant
  <2>5. CASE RefusePacket \/ CallUnsetHandler
    BY <2>0, <2>5 DEF RefusePacket, CallUnsetHandler, plant
  <2> QED
    BY <2>1, <2>2, <2>3, <2>4, <2>5 DEF TakePacket
<1> QED
  BY <1>5, <1>6, <1>7, <1>8 DEF TypeOK

(* The second half of al_send_packet keeps the types. *)
LEMMA SendTypes ==
  ASSUME AppInv, ble_send_handler
  PROVE  TypeOK'
<1>0. QueueTypes /\ SenderTypes /\ PlantTypes /\ LinkTypes
  BY DEF AppInv, TypeOK
<1>1. reply \in Replies /\ reply.id \in 1 .. requests
  <2>1. reply \in Replies
    BY DEF AppInv, ReplyInSend, ble_send_handler
  <2>2. reply.id \in 1 .. MaxRequests
    BY <2>1 DEF Replies
  <2>3. reply.id <= requests
    BY DEF AppInv, PacketsInOrder, OlderThanPending
  <2> QED
    BY <1>0, <2>1, <2>2, <2>3, Constants DEF QueueTypes
<1>2. /\ pc' = "poll"
      /\ UNCHANGED <<pending, execute_status_vaule, handler, answered, asks, link, plant, reply>>
  BY DEF ble_send_handler
<1>3. QueueTypes' /\ PlantTypes' /\ LinkTypes'
  BY <1>0, <1>2 DEF QueueTypes, PlantTypes, LinkTypes, plant, link, asks
<1>4. outbox' \in Seq(Replies) /\ Len(outbox') <= TxBuffers
  <2>1. CASE outbox' = outbox
    BY <1>0, <2>1 DEF SenderTypes
  <2>2. CASE outbox' = Append(outbox, reply) /\ Len(outbox) # TxBuffers
    BY <1>0, <1>1, <2>2, Constants DEF SenderTypes
  <2> QED
    BY <2>1, <2>2 DEF ble_send_handler, HvxResult
<1>5. answered' \subseteq 1 .. requests /\ dropped' \subseteq 1 .. requests
  BY <1>0, <1>1, <1>2 DEF ble_send_handler, SenderTypes
<1>6. /\ m_al_send_status' \in {"SUCCESS", "SENDING"}
      /\ sendResult' \in {"AL_SUCCESS", "AL_WAIT", "AL_ERROR"}
  BY <1>0 DEF ble_send_handler, SenderTypes
<1>7. sendError' \in BOOLEAN
  BY <1>0, Zenon DEF ble_send_handler, SenderTypes
<1>8. SenderTypes'
  BY <1>1, <1>2, <1>4, <1>5, <1>6, <1>7 DEF SenderTypes, asks
<1> QED
  BY <1>3, <1>8 DEF TypeOK

(* The events of the interrupt keep the types. *)
LEMMA BleEventTypes ==
  ASSUME AppInv, BleEvent
  PROVE  TypeOK'
<1>0. QueueTypes /\ SenderTypes /\ PlantTypes /\ LinkTypes
  BY DEF AppInv, TypeOK
<1>1. CASE on_connect
  <2>1. QueueTypes' /\ SenderTypes' /\ PlantTypes'
    BY <1>0, <1>1 DEF on_connect, QueueTypes, SenderTypes, PlantTypes, plant, sender, asks
  <2>2. LinkTypes'
    <3>1. connections' \in 0 .. MaxConnections /\ conn_handle' \in NoConn .. connections'
      BY <1>0, <1>1, Constants DEF on_connect, LinkTypes, NoConn
    <3> QED
      BY <1>1, <3>1, Zenon DEF on_connect, LinkTypes
  <2> QED
    BY <2>1, <2>2 DEF TypeOK
<1>2. CASE on_disconnect
  <2>1. QueueTypes' /\ PlantTypes'
    BY <1>0, <1>2 DEF on_disconnect, QueueTypes, PlantTypes, plant, asks
  <2>2. SenderTypes'
    BY <1>0, <1>2, Constants DEF on_disconnect, SenderTypes, sender, asks
  <2>3. LinkTypes'
    <3>1. connections' \in 0 .. MaxConnections /\ conn_handle' \in NoConn .. connections'
      BY <1>0, <1>2, Constants DEF on_disconnect, LinkTypes, NoConn
    <3> QED
      BY <1>2, <3>1, Zenon DEF on_disconnect, LinkTypes
  <2> QED
    BY <2>1, <2>2, <2>3 DEF TypeOK
<1>3. CASE on_write
  <2>1. LinkTypes'
    BY <1>0, <1>3 DEF on_write, LinkTypes, link
  <2>2. requests' = requests + 1 /\ requests' \in 0 .. MaxRequests /\ requests \in Nat
    BY <1>0, <1>3, Constants DEF on_write, QueueTypes
  <2>3. SenderTypes'
    <3>1. answered' \subseteq 1 .. requests' /\ dropped' \subseteq 1 .. requests'
      BY <1>0, <1>3, <2>2 DEF on_write, SenderTypes, sender, asks
    <3> QED
      BY <1>0, <1>3, <3>1 DEF on_write, SenderTypes, sender, asks
  <2>4. PlantTypes'
    <3>1. calendar' \in 0 .. requests' /\ switched' \in 0 .. requests'
      BY <1>0, <1>3, <2>2 DEF on_write, PlantTypes, plant
    <3> QED
      BY <1>0, <1>3, <3>1 DEF on_write, PlantTypes, plant
  <2>5. QueueTypes'
    <3>1. PICK r \in Requests :
            pending' = Append(pending, [id |-> requests + 1, command |-> r[1], key |-> r[2]])
      BY <1>3 DEF on_write
    <3>2. [id |-> requests + 1, command |-> r[1], key |-> r[2]] \in Packets
      BY <2>2, Constants DEF Packets
    <3>3. pending' \in Seq(Packets) /\ Len(pending') <= QueueCapacity
      BY <1>0, <1>3, <3>1, <3>2, Constants DEF on_write, QueueTypes
    <3>4. asked' \in [1 .. MaxRequests -> NoConn .. MaxConnections]
      <4>1. conn_handle \in NoConn .. MaxConnections
        BY <1>0, Constants DEF LinkTypes, NoConn
      <4>2. QED
        BY <1>0, <1>3, <4>1 DEF on_write, QueueTypes
    <3> QED
      BY <1>0, <1>3, <2>2, <3>3, <3>4 DEF on_write, QueueTypes
  <2> QED
    BY <2>1, <2>3, <2>4, <2>5 DEF TypeOK
<1>4. CASE Subscribe
  <2>1. QueueTypes' /\ SenderTypes' /\ PlantTypes'
    BY <1>0, <1>4 DEF Subscribe, QueueTypes, SenderTypes, PlantTypes, plant, sender, asks
  <2>2. LinkTypes'
    BY <1>0, <1>4, Zenon DEF Subscribe, LinkTypes
  <2> QED
    BY <2>1, <2>2 DEF TypeOK
<1>5. CASE TxComplete
  <2>1. QueueTypes' /\ PlantTypes' /\ LinkTypes'
    BY <1>0, <1>5 DEF TxComplete, QueueTypes, PlantTypes, LinkTypes, plant, link, asks
  <2>2. outbox' \in Seq(Replies) /\ Len(outbox') <= TxBuffers
    BY <1>0, <1>5, OutboxTail, Constants DEF TxComplete, SenderTypes
  <2>3. answered' \subseteq 1 .. requests
    <3>1. outbox # <<>> /\ Head(outbox) = outbox[1] /\ 1 \in 1 .. Len(outbox)
      BY <1>0, <1>5 DEF TxComplete, SenderTypes
    <3>2. Head(outbox).id \in Nat /\ Head(outbox).id > 0
      <4>1. outbox[1] \in Replies
        BY <1>0, <3>1 DEF SenderTypes
      <4>2. outbox[1].id \in 1 .. MaxRequests
        BY <4>1 DEF Replies
      <4>3. QED
        BY <3>1, <4>2, Constants
    <3>3. Head(outbox).id <= requests
      BY <3>1 DEF AppInv, PacketsInOrder, OlderThanPending
    <3>4. Head(outbox).id \in 1 .. requests
      BY <1>0, <3>2, <3>3, Constants DEF QueueTypes
    <3>5. QED
      BY <1>0, <1>5, <3>4 DEF TxComplete, SenderTypes
  <2>4. SenderTypes'
    BY <1>0, <1>5, <2>2, <2>3 DEF TxComplete, SenderTypes, sender, asks
  <2> QED
    BY <2>1, <2>4 DEF TypeOK
<1> QED
  BY <1>1, <1>2, <1>3, <1>4, <1>5 DEF BleEvent

-----------------------------------------------------------------------------

(* The numbers of requests are numbers. *)
LEMMA Ids ==
  ASSUME TypeOK
  PROVE  /\ requests \in Nat /\ switched \in Nat /\ reply.id \in Nat
         /\ Len(pending) \in Nat /\ \A i \in 1 .. Len(pending) : pending[i].id \in Nat
         /\ Len(outbox) \in Nat /\ \A i \in 1 .. Len(outbox) : outbox[i].id \in Nat
<1> USE Constants DEF TypeOK
<1>1. requests \in Nat /\ switched \in Nat
  BY DEF QueueTypes, PlantTypes
<1>2. reply.id \in Nat
  BY DEF SenderTypes, Replies, NoReply
<1>3. Len(pending) \in Nat /\ \A i \in 1 .. Len(pending) : pending[i] \in Packets
  BY DEF QueueTypes
<1>4. Len(outbox) \in Nat /\ \A i \in 1 .. Len(outbox) : outbox[i] \in Replies
  BY DEF SenderTypes
<1> QED
  BY <1>1, <1>2, <1>3, <1>4 DEF Packets, Replies

(* Taking the first packet leaves what is older than all the others. *)
LEMMA TakePacketOrder ==
  ASSUME AppInv, TakePacket
  PROVE  PacketsInOrder'
<1> DEFINE p == Head(pending)
<1>0. TypeOK /\ QueueTypes /\ PacketsInOrder /\ pending # <<>>
  BY DEF AppInv, TypeOK, TakePacket
<1>1. al_recv_packet
  BY DEF TakePacket, al_process_control_packet, al_process_setting_packet,
         al_process_rt_monitor_packet, al_process_status_packet, RefusePacket, CallUnsetHandler
<1>2. pending' = Tail(pending) /\ UNCHANGED <<requests, outbox>>
  BY <1>1 DEF al_recv_packet, asks
<1>3. p = pending[1] /\ p.id \in Nat
  BY <1>0, HeadAndTail, Ids
<1>4. \A n \in Nat : OlderThanPending(n) \/ n = p.id => OlderThanPending(n)'
  <2> SUFFICES ASSUME NEW n \in Nat, OlderThanPending(n) \/ n = p.id
               PROVE  OlderThanPending(n)'
    OBVIOUS
  <2>1. n <= requests
    BY <1>0, <1>3, HeadAndTail DEF OlderThanPending, PacketsInOrder
  <2>2. ASSUME NEW i \in 1 .. Len(pending) - 1 PROVE n < pending[i + 1].id
    BY <1>0, <1>3, HeadAndTail DEF OlderThanPending, PacketsInOrder
  <2> QED
    BY <1>0, <1>2, <2>1, <2>2, HeadAndTail DEF OlderThanPending
<1>5. switched' \in {switched, p.id}
  BY DEF TakePacket, al_process_control_packet, al_process_setting_packet, plant,
         al_process_rt_monitor_packet, al_process_status_packet, RefusePacket, CallUnsetHandler
<1>6. reply'.id \in {reply.id, p.id}
  <2>1. CASE al_process_control_packet
    BY <2>1 DEF al_process_control_packet, al_send_packet
  <2>2. CASE al_process_rt_monitor_packet
    BY <2>2 DEF al_process_rt_monitor_packet, al_send_packet
  <2>3. CASE al_process_status_packet
    <3>1. \/ reply' = reply
          \/ \E v : reply' = [id |-> p.id, command |-> "STATUS", key |-> p.key, value |-> v]
      BY <2>3, Zenon DEF al_process_status_packet, al_send_packet
    <3> QED
      BY <3>1
  <2>4. CASE al_process_setting_packet \/ RefusePacket \/ CallUnsetHandler
    BY <2>4 DEF al_process_setting_packet, RefusePacket, CallUnsetHandler
  <2> QED
    BY <2>1, <2>2, <2>3, <2>4 DEF TakePacket
<1>7. /\ OlderThanPending(switched)' /\ OlderThanPending(reply.id)'
      /\ \A i \in 1 .. Len(outbox') : OlderThanPending(outbox[i].id)'
  BY <1>0, <1>2, <1>3, <1>4, <1>5, <1>6, Ids DEF PacketsInOrder
<1>8. /\ \A i \in 1 .. Len(pending') : pending'[i].id <= requests'
      /\ \A i, j \in 1 .. Len(pending') : i < j => pending'[i].id < pending'[j].id
  BY <1>0, <1>2, HeadAndTail DEF PacketsInOrder
<1> QED
  BY <1>7, <1>8 DEF PacketsInOrder

(* No other step changes the order of the packets. *)
LEMMA OtherOrder ==
  ASSUME AppInv, ble_send_handler \/ BleEvent
  PROVE  PacketsInOrder'
<1>0. TypeOK /\ QueueTypes /\ SenderTypes /\ PacketsInOrder
  BY DEF AppInv, TypeOK
<1>1. CASE ble_send_handler
  <2>1. UNCHANGED <<pending, requests, switched, reply>>
    BY <1>1 DEF ble_send_handler, plant, asks
  <2>2. outbox' = outbox \/ outbox' = Append(outbox, reply)
    BY <1>1 DEF ble_send_handler
  <2>3. \A i \in 1 .. Len(outbox') : OlderThanPending(outbox'[i].id)
    BY <1>0, <2>2 DEF PacketsInOrder, SenderTypes
  <2> QED
    BY <1>0, <2>1, <2>3 DEF PacketsInOrder, OlderThanPending
<1>2. CASE on_connect \/ Subscribe
  BY <1>0, <1>2 DEF on_connect, Subscribe, PacketsInOrder, OlderThanPending, plant, sender, asks
<1>3. CASE on_disconnect
  BY <1>0, <1>3 DEF on_disconnect, PacketsInOrder, OlderThanPending, plant, sender, asks
<1>4. CASE TxComplete
  <2>1. UNCHANGED <<pending, requests, switched, reply>>
    BY <1>4 DEF TxComplete, plant, sender, asks
  <2>2. \A i \in 1 .. Len(outbox') : OlderThanPending(outbox'[i].id)
    BY <1>0, <1>4, OutboxTail DEF TxComplete, PacketsInOrder
  <2> QED
    BY <1>0, <2>1, <2>2 DEF PacketsInOrder, OlderThanPending
<1>5. CASE on_write
  <2>1. UNCHANGED <<switched, reply, outbox>> /\ requests' = requests + 1
    BY <1>5 DEF on_write, plant, sender, asks
  <2>2. PICK r \in Requests :
          pending' = Append(pending, [id |-> requests + 1, command |-> r[1], key |-> r[2]])
    BY <1>5 DEF on_write
  <2>3. /\ Len(pending') = Len(pending) + 1 /\ pending'[Len(pending) + 1].id = requests + 1
        /\ \A i \in 1 .. Len(pending) : pending'[i] = pending[i]
    BY <1>0, <2>2 DEF QueueTypes
  <2>4. \A n \in Nat : OlderThanPending(n) => OlderThanPending(n)'
    <3> SUFFICES ASSUME NEW n \in Nat, OlderThanPending(n), NEW i \in 1 .. Len(pending')
                 PROVE  n <= requests' /\ n < pending'[i].id
      BY <1>0, <2>1, Ids DEF OlderThanPending
    <3>1. n <= requests
      BY DEF OlderThanPending
    <3>2. CASE i = Len(pending) + 1
      BY <1>0, <2>1, <2>3, <3>1, <3>2, Ids
    <3>3. CASE i \in 1 .. Len(pending)
      BY <1>0, <2>1, <2>3, <3>1, <3>3, Ids DEF OlderThanPending
    <3> QED
      BY <1>0, <2>3, <3>2, <3>3, Ids
  <2>5. /\ OlderThanPending(switched)' /\ OlderThanPending(reply.id)'
        /\ \A i \in 1 .. Len(outbox') : OlderThanPending(outbox[i].id)'
    BY <1>0, <2>1, <2>4, Ids DEF PacketsInOrder
  <2>6. /\ \A i \in 1 .. Len(pending') : pending'[i].id <= requests'
        /\ \A i, j \in 1 .. Len(pending') : i < j => pending'[i].id < pending'[j].id
    <3>1. \A i \in 1 .. Len(pending) : pending'[i].id \in Nat /\ pending'[i].id <= requests
      BY <1>0, <2>3, Ids DEF PacketsInOrder
    <3>2. \A i \in 1 .. Len(pending') : i = Len(pending) + 1 \/ i \in 1 .. Len(pending)
      BY <1>0, <2>3, Ids
    <3>3. \A i, j \in 1 .. Len(pending) : i < j => pending'[i].id < pending'[j].id
      BY <1>0, <2>3 DEF PacketsInOrder
    <3>4. requests' = requests + 1 /\ requests \in Nat /\ Len(pending) \in Nat
      BY <1>0, <2>1, Ids
    <3> QED
      BY <2>3, <3>1, <3>2, <3>3, <3>4
  <2> QED
    BY <2>5, <2>6 DEF PacketsInOrder
<1> QED
  BY <1>1, <1>2, <1>3, <1>4, <1>5 DEF BleEvent

-----------------------------------------------------------------------------

(* The reply being sent, and those the SoftDevice holds, stay good ones.     *)
LEMMA TakePacketReplies ==
  ASSUME AppInv, TakePacket
  PROVE  ReplyInSend' /\ LastReplyTellsState'
<1> DEFINE p == Head(pending)
<1>0. /\ TypeOK /\ QueueTypes /\ SenderTypes /\ PlantTypes
      /\ PacketsInOrder /\ LastReplyTellsState /\ pending # <<>>
  BY DEF AppInv, TypeOK, TakePacket
<1>1. al_recv_packet
  BY DEF TakePacket, al_process_control_packet, al_process_setting_packet,
         al_process_rt_monitor_packet, al_process_status_packet, RefusePacket, CallUnsetHandler
<1>2. pc = "poll" /\ UNCHANGED <<outbox, sendError>>
  BY <1>1 DEF al_recv_packet
<1>3. m_al_send_status = "SENDING" <=> sendError
  BY <1>2 DEF AppInv, ReplyInSend
<1>4. p = pending[1] /\ p.id \in Nat /\ \A i \in 1 .. Len(outbox) : outbox[i].id < p.id
  BY <1>0, HeadAndTail, Ids DEF PacketsInOrder, OlderThanPending
<1>5. p.id # 0
  BY <1>0, HeadAndTail, Constants DEF Packets
<1>6. reply' # NoReply => reply' \in Replies
  BY TakePacketTypes DEF TypeOK, SenderTypes
<1>7. CASE al_process_control_packet
  <2>1. CASE p.key \in {"CLOSE", "OPEN"}
    <3>1. /\ switched' = p.id /\ execute_status_vaule' = <<"CONTROL", p.key>>
          /\ al_send_packet(p.id, "EXE_STAT", "SUCCESS", execute_status_vaule')
          /\ purify_status' = p.key
      BY <1>7, <2>1 DEF al_process_control_packet
    <3>2. /\ (fan.power <=> purify_status = "OPEN")'
          /\ (fan.power <=> fan.duty > 0)'
          /\ (led <=> fan.power)'
      BY <1>7, <2>1 DEF al_process_control_packet, OpenFan, CloseFan
    <3>3. LastReplyTellsState'
      <4>1. \A i \in 1 .. Len(outbox) : outbox[i].id # p.id
        BY <1>0, <1>4, Ids
      <4> QED
        BY <1>2, <3>1, <4>1 DEF LastReplyTellsState, Confirms
    <3>4. ReplyInSend'
      <4>1. CASE m_al_send_status = "SENDING"
        BY <1>2, <1>3, <3>1, <4>1 DEF al_send_packet, ReplyInSend
      <4>2. CASE m_al_send_status # "SENDING"
        <5>1. /\ m_al_send_status' = "SENDING" /\ ~sendError' /\ pc' = "send"
              /\ reply'.id = p.id /\ reply'.value = <<"CONTROL", purify_status'>>
          BY <1>2, <1>3, <3>1, <4>2 DEF al_send_packet
        <5>2. reply' \in Replies
          BY <1>5, <1>6, <5>1 DEF NoReply
        <5>3. Confirms(reply)'
          BY <3>2, <5>1, Zenon DEF Confirms
        <5> QED
          BY <5>1, <5>2, <5>3 DEF ReplyInSend
      <4> QED
        BY <4>1, <4>2
    <3> QED
      BY <3>3, <3>4
  <2>2. CASE p.key \notin {"CLOSE", "OPEN"}
    <3>1. UNCHANGED <<pc, purify_status, led, fan, switched, reply, m_al_send_status>>
      BY <1>7, <2>2 DEF al_process_control_packet
    <3> QED
      BY <1>0, <1>2, <1>3, <3>1 DEF ReplyInSend, LastReplyTellsState, Confirms
  <2> QED
    BY <2>1, <2>2
<1>8. CASE al_process_rt_monitor_packet \/ al_process_status_packet
  <2>1. PICK command \in {"RT_DATA", "STATUS"}, value \in {<<"reading">>, <<purify_status>>, <<"byte at 100">>} :
          al_send_packet(p.id, command, p.key, value) /\ UNCHANGED plant
    BY <1>8 DEF al_process_rt_monitor_packet, al_process_status_packet
  <2>2. LastReplyTellsState'
    BY <1>0, <1>2, <2>1 DEF LastReplyTellsState, Confirms, plant
  <2>3. CASE m_al_send_status = "SENDING"
    BY <1>2, <1>3, <2>1, <2>2, <2>3 DEF al_send_packet, ReplyInSend
  <2>4. CASE m_al_send_status # "SENDING"
    <3>1. m_al_send_status' = "SENDING" /\ ~sendError' /\ pc' = "send"
      BY <1>2, <1>3, <2>1, <2>4, Zenon DEF al_send_packet
    <3>2. reply' = [id |-> p.id, command |-> command, key |-> p.key, value |-> value]
      BY <2>1, <2>4, Zenon DEF al_send_packet
    <3>3. reply'.id = p.id /\ reply'.command = command
      BY <3>2
    <3>4. reply' \in Replies
      <4>1. reply'.id # NoReply.id
        BY <1>5, <3>3 DEF NoReply
      <4> QED
        BY <1>6, <4>1, Zenon
    <3>5. Confirms(reply)'
      BY <3>3 DEF Confirms
    <3> QED
      BY <2>2, <3>1, <3>4, <3>5 DEF ReplyInSend
  <2> QED
    BY <2>3, <2>4
<1>9. CASE al_process_setting_packet \/ RefusePacket \/ CallUnsetHandler
  <2>1. /\ UNCHANGED <<purify_status, led, fan, switched, reply, m_al_send_status>>
        /\ pc' # "send"
    BY <1>2, <1>9 DEF al_process_setting_packet, RefusePacket, CallUnsetHandler, plant
  <2> QED
    BY <1>0, <1>2, <1>3, <2>1 DEF ReplyInSend, LastReplyTellsState, Confirms
<1> QED
  BY <1>7, <1>8, <1>9 DEF TakePacket

(* So they do when a reply is sent and when the link changes. *)
LEMMA OtherReplies ==
  ASSUME AppInv, ble_send_handler \/ BleEvent
  PROVE  ReplyInSend' /\ LastReplyTellsState'
<1>0. SenderTypes /\ ReplyInSend /\ LastReplyTellsState
  BY DEF AppInv, TypeOK
<1>1. CASE ble_send_handler
  <2>1. /\ Confirms(reply) /\ m_al_send_status = "SENDING" /\ ~sendError
        /\ pc' = "poll" /\ UNCHANGED plant
    BY <1>0, <1>1 DEF ReplyInSend, ble_send_handler
  <2>2. ReplyInSend'
    BY <1>1, <2>1 DEF ReplyInSend, ble_send_handler, TakenAsSent
  <2>3. outbox' = outbox \/ outbox' = Append(outbox, reply)
    BY <1>1 DEF ble_send_handler
  <2>4. \A i \in 1 .. Len(outbox') : Confirms(outbox'[i])
    BY <1>0, <2>1, <2>3 DEF LastReplyTellsState, SenderTypes
  <2> QED
    BY <2>1, <2>2, <2>4 DEF LastReplyTellsState, Confirms, plant
<1>2. CASE BleEvent
  <2>1. UNCHANGED <<pc, plant, sender>>
    BY <1>2 DEF BleEvent, on_connect, on_disconnect, on_write, Subscribe, TxComplete
  <2>2. ReplyInSend'
    BY <1>0, <2>1 DEF ReplyInSend, Confirms, plant, sender, asks
  <2>3. \A i \in 1 .. Len(outbox') : Confirms(outbox'[i])
    <3>1. CASE outbox' = outbox \/ outbox' = <<>>
      BY <1>0, <3>1 DEF LastReplyTellsState
    <3>2. CASE TxComplete
      BY <1>0, <3>2, OutboxTail DEF TxComplete, LastReplyTellsState
    <3> QED
      BY <1>2, <3>1, <3>2 DEF BleEvent, on_connect, on_disconnect, on_write, Subscribe
  <2> QED
    BY <2>1, <2>2, <2>3 DEF LastReplyTellsState, Confirms, plant
<1> QED
  BY <1>1, <1>2

(* A step that changes nothing.                                                *)
LEMMA StutterInv ==
  ASSUME AppInv, UNCHANGED vars
  PROVE  AppInv'
BY DEF vars, link, plant, sender, asks, AppInv, TypeOK, QueueTypes, SenderTypes, PlantTypes, LinkTypes,
       PacketsInOrder, OlderThanPending, ReplyInSend, Confirms, LastReplyTellsState

(* Every step keeps the inductive invariant. *)
LEMMA NextInv == AppInv /\ [Next]_vars => AppInv'
<1> SUFFICES ASSUME AppInv, [Next]_vars PROVE AppInv'
  OBVIOUS
<1>1. CASE TakePacket
  BY <1>1, TakePacketTypes, TakePacketOrder, TakePacketReplies DEF AppInv
<1>2. CASE ble_send_handler
  BY <1>2, SendTypes, OtherOrder, OtherReplies DEF AppInv
<1>3. CASE BleEvent
  BY <1>3, BleEventTypes, OtherOrder, OtherReplies DEF AppInv
<1>4. CASE PollEmpty \/ Faulted \/ UNCHANGED vars
  BY <1>4, StutterInv DEF PollEmpty, Faulted
<1> QED
  BY <1>1, <1>2, <1>3, <1>4 DEF Next, MainLoop

-----------------------------------------------------------------------------

(* The inductive invariant holds of every behaviour of the application layer *)
(* (application.c:200-340, 380-483, protocol.c:30-41, ble_uart.c:17-48).     *)
THEOREM AppInvariant == Spec => []AppInv
<1>1. Init => AppInv
  BY InitInv
<1>2. AppInv /\ [Next]_vars => AppInv'
  BY NextInv
<1> QED
  BY <1>1, <1>2, PTL DEF Spec

(* The application layer keeps its variables in their types. *)
THEOREM AppTypeCorrect == Spec => []TypeOK
<1>1. AppInv => TypeOK
  BY DEF AppInv
<1> QED
  BY <1>1, AppInvariant, PTL

(* Between two packets the sender is busy exactly when some notification was *)
(* refused for another reason than a full buffer (application.c:202-204,     *)
(* protocol.c:34-40): nothing else ever blocks it, and nothing frees it.     *)
THEOREM BusyMeansError == Spec => []BusyOnlyAfterError
<1>1. AppInv => BusyOnlyAfterError
  BY DEF AppInv, ReplyInSend, BusyOnlyAfterError
<1> QED
  BY <1>1, AppInvariant, PTL

(* The confirmation of the last command that switched the purifier tells the *)
(* state it is in, for every interleaving of requests, disconnections and    *)
(* notifications (application.c:23, 384-397, 421).                           *)
THEOREM ConfirmationsTrue == Spec => []LastReplyTellsState
<1>1. AppInv => LastReplyTellsState
  BY DEF AppInv
<1> QED
  BY <1>1, AppInvariant, PTL

(* Once something switched the purifier, its status and the fan agree: the    *)
(* handler sets both in the step in which it takes the packet.                *)
FanAsCommanded == switched > 0 => (fan.power <=> purify_status = "OPEN")

(* At the start nothing has switched the purifier, and nothing is being sent. *)
LEMMA StatusInit == Init => FanAsCommanded /\ StatusTrueOnceSwitched
BY DEF Init, FanAsCommanded, StatusTrueOnceSwitched

(* A status reply is made with the status of that moment.                     *)
LEMMA StatusMade ==
  ASSUME AppInv, FanAsCommanded, al_process_status_packet
  PROVE  FanAsCommanded' /\ StatusTrueOnceSwitched'
<1>1. purify_status \in {"CLOSE", "OPEN"} /\ pc = "poll"
  BY DEF AppInv, TypeOK, PlantTypes, al_process_status_packet, al_recv_packet
<1>2. UNCHANGED plant
  BY DEF al_process_status_packet
<1>3. FanAsCommanded'
  BY <1>2 DEF FanAsCommanded, plant
<1>4. pc' = "send" /\ reply'.key = "PURIFY" => reply'.value = <<purify_status>>
  <2> DEFINE p == Head(pending)
             value == <<IF p.key = "PURIFY" THEN purify_status ELSE "byte at 100">>
  <2>1. al_send_packet(p.id, "STATUS", p.key, value)
    BY DEF al_process_status_packet
  <2>2. CASE pc' = "send"
    <3>1. reply' = [id |-> p.id, command |-> "STATUS", key |-> p.key, value |-> value]
      BY <2>1, <2>2 DEF al_send_packet
    <3> HIDE DEF p
    <3>2. QED
      BY <3>1
  <2>3. QED
    BY <2>2
<1>5. QED
  BY <1>1, <1>2, <1>3, <1>4 DEF FanAsCommanded, StatusTrueOnceSwitched, plant

(* Only a control packet changes fan and status, and it makes no status reply. *)
LEMMA StatusKept ==
  ASSUME AppInv, FanAsCommanded, StatusTrueOnceSwitched, [Next]_vars
  PROVE  FanAsCommanded' /\ StatusTrueOnceSwitched'
<1>1. CASE al_process_control_packet /\ TakePacket
  <2>1. \/ UNCHANGED <<purify_status, fan, switched>> /\ pc' = pc /\ pc = "poll"
        \/ /\ purify_status' = "CLOSE" /\ fan' = [power |-> FALSE, duty |-> 0]
           /\ pc' = "send" => reply'.command = "EXE_STAT"
        \/ /\ purify_status' = "OPEN" /\ fan' = [power |-> TRUE, duty |-> 60]
           /\ pc' = "send" => reply'.command = "EXE_STAT"
    BY <1>1 DEF al_process_control_packet, al_recv_packet, al_send_packet, CloseFan, OpenFan
  <2>2. QED
    BY <2>1 DEF FanAsCommanded, StatusTrueOnceSwitched
<1>2. CASE al_process_status_packet /\ TakePacket
  BY <1>2, StatusMade
<1>3. CASE \/ al_process_setting_packet \/ RefusePacket \/ CallUnsetHandler
  <2>1. UNCHANGED <<purify_status, fan, switched>> /\ pc' # "send"
    BY <1>3 DEF al_process_setting_packet, RefusePacket, CallUnsetHandler, al_recv_packet, plant
  <2>2. QED
    BY <2>1 DEF FanAsCommanded, StatusTrueOnceSwitched
<1>4. CASE al_process_rt_monitor_packet
  <2>1. UNCHANGED plant /\ (pc' = "send" => reply'.command = "RT_DATA")
    BY <1>4 DEF al_process_rt_monitor_packet, al_recv_packet, al_send_packet
  <2>2. QED
    BY <2>1 DEF FanAsCommanded, StatusTrueOnceSwitched, plant
<1>5. CASE ble_send_handler
  <2>1. UNCHANGED plant /\ pc' = "poll"
    BY <1>5 DEF ble_send_handler
  <2>2. QED
    BY <2>1 DEF FanAsCommanded, StatusTrueOnceSwitched, plant
<1>6. CASE BleEvent \/ PollEmpty \/ Faulted \/ UNCHANGED vars
  <2>1. UNCHANGED <<pc, reply, plant>>
    BY <1>6 DEF BleEvent, on_connect, on_disconnect, on_write, Subscribe, TxComplete,
                PollEmpty, Faulted, vars, sender, asks
  <2>2. QED
    BY <2>1 DEF FanAsCommanded, StatusTrueOnceSwitched, plant
<1>7. QED
  BY <1>1, <1>2, <1>3, <1>4, <1>5, <1>6 DEF Next, MainLoop, TakePacket

(* A status reply tells what the fan does once a control packet has switched  *)
(* it (application.c:384-397, 476): the interrupt changes neither between     *)
(* the reading of the status and the sending of it.                           *)
THEOREM StatusTrue == Spec => []StatusTrueOnceSwitched
<1>1. Init => AppInv /\ FanAsCommanded /\ StatusTrueOnceSwitched
  BY InitInv, StatusInit
<1>2. AppInv /\ FanAsCommanded /\ StatusTrueOnceSwitched /\ [Next]_vars
        => (AppInv /\ FanAsCommanded /\ StatusTrueOnceSwitched)'
  BY NextInv, StatusKept
<1>3. QED
  BY <1>1, <1>2, PTL DEF Spec
=============================================================================
