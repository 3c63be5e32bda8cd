------------------------------- MODULE AppLayer -------------------------------
(***************************************************************************)
(* The application layer (Source/protocol/application.c) with the code it   *)
(* sends through (protocol.c, ble_uart.c) and the fan and LED it switches.  *)
(* The main loop takes one packet at a time from the RX buffer queue, which *)
(* is here the FIFO it implements while the phone does not outrun it        *)
(* (RxFifo), runs its handler and sends at most one notification.  The BLE  *)
(* event interrupt may change the link between any two steps of the loop.   *)
(* The SoftDevice's side of the link and the phone are external.            *)
(***************************************************************************)
EXTENDS Naturals, Sequences

CONSTANTS Requests,        \* the [command, key] pairs the phone sends
          QueueCapacity,   \* writes the RX buffer queue holds: RX_BUFFER_QUEUE_LENGTH - 1
          TxBuffers,       \* notifications the SoftDevice can hold
          MaxRequests,     \* bound: requests of a behaviour
          MaxConnections   \* bound: connections of a behaviour

ASSUME AppLayerAssumption ==
  /\ QueueCapacity \in Nat \ {0} /\ TxBuffers \in Nat \ {0}
  /\ MaxRequests \in Nat /\ MaxConnections \in Nat

VARIABLES
  pending,            \* the packets waiting in the RX buffer queue
  pc,                 \* of the main loop: "poll", "send" or "fault"
  reply,              \* the packet al_send_packet is sending: m_al_send_packet
  m_al_send_status,
  execute_status_vaule,
  purify_status,
  fan,                \* the fan's power pin and the duty cycle asked for
  led,                \* PURIFIER_LED_PIN_NO is lit
  calendar,           \* the request that last set the calendar
  handler,            \* of the commands purifier_protocol_init gives none
  conn_handle,        \* p_uart->conn_handle, a connection's number or NoConn
  subscribed,         \* external: the phone enabled notifications
  outbox,             \* external: notifications waiting in the SoftDevice
  sendResult,         \* what al_send_packet last returned
  requests,           \* history: requests written so far
  asked,              \* history: the connection each was written in
  connections,        \* history: connections so far
  answered,           \* history: the requests whose reply was sent to the phone that asked
  dropped,            \* history: the requests for whose reply the SoftDevice had no buffer
  sendError,          \* history: it refused a reply for another reason
  switched            \* history: the last request that switched the purifier, or 0

link == <<conn_handle, subscribed, connections>>
plant == <<purify_status, fan, led, calendar, switched>>
sender == <<reply, m_al_send_status, sendResult, dropped, sendError>>
asks == <<requests, asked>>
vars == <<pending, pc, execute_status_vaule, handler, outbox, answered, asks, link, plant, sender>>

NoConn == 0
NoReply == [id |-> 0]

(* purifier_protocol_init leaves these three members of a stack variable     *)
(* unset; al_init copies whatever was there.                                 *)
UnsetHandlers == {"DFU", "TEST", "LOG"}

(* The keys the two monitoring handlers know; any other is AL_ERROR_KEY. *)
RtDataKeys  == {"PM25", "TVOC", "TEMP", "HUMI"}
StatusKeys  == {"BATT_CAP", "PURIFY"}

(* The requests a reply is due to. *)
Answerable(p) ==
  \/ p.command = "CONTROL" /\ p.key \in {"CLOSE", "OPEN"}
  \/ p.command = "RT_DATA" /\ p.key \in RtDataKeys
  \/ p.command = "STATUS" /\ p.key \in StatusKeys

OpenFan(duty) == fan' = [power |-> TRUE, duty |-> duty]
(* Mutant: the power pin is left on. *)
CloseFanDuty == fan' = [power |-> TRUE, duty |-> 0]
CloseFan == fan' = [power |-> FALSE, duty |-> 0]

-----------------------------------------------------------------------------

Init ==
  /\ pending = <<>> /\ pc = "poll"
  /\ reply = NoReply /\ m_al_send_status = "SUCCESS" /\ sendResult = "AL_SUCCESS"
  /\ execute_status_vaule = <<"EXE_STAT", "CLOSE">>   \* two zero bytes
  /\ purify_status = "CLOSE"
  /\ fan = [power |-> TRUE, duty |-> 60]              \* InitFan
  /\ led = FALSE                                      \* InitLed
  /\ calendar = 0
  /\ handler \in [UnsetHandlers -> {"null", "garbage"}]
  /\ conn_handle = NoConn /\ subscribed = FALSE
  /\ outbox = <<>>
  /\ requests = 0 /\ connections = 0 /\ switched = 0
  /\ asked = [n \in 1 .. MaxRequests |-> NoConn]
  /\ answered = {} /\ dropped = {} /\ sendError = FALSE

(* al_send_packet up to the call of ble_send_handler.  The payloads of all   *)
(* callers are below AL_PAYLOAD_MTU.                                         *)
al_send_packet(id, command, key, value) ==
  IF m_al_send_status = "SENDING"
    THEN /\ sendResult' = "AL_WAIT"
         /\ pc' = "poll"
         /\ UNCHANGED <<reply, m_al_send_status>>
    ELSE /\ m_al_send_status' = "SENDING"
         /\ reply' = [id |-> id, command |-> command, key |-> key, value |-> value]
         /\ pc' = "send"
         /\ UNCHANGED sendResult

(* al_recv_packet on the packet at the head of the queue: the part all       *)
(* handlers share.  The queue ignores the code it returns.                   *)
al_recv_packet ==
  /\ pc = "poll"
  /\ pending' = Tail(pending)
  /\ UNCHANGED <<handler, outbox, asks, link, answered, dropped, sendError>>

al_process_control_packet ==
  LET p == Head(pending) IN
    /\ p.command = "CONTROL"
    /\ al_recv_packet
    /\ execute_status_vaule' = <<"CONTROL", p.key>>
    /\ \/ /\ p.key = "CLOSE"
          /\ purify_status' = "CLOSE" /\ led' = FALSE /\ CloseFan
          /\ switched' = p.id
          /\ al_send_packet(p.id, "EXE_STAT", "SUCCESS", execute_status_vaule')
       \/ /\ p.key = "OPEN"
          /\ purify_status' = "OPEN" /\ led' = TRUE /\ OpenFan(60)
          /\ switched' = p.id
          /\ al_send_packet(p.id, "EXE_STAT", "SUCCESS", execute_status_vaule')
       \/ /\ p.key \notin {"CLOSE", "OPEN"}     \* REVOLVING, POWEROFF, default
          /\ UNCHANGED <<pc, purify_status, led, fan, switched, reply, m_al_send_status,
                         sendResult>>
    /\ UNCHANGED calendar

al_process_setting_packet ==
  LET p == Head(pending) IN
    /\ p.command = "SETTING"
    /\ al_recv_packet
    /\ execute_status_vaule' = <<"SETTING", p.key>>
    /\ calendar' = IF p.key = "TIME" THEN p.id ELSE calendar   \* SetCalenderTime
    /\ UNCHANGED <<pc, purify_status, fan, led, switched, reply, m_al_send_status, sendResult>>

al_process_rt_monitor_packet ==
  LET p == Head(pending) IN
    /\ p.command = "RT_DATA" /\ p.key \in RtDataKeys
    /\ al_recv_packet
    /\ al_send_packet(p.id, "RT_DATA", p.key, <<"reading">>)
    /\ UNCHANGED <<execute_status_vaule, plant>>

(* The battery capacity is read through a pointer whose value is 100: it is  *)
(* the byte at that address, whatever the battery.                           *)
al_process_status_packet ==
  LET p == Head(pending) IN
    /\ p.command = "STATUS" /\ p.key \in StatusKeys
    /\ al_recv_packet
    /\ al_send_packet(p.id, "STATUS", p.key,
                      <<IF p.key = "PURIFY" THEN purify_status ELSE "byte at 100">>)
    /\ UNCHANGED <<execute_status_vaule, plant>>

(* A packet that fails al_check_recv_packet, a command id without a case and *)
(* a key a sending handler does not know: an error code, and nothing else.   *)
RefusePacket ==
  LET p == Head(pending) IN
    /\ p.command \notin {"CONTROL", "SETTING"} \cup UnsetHandlers
    /\ p.command = "RT_DATA" => p.key \notin RtDataKeys
    /\ p.command = "STATUS" => p.key \notin StatusKeys
    /\ al_recv_packet
    /\ UNCHANGED <<pc, execute_status_vaule, plant, reply, m_al_send_status, sendResult>>

(* The handler pointer is tested against 0 and otherwise called.  A call     *)
(* through what the stack held ends in the processor's fault handler.        *)
CallUnsetHandler ==
  LET p == Head(pending) IN
    /\ p.command \in UnsetHandlers
    /\ al_recv_packet
    /\ pc' = IF handler[p.command] = "null" THEN "poll" ELSE "fault"
    /\ UNCHANGED <<execute_status_vaule, plant, reply, m_al_send_status, sendResult>>

(* sd_ble_gatts_hvx, external.  It answers NRF_ERROR_BUSY only to            *)
(* indications, which this code never sends.                                 *)
HvxResult ==
  CASE conn_handle = NoConn -> "BLE_ERROR_INVALID_CONN_HANDLE"
    [] conn_handle # NoConn /\ ~subscribed -> "NRF_ERROR_INVALID_STATE"
    [] conn_handle # NoConn /\ subscribed /\ Len(outbox) = TxBuffers -> "BLE_ERROR_NO_TX_BUFFERS"
    [] OTHER -> "NRF_SUCCESS"

(* Mutant: a full buffer is an error like any other. *)
TakenOnSuccess == {"NRF_SUCCESS"}

(* The codes after which ble_send_handler calls al_send_success. *)
TakenAsSent == {"NRF_SUCCESS", "BLE_ERROR_NO_TX_BUFFERS"}

(* ble_send_handler and ble_uart_send: the rest of al_send_packet, and the   *)
(* return to the main loop.  Nothing calls al_send_failed.                   *)
ble_send_handler ==
  /\ pc = "send"
  /\ IF HvxResult \in TakenAsSent
       THEN m_al_send_status' = "SUCCESS" /\ sendResult' = "AL_SUCCESS"   \* al_send_success
       ELSE sendResult' = "AL_ERROR" /\ UNCHANGED m_al_send_status
  /\ \/ /\ HvxResult = "NRF_SUCCESS"
        /\ outbox' = Append(outbox, reply)
        /\ UNCHANGED <<dropped, sendError>>
     \/ /\ HvxResult = "BLE_ERROR_NO_TX_BUFFERS"
        /\ dropped' = dropped \cup {reply.id}
        /\ UNCHANGED <<outbox, sendError>>
     \/ /\ HvxResult \notin {"NRF_SUCCESS", "BLE_ERROR_NO_TX_BUFFERS"}
        /\ sendError' = TRUE
        /\ UNCHANGED <<outbox, dropped>>
  /\ pc' = "poll"
  /\ UNCHANGED <<pending, execute_status_vaule, handler, answered, asks, link, plant, reply>>

(* The queue is empty: the turn of the main loop does nothing. *)
PollEmpty == pc = "poll" /\ pending = <<>> /\ UNCHANGED vars

(* The fault handler is an endless loop and keeps the interrupts out. *)
Faulted == pc = "fault" /\ UNCHANGED vars

TakePacket ==
  /\ pending # <<>>
  /\ \/ al_process_control_packet \/ al_process_setting_packet
     \/ al_process_rt_monitor_packet \/ al_process_status_packet
     \/ RefusePacket \/ CallUnsetHandler

MainLoop == TakePacket \/ ble_send_handler \/ PollEmpty \/ Faulted

-----------------------------------------------------------------------------

(* ble_uart_on_ble_evt in the BLE event interrupt. *)
on_connect ==
  /\ pc # "fault" /\ conn_handle = NoConn /\ connections < MaxConnections
  /\ connections' = connections + 1
  /\ conn_handle' = connections + 1
  /\ subscribed' = FALSE
  /\ UNCHANGED <<pending, pc, execute_status_vaule, handler, outbox, answered, asks, plant, sender>>

(* The SoftDevice forgets what it had not yet sent; the RX buffer queue is   *)
(* not flushed.                                                              *)
on_disconnect ==
  /\ pc # "fault" /\ conn_handle # NoConn
  /\ conn_handle' = NoConn
  /\ subscribed' = FALSE
  /\ outbox' = <<>>
  /\ UNCHANGED <<pending, pc, execute_status_vaule, handler, answered, asks, connections, plant,
                 sender>>

(* The phone writes to the recv characteristic, and does not outrun the queue. *)
on_write ==
  /\ pc # "fault" /\ conn_handle # NoConn
  /\ requests < MaxRequests /\ Len(pending) < QueueCapacity
  /\ requests' = requests + 1
  /\ asked' = [asked EXCEPT ![requests + 1] = conn_handle]
  /\ \E r \in Requests :
       pending' = Append(pending, [id |-> requests + 1, command |-> r[1], key |-> r[2]])
  /\ UNCHANGED <<pc, execute_status_vaule, handler, outbox, answered, link, plant, sender>>

(* External: the phone enables notifications. *)
Subscribe ==
  /\ pc # "fault" /\ conn_handle # NoConn /\ ~subscribed
  /\ subscribed' = TRUE
  /\ UNCHANGED <<pending, pc, execute_status_vaule, handler, outbox, answered, asks, conn_handle,
                 connections, plant, sender>>

(* External: the SoftDevice sends the oldest notification it holds to the    *)
(* phone connected now, which may not be the one that asked.                 *)
TxComplete ==
  /\ pc # "fault" /\ outbox # <<>>
  /\ outbox' = Tail(outbox)
  /\ LET n == Head(outbox).id IN
       answered' = answered \cup IF asked[n] = conn_handle THEN {n} ELSE {}
  /\ UNCHANGED <<pending, pc, execute_status_vaule, handler, asks, link, plant, sender>>

BleEvent == on_connect \/ on_disconnect \/ on_write \/ Subscribe \/ TxComplete

Next == MainLoop \/ BleEvent

Spec == Init /\ [][Next]_vars

(* The main loop always goes on, and the SoftDevice sends what it holds as   *)
(* long as the link lasts; the phone owes nothing.                           *)
FairSpec == Spec /\ WF_vars(MainLoop) /\ WF_vars(TxComplete)

-----------------------------------------------------------------------------

Packets == [id : 1 .. MaxRequests, command : {r[1] : r \in Requests}, key : {r[2] : r \in Requests}]

ReplyKeys == {"SUCCESS"} \cup RtDataKeys \cup StatusKeys

ReplyValues ==
  {<<"reading">>, <<"byte at 100">>, <<"CLOSE">>, <<"OPEN">>,
   <<"CONTROL", "CLOSE">>, <<"CONTROL", "OPEN">>}

Replies == [id : 1 .. MaxRequests, command : {"EXE_STAT", "RT_DATA", "STATUS"},
            key : ReplyKeys, value : ReplyValues]

QueueTypes ==
  /\ pending \in Seq(Packets) /\ Len(pending) <= QueueCapacity
  /\ pc \in {"poll", "send", "fault"}
  /\ handler \in [UnsetHandlers -> {"null", "garbage"}]
  /\ requests \in 0 .. MaxRequests
  /\ asked \in [1 .. MaxRequests -> NoConn .. MaxConnections]

SenderTypes ==
  /\ reply \in Replies \cup {NoReply}
  /\ m_al_send_status \in {"SUCCESS", "SENDING"}
  /\ sendResult \in {"AL_SUCCESS", "AL_WAIT", "AL_ERROR"}
  /\ outbox \in Seq(Replies) /\ Len(outbox) <= TxBuffers
  /\ answered \subseteq 1 .. requests /\ dropped \subseteq 1 .. requests
  /\ sendError \in BOOLEAN

PlantTypes ==
  /\ execute_status_vaule \in
       {"EXE_STAT", "CONTROL", "SETTING"} \X ({"CLOSE"} \cup {r[2] : r \in Requests})
  /\ purify_status \in {"CLOSE", "OPEN"}
  /\ fan \in [power : BOOLEAN, duty : {0, 60}]
  /\ led \in BOOLEAN
  /\ calendar \in 0 .. requests
  /\ switched \in 0 .. requests

LinkTypes ==
  /\ connections \in 0 .. MaxConnections
  /\ conn_handle \in NoConn .. connections
  /\ subscribed \in BOOLEAN
  /\ subscribed => conn_handle # NoConn

TypeOK == QueueTypes /\ SenderTypes /\ PlantTypes /\ LinkTypes

(* Between two packets the sender is busy exactly when a notification has    *)
(* ever been refused for another reason than a full buffer, and then nothing *)
(* is being sent: the state AL_WAIT reports is that of a send long over      *)
(* (application.c:202-204, protocol.c:34-40).                                *)
BusyOnlyAfterError == pc = "poll" => (m_al_send_status = "SENDING" <=> sendError)

(* What a confirmation of the packet that last switched the purifier says.   *)
Confirms(r) ==
  r.command = "EXE_STAT" /\ r.id = switched
    => /\ r.value = <<"CONTROL", purify_status>>
       /\ fan.power <=> purify_status = "OPEN"
       /\ fan.power <=> fan.duty > 0
       /\ led <=> fan.power

(* The confirmation of the packet that last switched the purifier, as long   *)
(* as the SoftDevice holds it, tells the state the status reply would give,  *)
(* the fan's power pin and the LED are in, although its value is a static    *)
(* pair that every control and setting packet overwrites and packets written *)
(* before a disconnection run after it (application.c:23, 384-397, 421).     *)
LastReplyTellsState == \A i \in 1 .. Len(outbox) : Confirms(outbox[i])

(* Once a control packet has switched the purifier, a status reply tells what *)
(* the fan does, whichever packets, connections and refused replies came in   *)
(* between.  Before, it does not: purify_status starts as CLOSE while InitFan *)
(* opens the fan (application.c:24, 384-397, 476; fan.c:29).                  *)
StatusTrueOnceSwitched ==
  pc = "send" /\ reply.command = "STATUS" /\ reply.key = "PURIFY" /\ switched > 0
    => (reply.value = <<"OPEN">> <=> fan.power)

(* A request that is due a reply gets it, sent to the phone that asked, or   *)
(* its connection has ended, or the reply was lost for one of three reasons: *)
(* no transmit buffer for this very reply, an error of its send or of an     *)
(* earlier one, or a processor fault.  No other interleaving of packets,     *)
(* sends and earlier connections loses it or leaves it with the device       *)
(* (application.c:200-219, 380-483, protocol.c:30-41).                       *)
AnsweredOrExcused ==
  \A n \in 1 .. MaxRequests :
    (\E i \in 1 .. Len(pending) : pending[i].id = n /\ Answerable(pending[i]))
      ~> \/ n \in answered \cup dropped
         \/ asked[n] # conn_handle
         \/ sendError
         \/ pc = "fault"

(* The inductive invariant.  Packets wait in the order of their numbers, and  *)
(* everything the application layer still holds is older than all of them.   *)
OlderThanPending(n) ==
  n <= requests /\ \A i \in 1 .. Len(pending) : n < pending[i].id

PacketsInOrder ==
  /\ \A i \in 1 .. Len(pending) : pending[i].id <= requests
  /\ \A i, j \in 1 .. Len(pending) : i < j => pending[i].id < pending[j].id
  /\ OlderThanPending(switched)
  /\ OlderThanPending(reply.id)
  /\ \A i \in 1 .. Len(outbox) : OlderThanPending(outbox[i].id)

(* The reply being sent is a good one, and the sender was free for it.       *)
ReplyInSend ==
  /\ pc = "send" => /\ reply \in Replies /\ Confirms(reply)
                    /\ m_al_send_status = "SENDING" /\ ~sendError
  /\ pc # "send" => (m_al_send_status = "SENDING" <=> sendError)

AppInv == TypeOK /\ PacketsInOrder /\ ReplyInSend /\ LastReplyTellsState

(* application.c:196 says of AL_WAIT "The previous packet is sending. Just   *)
(* wait and send again.": a busy sender should become free.                  *)
WaitEnds == (m_al_send_status = "SENDING") ~> (m_al_send_status # "SENDING")
=============================================================================
