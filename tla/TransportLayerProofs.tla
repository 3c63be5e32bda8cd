------------------------- MODULE TransportLayerProofs -------------------------
(***************************************************************************)
(* Proofs about the transport layer: about Transport for every number of    *)
(* sub-packets, resends and sequence numbers, then about TransportReceiver  *)
(* for all packets and every size of sub-packets and buffer, then about     *)
(* TransportLayer, which has both halves.                                   *)
(***************************************************************************)
EXTENDS TransportLayer, SequenceTheorems, FiniteSetTheorems, TLAPS

(* The sending half.                                                         *)

Envs == [data : Data, number : 0 .. MaxNumber, id : Ids]
Timers == [status : {"stop", "start"}, count : 0 .. TCL_RESEND_MAX_TIMES]
Acks == [id : Ids, err : BOOLEAN]
Subs == [id : Ids, data : Data]

(* What the bounds and sets are.                                               *)
LEMMA Constants ==
  /\ NoEnv \in Envs /\ Stopped \in Timers
  /\ Ids \subseteq Nat /\ 0 \in Ids /\ 0 .. MaxNumber \subseteq Ids
  /\ Data \subseteq Nat
  BY TransportAssumption DEF NoEnv, Stopped, Envs, Timers, Ids, Data, NULL

(* What is under way and what the phone has after a sub-packet was taken.    *)
LEMMA Reached ==
  ASSUME NEW e \in Envs, NEW pending \in Seq(Acks), Len(pending) <= MaxAcks,
         NEW before \in SUBSET Subs, Reaches(e, pending, before)
  PROVE  /\ acks' \in Seq(Acks) /\ Len(acks') <= MaxAcks /\ got' \subseteq Subs
         /\ ~confused' => got' \in {before, before \cup {[id |-> e.id, data |-> e.data]}}
         /\ pending = <<>> /\ ~confused' =>
              /\ Len(acks') <= 1
              /\ \/ acks' = <<>> \/ Head(acks').err
                 \/ /\ Head(acks').id = e.id
                    /\ [id |-> e.id, data |-> e.data] \in got'
<1> DEFINE sub == [id |-> e.id, data |-> e.data]
           with == IF confused' THEN {} ELSE before \cup {sub}
           without == IF confused' THEN {} ELSE before
<1>1. sub \in Subs /\ e.id \in Ids
  BY DEF Envs, Subs
<1>2. with \subseteq Subs /\ without \subseteq Subs
  BY <1>1
<1>3. ~confused' => without = before /\ with = before \cup {sub} /\ sub \in with
  OBVIOUS
<1>4. CASE acks' = pending /\ got' \in {with, without}
  <2> HIDE DEF with, without, sub
  <2> QED  BY <1>2, <1>3, <1>4 DEF sub
<1>5. ASSUME Len(pending) < MaxAcks, NEW a \in Acks, acks' = Append(pending, a),
             (a.err /\ got' = without) \/ (a.id = e.id /\ got' = with)
      PROVE  /\ acks' \in Seq(Acks) /\ Len(acks') <= MaxAcks /\ got' \subseteq Subs
             /\ ~confused' => got' \in {before, before \cup {sub}}
             /\ pending = <<>> /\ ~confused' =>
                  /\ Len(acks') <= 1
                  /\ \/ acks' = <<>> \/ Head(acks').err
                     \/ (Head(acks').id = e.id /\ sub \in got')
  <2> HIDE DEF with, without, sub
  <2>1. acks' \in Seq(Acks) /\ Len(acks') = Len(pending) + 1
    BY <1>5
  <2>2. pending = <<>> => Head(acks') = a /\ Len(acks') = 1
    BY <1>5
  <2> QED  BY <1>2, <1>3, <1>5, <2>1, <2>2, TransportAssumption
<1>6. CASE /\ Len(pending) < MaxAcks
           /\ acks' = Append(pending, [id |-> e.id, err |-> FALSE])
           /\ got' = with
  BY <1>1, <1>5, <1>6 DEF Acks
<1>7. CASE /\ Len(pending) < MaxAcks
           /\ \E named \in {0, e.id} :
                acks' = Append(pending, [id |-> named, err |-> TRUE])
           /\ got' = without
  <2>1. PICK named \in {0, e.id} : acks' = Append(pending, [id |-> named, err |-> TRUE])
    BY <1>7
  <2>2. [id |-> named, err |-> TRUE] \in Acks
    BY <1>1, Constants DEF Acks
  <2> QED  BY <1>5, <1>7, <2>1, <2>2
<1>8. \/ acks' = pending /\ got' \in {with, without}
      \/ /\ Len(pending) < MaxAcks
         /\ acks' = Append(pending, [id |-> e.id, err |-> FALSE])
         /\ got' = with
      \/ /\ Len(pending) < MaxAcks
         /\ \E named \in {0, e.id} :
              acks' = Append(pending, [id |-> named, err |-> TRUE])
         /\ got' = without
  BY Zenon DEF Reaches
<1> HIDE DEF with, without
<1> HIDE DEF sub
<1> QED  BY <1>4, <1>6, <1>7, <1>8, Zenon

Statuses == {"success", "sending", "failed"}

(* TypeOK in these terms.                                                      *)
LEMMA Types ==
  TypeOK <=> /\ m_send_status \in Statuses /\ env \in Envs /\ timer \in Timers
             /\ acks \in Seq(Acks) /\ Len(acks) <= MaxAcks /\ got \subseteq Subs
             /\ total \in 0 .. MaxNumber /\ sends \in Nat
             /\ confused \in BOOLEAN /\ stray \in BOOLEAN
  BY DEF TypeOK, Statuses, Envs, Timers, Acks, Subs

(* The two outcomes of tcl_send_sub_packet.                                   *)
LEMMA SubPacket ==
  ASSUME TypeOK, NEW e \in Envs, NEW t \in Timers,
         NEW pending \in Seq(Acks), Len(pending) <= MaxAcks,
         tcl_send_sub_packet(e, t, pending)
  PROVE  /\ m_send_status' \in Statuses /\ env' \in Envs /\ timer' \in Timers
         /\ acks' \in Seq(Acks) /\ Len(acks') <= MaxAcks /\ got' \subseteq Subs
         /\ \/ /\ Reaches(e, pending, got)
               /\ m_send_status' = m_send_status /\ env' = e
               /\ timer'.status = "start" /\ timer'.count = t.count
            \/ /\ m_send_status' = "failed" /\ env' = NoEnv /\ timer' = t
               /\ acks' = pending /\ (~confused' => got' = got)
<1> got \in SUBSET Subs /\ m_send_status \in Statuses
  BY Types
<1>1. CASE Taken(e, t, pending, got) /\ env' = e /\ UNCHANGED m_send_status
  <2>1. Reaches(e, pending, got) /\ timer' = [t EXCEPT !.status = "start"]
    BY <1>1 DEF Taken
  <2>2. timer' \in Timers /\ timer'.status = "start" /\ timer'.count = t.count
    BY <2>1 DEF Timers
  <2> QED  BY <1>1, <2>1, <2>2, Reached
<1>2. CASE Refused(t, pending, got)
  BY <1>2, Constants DEF Refused, Statuses
<1> QED  BY <1>1, <1>2 DEF tcl_send_sub_packet

(* The environment after an acknowledgement.                                   *)
LEMMA AckedEnvType ==
  ASSUME TypeOK, acks # <<>>
  PROVE  /\ AckedEnv \in Envs /\ Head(acks) \in Acks
         /\ AckedEnv.id = (Head(acks).id + 1) % IdRange
         /\ AckedEnv.data = env.data /\ AckedEnv.number = env.number
         /\ Tail(acks) \in Seq(Acks) /\ Len(Tail(acks)) = Len(acks) - 1
         /\ Len(Tail(acks)) <= MaxAcks
<1>1. acks \in Seq(Acks) /\ env \in Envs /\ Len(acks) <= MaxAcks
  BY Types
<1>2. Head(acks) \in Acks /\ Tail(acks) \in Seq(Acks) /\ Len(Tail(acks)) = Len(acks) - 1
  BY <1>1
<1>3. (Head(acks).id + 1) % IdRange \in Ids
  BY <1>2, TransportAssumption DEF Acks, Ids
<1>4. Len(Tail(acks)) <= MaxAcks
  BY <1>1, <1>2, TransportAssumption
<1> QED  BY <1>1, <1>2, <1>3, <1>4 DEF AckedEnv, Envs

Bounds == TimeOutComes /\ GivesUpInTime /\ EnvOfPacket

(* The piece behind a piece is one, or none.                                   *)
LEMMA NextPieceType == \A d \in Data : NextPiece(d) \in Data
  BY TransportAssumption DEF NextPiece, Data, NULL

(* Every step keeps the types.                                                 *)
LEMMA TypeStep == TypeOK /\ [Next]_vars => TypeOK'
<1> SUFFICES ASSUME TypeOK, [Next]_vars PROVE TypeOK'
  OBVIOUS
<1> USE Constants
<1>0. /\ m_send_status \in Statuses /\ env \in Envs /\ timer \in Timers
      /\ acks \in Seq(Acks) /\ Len(acks) <= MaxAcks /\ got \in SUBSET Subs
      /\ total \in 0 .. MaxNumber /\ sends \in Nat
      /\ confused \in BOOLEAN /\ stray \in BOOLEAN
  BY Types
<1> SUFFICES /\ m_send_status' \in Statuses /\ env' \in Envs /\ timer' \in Timers
             /\ acks' \in Seq(Acks) /\ Len(acks') <= MaxAcks /\ got' \subseteq Subs
             /\ total' \in 0 .. MaxNumber /\ sends' \in Nat
             /\ confused' \in BOOLEAN /\ stray' \in BOOLEAN
  BY DEF TypeOK, Statuses, Envs, Timers, Acks, Subs
<1>1. ASSUME NEW number \in 1 .. MaxNumber, tcl_send_packet(number)
      PROVE  /\ m_send_status' \in Statuses /\ env' \in Envs /\ timer' \in Timers
             /\ acks' \in Seq(Acks) /\ Len(acks') <= MaxAcks /\ got' \subseteq Subs
             /\ total' \in 0 .. MaxNumber /\ sends' \in Nat
             /\ confused' \in BOOLEAN /\ stray' \in BOOLEAN
  <2> DEFINE e == [data |-> 0, number |-> number, id |-> 0]
  <2>1. e \in Envs
    BY TransportAssumption DEF Envs, Data, NULL
  <2>2. total' = number /\ sends' = 1 /\ confused' \in BOOLEAN /\ stray' \in BOOLEAN
    BY <1>1 DEF tcl_send_packet
  <2>3. CASE Refused(timer, acks, {})
    BY <1>0, <2>2, <2>3 DEF Refused, Statuses
  <2>4. CASE /\ Taken(e, timer, acks, {})
             /\ IF number = 1 THEN m_send_status' = "success" /\ env' = NoEnv
                              ELSE m_send_status' = "sending" /\ env' = e
    <3>1. acks' \in Seq(Acks) /\ Len(acks') <= MaxAcks /\ got' \subseteq Subs
      <4> HIDE DEF e
      <4>1. {} \in SUBSET Subs /\ Reaches(e, acks, {})
        BY <2>4 DEF Taken
      <4> QED  BY <1>0, <2>1, <4>1, Reached
    <3>2. timer' \in Timers
      BY <1>0, <2>4 DEF Taken, Timers
    <3>3. m_send_status' \in Statuses /\ env' \in Envs
      BY <2>1, <2>4 DEF Statuses
    <3> QED  BY <2>2, <3>1, <3>2, <3>3
  <2> QED  BY <1>1, <2>3, <2>4 DEF tcl_send_packet
<1>2. CASE RecvErr
  <2>1. AckedEnv \in Envs /\ Tail(acks) \in Seq(Acks) /\ Len(Tail(acks)) <= MaxAcks
    BY <1>2, AckedEnvType DEF RecvErr
  <2> QED  BY <1>0, <1>2, <2>1, SubPacket DEF RecvErr
<1>3. CASE RecvAck
  <2>1. /\ AckedEnv \in Envs /\ AckedEnv.data = env.data
        /\ Tail(acks) \in Seq(Acks) /\ Len(Tail(acks)) <= MaxAcks
    BY <1>3, AckedEnvType DEF RecvAck
  <2>2. [AckedEnv EXCEPT !.data = NextPiece(@)] \in Envs
    BY <2>1, NextPieceType DEF Envs
  <2> QED  BY <1>0, <1>3, <2>1, <2>2, SubPacket DEF RecvAck
<1>4. CASE RecvLastAck
  BY <1>0, <1>4, AckedEnvType DEF RecvLastAck, Statuses
<1>5. CASE RecvStrayAck
  BY <1>0, <1>5, AckedEnvType DEF RecvStrayAck
<1>6. CASE RecvInvalid
  BY <1>0, <1>6 DEF RecvInvalid, Statuses
<1>7. CASE GiveUp
  BY <1>0, <1>7 DEF GiveUp, Statuses
<1>8. CASE Resend
  <2>1. [timer EXCEPT !.count = @ + 1] \in Timers
    BY <1>0, <1>8, TransportAssumption DEF Resend, Timers
  <2> QED  BY <1>0, <1>8, <2>1, SubPacket DEF Resend
<1>9. CASE UNCHANGED vars
  BY <1>0, <1>9 DEF vars
<1> QED  BY <1>1, <1>2, <1>3, <1>4, <1>5, <1>6, <1>7, <1>8, <1>9
       DEF Next, tcl_process_recv_ack, tcl_timer_time_out

(* The parts that hold confused or not.                                       *)
LEMMA BoundStep ==
  TypeOK /\ Bounds /\ [Next]_vars => Bounds'
<1> SUFFICES ASSUME TypeOK, Bounds, [Next]_vars
             PROVE  (TimeOutComes /\ GivesUpInTime /\ EnvOfPacket)'
  BY DEF Bounds
<1> USE TransportAssumption DEF TimeOutComes, GivesUpInTime, EnvOfPacket, NoEnv, Stopped
<1>0. /\ env \in Envs /\ timer \in Timers /\ total \in 0 .. MaxNumber /\ sends \in Nat
      /\ TimeOutComes /\ GivesUpInTime /\ EnvOfPacket
  BY Types DEF Bounds
<1>c. timer.count \in 0 .. TCL_RESEND_MAX_TIMES
  BY <1>0 DEF Timers
<1>1. ASSUME NEW number \in 1 .. MaxNumber, tcl_send_packet(number)
      PROVE  (TimeOutComes /\ GivesUpInTime /\ EnvOfPacket)'
  <2>1. CASE Refused(timer, acks, {})
    BY <1>0, <1>1, <1>c, <2>1 DEF tcl_send_packet, Refused
  <2>2. CASE Taken([data |-> 0, number |-> number, id |-> 0], timer, acks, {})
    BY <1>0, <1>1, <1>c, <2>2 DEF tcl_send_packet, Taken, Refused, Timers
  <2> QED  BY <1>1, <2>1, <2>2 DEF tcl_send_packet
<1>2. CASE RecvErr \/ RecvAck
  <2>1. /\ acks # <<>> /\ sends' = 1 /\ total' = total
        /\ \E e \in Envs : /\ tcl_send_sub_packet(e, Stopped, Tail(acks))
                           /\ e.number = env.number
    <3>1. /\ AckedEnv \in Envs /\ AckedEnv.number = env.number
          /\ [AckedEnv EXCEPT !.data = NextPiece(@)] \in Envs
          /\ [AckedEnv EXCEPT !.data = NextPiece(@)].number = env.number
      BY <1>2, AckedEnvType, NextPieceType DEF RecvErr, RecvAck, Envs
    <3> QED  BY <1>2, <3>1 DEF RecvErr, RecvAck
  <2>2. PICK e \in Envs : /\ tcl_send_sub_packet(e, Stopped, Tail(acks))
                         /\ e.number = env.number
    BY <2>1
  <2>3. Stopped \in Timers /\ Tail(acks) \in Seq(Acks) /\ Len(Tail(acks)) <= MaxAcks
    BY <2>1, Constants, AckedEnvType
  <2>4. \/ /\ m_send_status' = m_send_status /\ env' = e
           /\ timer'.status = "start" /\ timer'.count = 0
        \/ m_send_status' = "failed" /\ env' = NoEnv /\ timer' = Stopped
    BY <2>2, <2>3, SubPacket
  <2> QED  BY <1>0, <2>1, <2>2, <2>4
<1>3. CASE RecvLastAck
  BY <1>0, <1>3 DEF RecvLastAck
<1>4. CASE RecvStrayAck
  BY <1>0, <1>4, AckedEnvType DEF RecvStrayAck
<1>5. CASE RecvInvalid
  BY <1>0, <1>5 DEF RecvInvalid
<1>6. CASE GiveUp
  BY <1>0, <1>6 DEF GiveUp
<1>7. CASE Resend
  <2> DEFINE t == [timer EXCEPT !.count = @ + 1]
  <2>1. t \in Timers /\ t.count = timer.count + 1 /\ t.status = "start"
    BY <1>0, <1>7 DEF Resend, Timers
  <2>2. acks \in Seq(Acks) /\ Len(acks) <= MaxAcks /\ tcl_send_sub_packet(env, t, acks)
    BY <1>7, Types DEF Resend
  <2> HIDE DEF t
  <2>3. \/ /\ m_send_status' = m_send_status /\ env' = env
           /\ timer'.status = "start" /\ timer'.count = t.count
        \/ m_send_status' = "failed" /\ env' = NoEnv /\ timer' = t
    BY <1>0, <2>1, <2>2, SubPacket
  <2>4. /\ sends' = sends + 1 /\ total' = total
        /\ timer.status = "start" /\ timer.count < TCL_RESEND_MAX_TIMES
    BY <1>7 DEF Resend
  <2> QED  BY <1>0, <1>c, <2>1, <2>3, <2>4
<1>8. CASE UNCHANGED vars
  BY <1>0, <1>8 DEF vars
<1> QED  BY <1>1, <1>2, <1>3, <1>4, <1>5, <1>6, <1>7, <1>8
       DEF Next, tcl_process_recv_ack, tcl_timer_time_out

(* What the phone has, while nothing is confused.                             *)
Steady == OwnPieces /\ SuccessMeansReceived /\ (~confused => Straight)

(* A sub-packet is sent in its turn, with what the phone had before it.       *)
LEMMA SentInTurn ==
  ASSUME TypeOK, TypeOK', Reaches(env', <<>>, got), ~confused',
         \A sub \in got : sub.data = sub.id /\ sub.id <= env'.id,
         \A i \in 0 .. env'.id - 1 : Own(i) \in got,
         env'.data = env'.id, env'.id < total', m_send_status' = "sending"
  PROVE  Steady'
<1> DEFINE sub == [id |-> env'.id, data |-> env'.data]
<1>1. /\ env' \in Envs /\ got \in SUBSET Subs /\ <<>> \in Seq(Acks) /\ Len(<<>>) <= MaxAcks
      /\ env'.id \in Nat /\ sub = Own(env'.id)
  BY TransportAssumption DEF TypeOK, Envs, Subs, Own, Ids
<1>2. /\ got' \in {got, got \cup {sub}}
      /\ Len(acks') <= 1
      /\ \/ acks' = <<>> \/ Head(acks').err
         \/ /\ Head(acks').id = env'.id
            /\ sub \in got'
  BY <1>1, Reached
<1>3. sub.id = env'.id /\ sub.data = env'.id
  OBVIOUS
<1> HIDE DEF sub
<1>4. \A s \in got' : s.data = s.id /\ s.id <= env'.id
  BY <1>1, <1>2, <1>3
<1>5. InStep'
  BY <1>1, <1>2, <1>4 DEF InStep, Own
<1> QED  BY <1>2, <1>4, <1>5 DEF Steady, OwnPieces, SuccessMeansReceived, Straight

(* Every step keeps what the phone has in step with what was sent.             *)
LEMMA SteadyStep ==
  TclInv /\ [Next]_vars /\ TypeOK' => Steady'
<1> SUFFICES ASSUME TclInv, [Next]_vars, TypeOK', ~confused' PROVE Steady'
  BY DEF Steady, OwnPieces, SuccessMeansReceived
<1>0. /\ TypeOK /\ OwnPieces /\ SuccessMeansReceived /\ EnvOfPacket /\ (~confused => Straight)
      /\ env \in Envs /\ acks \in Seq(Acks) /\ got \in SUBSET Subs /\ total \in 0 .. MaxNumber
      /\ env.id \in Nat /\ env.number \in 0 .. MaxNumber
  BY Types, Constants DEF TclInv, Envs
<1> USE DEF Steady, OwnPieces, SuccessMeansReceived, Straight
(* Only the acknowledgement of the piece just sent can be under way. *)
<1>a. ASSUME ~confused, acks # <<>>, ~Head(acks).err
      PROVE  /\ Tail(acks) = <<>> /\ AckedEnv.id = Head(acks).id + 1
             /\ m_send_status = "sending" =>
                  Head(acks).id = env.id /\ Own(env.id) \in got /\ InStep
             /\ Head(acks).id < MaxNumber
  <2>1. /\ Head(acks) \in Acks /\ Len(Tail(acks)) = Len(acks) - 1
        /\ Tail(acks) \in Seq(Acks) /\ AckedEnv.id = (Head(acks).id + 1) % IdRange
    BY <1>0, <1>a, AckedEnvType
  <2>2. m_send_status = "sending" =>
          Head(acks).id = env.id /\ Own(env.id) \in got /\ InStep /\ env.id < MaxNumber
    BY <1>0, <1>a, TransportAssumption DEF InStep
  <2>3. Head(acks).id < MaxNumber /\ Head(acks).id \in Nat
    BY <1>0, <1>a, <2>1, <2>2, Constants DEF Acks
  <2>4. (Head(acks).id + 1) % IdRange = Head(acks).id + 1
    BY <2>3, TransportAssumption
  <2>5. Tail(acks) = <<>>
    BY <1>0, <1>a, <2>1
  <2> QED  BY <2>1, <2>2, <2>3, <2>4, <2>5
<1>1. ASSUME NEW number \in 1 .. MaxNumber, tcl_send_packet(number)
      PROVE  Steady'
  <2> DEFINE e == [data |-> 0, number |-> number, id |-> 0]
  <2>1. acks = <<>> /\ total' = number
    BY <1>1 DEF tcl_send_packet
  <2>2. CASE Refused(timer, acks, {})
    BY <2>1, <2>2 DEF Refused
  <2>3. CASE /\ Reaches(e, acks, {})
             /\ IF number = 1 THEN m_send_status' = "success" /\ env' = NoEnv
                              ELSE m_send_status' = "sending" /\ env' = e
    <3>1. /\ e \in Envs /\ {} \in SUBSET Subs /\ acks \in Seq(Acks) /\ Len(acks) <= MaxAcks
      BY <2>1, TransportAssumption, Constants DEF Envs, Data, NULL
    <3>2. e.id = 0 /\ [id |-> e.id, data |-> e.data] = Own(0)
      BY DEF Own
    <3>3. /\ got' \in {{}, {Own(0)}} /\ Len(acks') <= 1
          /\ \/ acks' = <<>> \/ Head(acks').err
             \/ (Head(acks').id = 0 /\ Own(0) \in got')
      <4> HIDE DEF e
      <4>1. /\ got' \in {{}, {} \cup {[id |-> e.id, data |-> e.data]}}
            /\ Len(acks') <= 1
            /\ \/ acks' = <<>> \/ Head(acks').err
               \/ /\ Head(acks').id = e.id
                  /\ [id |-> e.id, data |-> e.data] \in got'
        BY <2>1, <2>3, <3>1, Reached
      <4> QED  BY <3>2, <4>1
    <3>4. \A sub \in got' : sub.id = 0 /\ sub.data = 0
      BY <3>3 DEF Own
    <3>5. CASE number = 1
      BY <2>1, <2>3, <3>3, <3>4, <3>5, TransportAssumption
    <3>6. CASE number # 1
      <4>1. m_send_status' = "sending" /\ env'.id = 0 /\ env'.data = 0
        BY <2>3, <3>6
      <4>2. InStep'
        BY <1>1, <2>1, <3>3, <3>4, <3>6, <4>1 DEF InStep
      <4> QED  BY <3>3, <3>4, <4>1, <4>2
    <3> QED  BY <3>5, <3>6
  <2> QED  BY <1>1, <2>2, <2>3 DEF tcl_send_packet, Taken
<1>2. CASE RecvErr
  BY <1>2 DEF RecvErr
<1>3. CASE RecvAck
  <2>1. /\ ~confused /\ acks # <<>> /\ ~Head(acks).err /\ AckedEnv.id < env.number
        /\ total' = total
    BY <1>3 DEF RecvAck
  <2>2. m_send_status = "sending" /\ env.number = total
    <3>1. Head(acks).id \in Nat
      BY <1>0, <2>1, AckedEnvType, Constants DEF Acks
    <3>2. AckedEnv.id = Head(acks).id + 1
      BY <1>a, <2>1
    <3> QED  BY <1>0, <2>1, <3>1, <3>2 DEF EnvOfPacket
  <2>3. /\ Tail(acks) = <<>> /\ AckedEnv.id = env.id + 1 /\ InStep
        /\ Own(env.id) \in got
    BY <1>a, <2>1, <2>2
  <2> DEFINE e == [AckedEnv EXCEPT !.data = NextPiece(@)]
  <2>4. e \in Envs /\ e.id = env.id + 1 /\ e.data = NextPiece(env.data)
    BY <1>0, <2>1, <2>3, AckedEnvType, NextPieceType DEF Envs
  <2>5. tcl_send_sub_packet(e, Stopped, <<>>)
    BY <1>3, <2>3 DEF RecvAck
  <2>6. e.data = e.id
    BY <1>0, <2>3, <2>4, TransportAssumption DEF InStep, NextPiece
  <2> HIDE DEF e
  <2>7. CASE Refused(Stopped, <<>>, got)
    BY <1>0, <2>1, <2>7 DEF Refused
  <2>8. CASE Reaches(e, <<>>, got) /\ env' = e /\ m_send_status' = m_send_status
    <3>1. \A sub \in got : sub.data = sub.id /\ sub.id <= env'.id
      BY <1>0, <2>1, <2>3, <2>4, <2>8 DEF InStep, Subs, Ids
    <3>2. \A i \in 0 .. env'.id - 1 : Own(i) \in got
      BY <1>0, <2>3, <2>4, <2>8 DEF InStep
    <3>3. env'.data = env'.id /\ env'.id < total' /\ m_send_status' = "sending"
      BY <2>1, <2>2, <2>3, <2>4, <2>6, <2>8
    <3> QED  BY <1>0, <2>8, <3>1, <3>2, <3>3, SentInTurn
  <2> QED  BY <2>5, <2>7, <2>8 DEF tcl_send_sub_packet, Taken
<1>4. CASE RecvLastAck
  <2>1. /\ ~confused /\ acks # <<>> /\ ~Head(acks).err /\ AckedEnv.id = env.number
        /\ total' = total /\ got' = got /\ acks' = Tail(acks) /\ m_send_status' = "success"
    BY <1>4 DEF RecvLastAck
  <2>2. m_send_status = "sending" /\ env.number = total
    <3>1. Head(acks).id \in Nat
      BY <1>0, <2>1, AckedEnvType, Constants DEF Acks
    <3>2. AckedEnv.id = Head(acks).id + 1
      BY <1>a, <2>1
    <3> QED  BY <1>0, <2>1, <3>1, <3>2 DEF EnvOfPacket
  <2>3. env.id + 1 = total /\ InStep /\ Own(env.id) \in got /\ acks' = <<>>
    BY <1>a, <2>1, <2>2
  <2>4. \A i \in 0 .. total - 1 : Own(i) \in got
    BY <1>0, <2>3 DEF InStep
  <2>5. \A sub \in got : sub.id \in 0 .. total - 1 /\ sub = Own(sub.id)
    BY <1>0, <2>1, <2>3 DEF InStep, Subs, Ids, Own
  <2>6. got = {[id |-> i, data |-> i] : i \in 0 .. total - 1}
    BY <2>4, <2>5 DEF Own
  <2> QED  BY <1>0, <2>1, <2>3, <2>6
<1>5. CASE RecvStrayAck
  <2>1. /\ ~confused /\ acks # <<>> /\ ~Head(acks).err /\ AckedEnv.id > env.number
        /\ total' = total /\ got' = got /\ acks' = Tail(acks)
        /\ m_send_status' = m_send_status
    BY <1>5 DEF RecvStrayAck
  <2>2. m_send_status # "sending"
    BY <1>0, <1>a, <2>1 DEF EnvOfPacket, InStep
  <2> QED  BY <1>0, <1>a, <2>1, <2>2
<1>6. CASE RecvInvalid \/ GiveUp
  <2>1. /\ ~confused /\ m_send_status' = "failed" /\ got' = got /\ acks' = acks
    BY <1>6 DEF RecvInvalid, GiveUp
  <2>2. acks = <<>> \/ Head(acks).err \/ Head(acks).id < MaxNumber
    BY <1>0, <2>1, TransportAssumption DEF InStep
  <2> QED  BY <1>0, <2>1, <2>2
<1>7. CASE Resend
  <2> DEFINE t == [timer EXCEPT !.count = @ + 1]
  <2>1. /\ ~confused /\ acks = <<>> /\ m_send_status = "sending" /\ total' = total
        /\ tcl_send_sub_packet(env, t, <<>>)
    BY <1>7 DEF Resend
  <2> HIDE DEF t
  <2>2. InStep
    BY <1>0, <2>1
  <2>3. CASE Refused(t, <<>>, got)
    BY <1>0, <2>1, <2>3 DEF Refused
  <2>4. CASE Reaches(env, <<>>, got) /\ env' = env /\ m_send_status' = m_send_status
    <3>1. \A sub \in got : sub.data = sub.id /\ sub.id <= env'.id
      BY <1>0, <2>1, <2>2, <2>4 DEF InStep
    <3>2. \A i \in 0 .. env'.id - 1 : Own(i) \in got
      BY <2>2, <2>4 DEF InStep
    <3>3. env'.data = env'.id /\ env'.id < total' /\ m_send_status' = "sending"
      BY <2>1, <2>2, <2>4 DEF InStep
    <3> QED  BY <1>0, <2>4, <3>1, <3>2, <3>3, SentInTurn
  <2> QED  BY <2>1, <2>3, <2>4 DEF tcl_send_sub_packet, Taken
<1>8. CASE UNCHANGED vars
  BY <1>0, <1>8 DEF vars, InStep
<1> QED  BY <1>1, <1>2, <1>3, <1>4, <1>5, <1>6, <1>7, <1>8
       DEF Next, tcl_process_recv_ack, tcl_timer_time_out

(* At first nothing is being sent.                                             *)
LEMMA InitInv == Init => TclInv
<1> SUFFICES ASSUME Init PROVE TclInv
  OBVIOUS
<1> USE TransportAssumption DEF Init, NoEnv, Stopped
<1>1. TypeOK
  <2>1. env \in Envs /\ timer \in Timers /\ acks \in Seq(Acks) /\ Len(acks) <= MaxAcks
    BY Constants
  <2>2. m_send_status \in Statuses /\ got \subseteq Subs /\ total \in 0 .. MaxNumber
    BY DEF Statuses
  <2>3. sends \in Nat /\ confused \in BOOLEAN /\ stray \in BOOLEAN
    OBVIOUS
  <2> HIDE DEF Init
  <2> QED  BY <2>1, <2>2, <2>3, Types, Zenon
<1>2. OwnPieces /\ SuccessMeansReceived /\ TimeOutComes /\ GivesUpInTime /\ EnvOfPacket
  BY DEF OwnPieces, SuccessMeansReceived, TimeOutComes, GivesUpInTime, EnvOfPacket
<1>3. Straight
  BY DEF Straight
<1> QED  BY <1>1, <1>2, <1>3 DEF TclInv

(* What the device does and what the phone has agree, in every state: the     *)
(* strengthening the theorems below follow from (transport.c:281-370,         *)
(* 478-505).                                                                  *)
THEOREM TclInvariant == Spec => []TclInv
<1>1. TclInv /\ [Next]_vars => TclInv'
  <2> SUFFICES ASSUME TclInv, [Next]_vars PROVE TclInv'
    OBVIOUS
  <2>1. TypeOK'
    BY TypeStep DEF TclInv
  <2>2. (TimeOutComes /\ GivesUpInTime /\ EnvOfPacket)'
    BY BoundStep DEF TclInv, Bounds
  <2>3. (OwnPieces /\ SuccessMeansReceived /\ (~confused => Straight))'
    BY <2>1, SteadyStep DEF Steady
  <2> QED  BY <2>1, <2>2, <2>3 DEF TclInv
<1> QED  BY InitInv, <1>1, PTL DEF Spec

(* The types (transport.c:60-110).                                            *)
THEOREM TypeCorrect == Spec => []TypeOK
<1>1. TclInv => TypeOK
  BY DEF TclInv
<1> QED  BY <1>1, TclInvariant, PTL

(* The phone gets each piece under its own number (transport.c:332-346, 495). *)
THEOREM PiecesAreOwn == Spec => []OwnPieces
<1>1. TclInv => OwnPieces
  BY DEF TclInv
<1> QED  BY <1>1, TclInvariant, PTL

(* Success is told when the phone has everything (transport.c:346-348).       *)
THEOREM SuccessIsReceived == Spec => []SuccessMeansReceived
<1>1. TclInv => SuccessMeansReceived
  BY DEF TclInv
<1> QED  BY <1>1, TclInvariant, PTL

(* A packet that is sending waits for its timer, unless an acknowledgement    *)
(* named a sub-packet behind it (transport.c:336, 349-351).                   *)
THEOREM TimeOutWillCome == Spec => []TimeOutComes
<1>1. TclInv => TimeOutComes
  BY DEF TclInv
<1> QED  BY <1>1, TclInvariant, PTL

(* The resends are bounded (transport.c:483-484, 490).                        *)
THEOREM ResendsBounded == Spec => []GivesUpInTime
<1>1. TclInv => GivesUpInTime
  BY DEF TclInv
<1> QED  BY <1>1, TclInvariant, PTL

-----------------------------------------------------------------------------

(* The receiving half, and the layer.                                        *)

(* A row of the buffer is the room for one sub-packet. *)
Row(id) == {at \in Positions : at[1] = id}

(* The buffer is finite,                                                       *)
LEMMA PositionsFinite == IsFiniteSet(Positions)
<1>1. TCL_SUB_PACKETS \in Nat /\ BLE_UART_PAYLOAD_MTU \in Nat
  BY ReceiverAssumption
<1>2. IsFiniteSet(1 .. TCL_SUB_PACKETS) /\ IsFiniteSet(1 .. BLE_UART_PAYLOAD_MTU)
  BY <1>1, FS_Interval
<1>3. IsFiniteSet((1 .. TCL_SUB_PACKETS) \X (1 .. BLE_UART_PAYLOAD_MTU))
  BY <1>2, FS_Product
<1> QED
  BY <1>3 DEF Positions

(* and so is the room for one sub-packet.                                      *)
LEMMA RowSize ==
  ASSUME NEW id \in 1 .. TCL_SUB_PACKETS
  PROVE  IsFiniteSet(Row(id)) /\ Cardinality(Row(id)) = BLE_UART_PAYLOAD_MTU
<1>1. Row(id) = {id} \X (1 .. BLE_UART_PAYLOAD_MTU)
  BY DEF Row, Positions
<1>2. IsFiniteSet({id}) /\ Cardinality({id}) = 1
  BY FS_Singleton
<1>3. /\ IsFiniteSet(1 .. BLE_UART_PAYLOAD_MTU)
      /\ Cardinality(1 .. BLE_UART_PAYLOAD_MTU) = BLE_UART_PAYLOAD_MTU
  BY FS_Interval, ReceiverAssumption
<1>4. /\ IsFiniteSet({id} \X (1 .. BLE_UART_PAYLOAD_MTU))
      /\ Cardinality({id} \X (1 .. BLE_UART_PAYLOAD_MTU)) = 1 * BLE_UART_PAYLOAD_MTU
  BY <1>2, <1>3, FS_Product
<1> QED
  BY <1>1, <1>4, ReceiverAssumption

(* The packets' lengths, as the assumption states them. *)
LEMMA PacketType ==
  ASSUME NEW p \in Packets
  PROVE  /\ Len(p) \in 1 .. TCL_SUB_PACKETS
         /\ \A id \in 1 .. Len(p) :
              /\ p[id] \in Seq(Nat) /\ Len(p[id]) \in 1 .. BLE_UART_PAYLOAD_MTU
              /\ id # Len(p) => Len(p[id]) = BLE_UART_PAYLOAD_MTU
BY ReceiverAssumption DEF Last

(* A byte of a packet is a number.                                             *)
LEMMA ByteType ==
  ASSUME NEW p \in Packets, NEW at \in Positions
  PROVE  Byte(p, at) \in Nat
BY PacketType DEF Byte, Places, Positions

(* What a sub-packet is part of.                                               *)
LEMMA SubPacketType ==
  ASSUME NEW sub \in SubPackets
  PROVE  /\ sub.packet \in Packets /\ sub.id \in 1 .. Len(sub.packet)
         /\ sub.filled_up \in BOOLEAN /\ PlacesOf(sub) \subseteq Positions
BY DEF SubPackets, PlacesOf

(* Sub-packets of one packet fill as many places as it has bytes only if they *)
(* fill exactly its places: a row missing is more than the zeros behind the   *)
(* end of a last one that was filled up can make up for.                      *)
LEMMA WholeMeansAll ==
  ASSUME NEW p \in Packets, NEW H \in SUBSET SubPackets, \A sub \in H : sub.packet = p,
         NEW F, F = UNION {PlacesOf(sub) : sub \in H},
         Cardinality(F) = payload_length(p)
  PROVE  F = Places(p)
<1> DEFINE A == F \cap Places(p)
           B == F \ Places(p)
<1>1. F \subseteq Positions /\ Places(p) \subseteq Positions
  BY SubPacketType DEF Places
<1>2. IsFiniteSet(F) /\ IsFiniteSet(Places(p)) /\ IsFiniteSet(A) /\ IsFiniteSet(B)
  BY <1>1, PositionsFinite, FS_Subset
<1>3. CASE B = {}
  <2>1. F \in SUBSET Places(p)
    BY <1>3
  <2> QED
    BY <2>1, <1>2, FS_Subset DEF payload_length
<1>4. CASE B # {}
  <2>1. PICK x \in B : TRUE
    BY <1>4
  <2>2. PICK f \in H : x \in PlacesOf(f)
    BY <2>1
  <2>3. f \in SubPackets /\ f.packet = p /\ f.filled_up /\ x[1] = f.id /\ x \in Positions
    BY <2>1, <2>2, SubPacketType DEF PlacesOf
  <2>4. f.id = Len(p)
    BY <2>1, <2>3, SubPacketType, PacketType DEF Places, Positions
  <2>5. Row(Len(p)) \subseteq F
    BY <2>2, <2>3, <2>4 DEF Row, PlacesOf
  <2>6. \A y \in B : y[1] = Len(p)
    <3> SUFFICES ASSUME NEW y \in B PROVE y[1] = Len(p)
      OBVIOUS
    <3>1. PICK g \in H : y \in PlacesOf(g)
      OBVIOUS
    <3>2. g \in SubPackets /\ g.packet = p /\ y[1] = g.id /\ y \in Positions
      BY <3>1, SubPacketType DEF PlacesOf
    <3> QED
      BY <3>2, SubPacketType, PacketType DEF Places, Positions
  <2>7. Len(p) \in 1 .. TCL_SUB_PACKETS /\ <<Len(p), 1>> \in Row(Len(p)) \cap Places(p)
    BY PacketType, ReceiverAssumption DEF Row, Places, Positions
  <2>8. Cardinality(B) < BLE_UART_PAYLOAD_MTU
    <3>1. B \in SUBSET (Row(Len(p)) \ {<<Len(p), 1>>})
      BY <1>1, <2>6, <2>7 DEF Row
    <3>2. /\ IsFiniteSet(Row(Len(p)) \ {<<Len(p), 1>>})
          /\ Cardinality(Row(Len(p)) \ {<<Len(p), 1>>}) = BLE_UART_PAYLOAD_MTU - 1
      <4>1. /\ IsFiniteSet(Row(Len(p)))
            /\ Cardinality(Row(Len(p))) = BLE_UART_PAYLOAD_MTU
        BY <2>7, RowSize
      <4>2. <<Len(p), 1>> \in Row(Len(p))
        BY <2>7
      <4> DEFINE R == Row(Len(p))
                 first == <<Len(p), 1>>
      <4> HIDE DEF R, first
      <4>3. /\ IsFiniteSet(R \ {first})
            /\ Cardinality(R \ {first}) = IF first \in R THEN Cardinality(R) - 1
                                                         ELSE Cardinality(R)
        BY <4>1, FS_RemoveElement DEF R
      <4> QED
        BY <4>1, <4>2, <4>3 DEF R, first
    <3>3. Cardinality(B) <= BLE_UART_PAYLOAD_MTU - 1
      BY <3>1, <3>2, FS_Subset
    <3> QED
      BY <3>3, <1>2, FS_CardinalityType, ReceiverAssumption
  <2>9. CASE Places(p) \subseteq F
    BY <2>1, <2>9, <1>2, FS_Subset DEF payload_length
  <2>10. CASE ~(Places(p) \subseteq F)
    <3>1. PICK y \in Places(p) : y \notin F
      BY <2>10
    <3>2. y \in Positions /\ y[1] \in 1 .. Len(p) /\ y[1] # Len(p)
      BY <3>1, <2>5, <1>1 DEF Row, Places, Positions
    <3>3. \A g \in H : g.id # y[1]
      BY <3>1, <3>2 DEF PlacesOf
    <3>4. Row(y[1]) \cap F = {}
      BY <3>3 DEF Row, PlacesOf
    <3>5. Row(y[1]) \subseteq Places(p)
      BY <3>2, PacketType DEF Row, Places, Positions
    <3>6. IsFiniteSet(Row(y[1])) /\ Cardinality(Row(y[1])) = BLE_UART_PAYLOAD_MTU
      <4>1. y[1] \in 1 .. TCL_SUB_PACKETS
        BY <3>2, <2>7, ReceiverAssumption
      <4> QED
        BY <4>1, RowSize
    <3>7. Cardinality(A \cup Row(y[1])) = Cardinality(A) + BLE_UART_PAYLOAD_MTU
      <4>1. A \cap Row(y[1]) = {}
        BY <3>4
      <4>2. Cardinality(A \cup Row(y[1]))
              = Cardinality(A) + Cardinality(Row(y[1])) - Cardinality(A \cap Row(y[1]))
        BY <3>6, <1>2, FS_Union
      <4>3. Cardinality(A \cap Row(y[1])) = 0 /\ Cardinality(A) \in Nat
        BY <4>1, <1>2, FS_EmptySet, FS_CardinalityType
      <4> HIDE DEF A
      <4> QED
        BY <4>2, <4>3, <3>6, ReceiverAssumption
    <3>8. Cardinality(A \cup Row(y[1])) <= Cardinality(Places(p))
      <4>1. A \cup Row(y[1]) \in SUBSET Places(p)
        BY <3>5
      <4> QED
        BY <4>1, <1>2, FS_Subset
    <3>9. Cardinality(F) = Cardinality(A) + Cardinality(B)
      <4>1. F = A \cup B /\ A \cap B = {}
        OBVIOUS
      <4>2. Cardinality(A \cup B) = Cardinality(A) + Cardinality(B) - Cardinality(A \cap B)
        BY <1>2, FS_Union
      <4>3. /\ Cardinality(A \cap B) = 0
            /\ Cardinality(A) \in Nat /\ Cardinality(B) \in Nat
        BY <4>1, <1>2, FS_EmptySet, FS_CardinalityType
      <4>4. Cardinality(F) = Cardinality(A \cup B)
        BY <4>1
      <4> HIDE DEF A, B
      <4> QED
        BY <4>2, <4>3, <4>4
    <3> QED
      BY <3>7, <3>8, <3>9, <2>8, <1>2, FS_CardinalityType, ReceiverAssumption
         DEF payload_length
  <2> QED
    BY <2>9, <2>10
<1> QED
  BY <1>3, <1>4

-----------------------------------------------------------------------------

HeardWith(sub) == heard \cup {sub}
FilledWith(sub) == UNION {PlacesOf(other) : other \in HeardWith(sub)}

(* What a sub-packet does to an unmixed reception. *)
LEMMA OneMore ==
  ASSUME RecvInv, NEW sub \in SubPackets, ~MixedWith(sub)
  PROVE  /\ HeardWith(sub) \in SUBSET SubPackets
         /\ \A other \in HeardWith(sub) : other.packet = sub.packet
         /\ Counted(sub) = Cardinality(FilledWith(sub))
         /\ \A at \in FilledWith(sub) : Download(sub)[at] = Byte(sub.packet, at)
         /\ \A at \in Positions \ FilledWith(sub) : Download(sub)[at] = 0
<1> DEFINE F == FilledWith(sub)
<1> USE DEF RecvInv, ReceiverTypeOK
<1>1. OnePacket /\ \A other \in heard : other.packet = sub.packet
  BY DEF MixedWith
<1>2. F = Filled \cup PlacesOf(sub)
  BY DEF Filled, FilledWith, HeardWith
<1> HIDE DEF F
<1>3. Filled \subseteq Positions /\ PlacesOf(sub) \subseteq Positions
  BY SubPacketType DEF Filled
<1>4. \A at \in Filled : payload[at] = Byte(sub.packet, at)
  BY <1>1 DEF Filled, OnePacket
<1>5. Fresh(sub) = PlacesOf(sub) \ Filled
  <2>1. \A at \in PlacesOf(sub) \cap Filled : Byte(sub.packet, at) # 0
    BY DEF MixedWith, Filled
  <2>2. \A at \in Positions \ Filled : payload[at] = 0
    BY <1>1 DEF OnePacket
  <2> QED
    BY <2>1, <2>2, <1>3, <1>4 DEF Fresh
<1>6. Counted(sub) = Cardinality(F)
  <2>1. IsFiniteSet(Filled) /\ IsFiniteSet(Fresh(sub))
    BY <1>3, <1>5, PositionsFinite, FS_Subset
  <2>2. F = Filled \cup Fresh(sub) /\ Filled \cap Fresh(sub) = {}
    BY <1>2, <1>5
  <2>3. Cardinality(Filled \cup Fresh(sub))
          = Cardinality(Filled) + Cardinality(Fresh(sub)) - Cardinality(Filled \cap Fresh(sub))
    BY <2>1, FS_Union
  <2>4. Cardinality(Filled \cap Fresh(sub)) = 0
    BY <2>2, FS_EmptySet
  <2>5. Cardinality(Filled) \in Nat /\ Cardinality(Fresh(sub)) \in Nat
    BY <2>1, FS_CardinalityType
  <2>6. count = Cardinality(Filled)
    BY <1>1 DEF OnePacket
  <2>7. Cardinality(F) = Cardinality(Filled \cup Fresh(sub))
    BY <2>2
  <2> QED
    BY <2>3, <2>4, <2>5, <2>6, <2>7 DEF Counted
<1>7. \A at \in F : Download(sub)[at] = Byte(sub.packet, at)
  BY <1>2, <1>3, <1>4, <1>5 DEF Download
<1>8. \A at \in Positions \ F : Download(sub)[at] = 0
  BY <1>1, <1>2, <1>3, <1>5 DEF Download, OnePacket
<1> QED
  BY <1>1, <1>6, <1>7, <1>8 DEF F, HeardWith

(* A sub-packet leaves numbers in the buffer and a number as the count.        *)
LEMMA DownloadType ==
  ASSUME ReceiverTypeOK, NEW sub \in SubPackets
  PROVE  Download(sub) \in [Positions -> Nat] /\ Counted(sub) \in Nat
<1>1. Fresh(sub) \subseteq Positions
  BY SubPacketType DEF Fresh
<1>2. Cardinality(Fresh(sub)) \in Nat
  BY <1>1, PositionsFinite, FS_Subset, FS_CardinalityType
<1>3. Counted(sub) \in Nat
  BY <1>2 DEF Counted, ReceiverTypeOK
<1>4. Download(sub) \in [Positions -> Nat]
  BY SubPacketType, ByteType DEF Download, ReceiverTypeOK
<1> QED
  BY <1>3, <1>4

(* An emptied buffer holds one packet's bytes: none.                           *)
LEMMA InitEnv ==
  ASSUME tcl_init_recv_env
  PROVE  /\ payload' \in [Positions -> Nat] /\ count' \in Nat
         /\ heard' \subseteq SubPackets /\ mixed' \in BOOLEAN
         /\ OnePacket'
<1>1. Filled' = {}
  BY DEF tcl_init_recv_env, Filled
<1>2. Cardinality({}) = 0
  BY FS_EmptySet
<1> QED
  BY <1>1, <1>2 DEF tcl_init_recv_env, OnePacket

(* Nothing reported is nothing wrong.                                          *)
LEMMA NothingReported == reported' = Nothing => ReportedIsSent'
BY DEF ReportedIsSent

(* At first the buffer is empty.                                               *)
LEMMA RecvInvInit == ReceiverInit => RecvInv
<1> SUFFICES ASSUME ReceiverInit PROVE RecvInv
  OBVIOUS
<1>1. Filled = {} /\ Cardinality({}) = 0
  BY FS_EmptySet DEF ReceiverInit, Filled
<1>2. OnePacket
  BY <1>1 DEF ReceiverInit, OnePacket
<1>3. NotWaiting \in [status : {"stop", "start"}, count : 0 .. TCL_RECV_WAIT_MAX_TIMES]
  BY ReceiverAssumption DEF NotWaiting
<1>4. ReceiverTypeOK
  BY <1>3 DEF ReceiverInit, ReceiverTypeOK
<1>5. ReportedIsSent
  BY DEF ReceiverInit, ReportedIsSent
<1> QED
  BY <1>2, <1>4, <1>5 DEF RecvInv

(* Every step keeps the inductive invariant of the receiver.                   *)
LEMMA RecvInvStep == RecvInv /\ [ReceiverNext]_receiver => RecvInv'
<1> SUFFICES ASSUME RecvInv, [ReceiverNext]_receiver PROVE RecvInv'
  OBVIOUS
<1> DEFINE kept == UNCHANGED <<payload, count, heard, mixed>>
<1>0. ReceiverTypeOK
  BY DEF RecvInv
<1>1. ASSUME kept PROVE Filled' = Filled /\ (OnePacket => OnePacket')
  BY <1>1 DEF Filled, OnePacket
<1>2. CASE UNCHANGED receiver
  BY <1>1, <1>2 DEF receiver, RecvInv, ReceiverTypeOK, ReportedIsSent
<1>3. CASE Quiet
  BY <1>0, <1>1, <1>3, NothingReported DEF Quiet, RecvInv, ReceiverTypeOK
<1>4. CASE RecvTimeOut
  <2>1. CASE WaitOn
    <3>1. waiting' \in [status : {"stop", "start"}, count : 0 .. TCL_RECV_WAIT_MAX_TIMES]
      BY <1>0, <2>1, ReceiverAssumption DEF WaitOn, ReceiverTypeOK
    <3> QED
      BY <1>0, <1>1, <1>4, <2>1, <3>1, NothingReported
         DEF WaitOn, RecvTimeOut, RecvInv, ReceiverTypeOK
  <2>2. CASE WaitedTooLong
    <3>1. waiting' \in [status : {"stop", "start"}, count : 0 .. TCL_RECV_WAIT_MAX_TIMES]
      BY <2>2, ReceiverAssumption DEF WaitedTooLong, NotWaiting
    <3> QED
      BY <1>4, <2>2, <3>1, InitEnv, NothingReported
         DEF WaitedTooLong, RecvTimeOut, RecvInv, ReceiverTypeOK
  <2> QED
    BY <1>4, <2>1, <2>2 DEF RecvTimeOut
<1>5. ASSUME NEW sub \in SubPackets, tcl_process_recv_packet(sub) PROVE RecvInv'
  <2>1. CASE RecvTooMany(sub)
    BY <1>0, <2>1, InitEnv, NothingReported DEF RecvTooMany, RecvInv, ReceiverTypeOK
  <2>2. CASE RecvWhole(sub)
    <3>1. waiting' \in [status : {"stop", "start"}, count : 0 .. TCL_RECV_WAIT_MAX_TIMES]
      BY <2>2, ReceiverAssumption DEF RecvWhole, NotWaiting
    <3>2. ASSUME ~MixedWith(sub)
          PROVE  \A at \in Places(sub.packet) : Download(sub)[at] = Byte(sub.packet, at)
      <4>1. Cardinality(FilledWith(sub)) = payload_length(sub.packet)
        BY <2>2, <3>2, OneMore DEF RecvWhole
      <4>2. FilledWith(sub) = Places(sub.packet)
        BY <3>2, <4>1, OneMore, SubPacketType, WholeMeansAll DEF FilledWith
      <4> QED
        BY <3>2, <4>2, OneMore
    <3>3. ReportedIsSent'
      BY <2>2, <3>2 DEF RecvWhole, ReportedIsSent
    <3> QED
      BY <2>2, <3>1, <3>3, InitEnv DEF RecvWhole, RecvInv, ReceiverTypeOK
  <2>3. CASE RecvPart(sub)
    <3>1. ReceiverTypeOK'
      <4>1. mixed' \in BOOLEAN
        BY <1>0, <2>3 DEF RecvPart, MixedWith, ReceiverTypeOK
      <4>2. waiting' \in [status : {"stop", "start"}, count : 0 .. TCL_RECV_WAIT_MAX_TIMES]
        BY <1>0, <2>3 DEF RecvPart, ReceiverTypeOK
      <4> QED
        BY <1>0, <2>3, <4>1, <4>2, DownloadType DEF RecvPart, ReceiverTypeOK
    <3>2. ASSUME ~mixed' PROVE OnePacket'
      <4>1. /\ heard' = HeardWith(sub) /\ Filled' = FilledWith(sub)
            /\ payload' = Download(sub) /\ count' = Counted(sub)
        BY <2>3 DEF RecvPart, Filled, HeardWith, FilledWith
      <4>2. ~MixedWith(sub) /\ Counted(sub) < payload_length(sub.packet)
        BY <2>3, <3>2 DEF RecvPart
      <4> QED
        BY <4>1, <4>2, OneMore DEF OnePacket
    <3> QED
      BY <2>3, <3>1, <3>2, NothingReported DEF RecvPart, RecvInv
  <2> QED
    BY <1>5, <2>1, <2>2, <2>3 DEF tcl_process_recv_packet
<1> QED
  BY <1>2, <1>3, <1>4, <1>5 DEF ReceiverNext

(* The inductive invariant: the buffer and the count of a reception that is   *)
(* not mixed up are those of the sub-packets that came (transport.c:379-421). *)
THEOREM ReceiverInvariant == ReceiverSpec => []RecvInv
<1> QED
  BY RecvInvInit, RecvInvStep, PTL DEF ReceiverSpec

(* What is given to the application layer is a packet that the phone sent,    *)
(* unless sub-packets were mixed up or zeros sent twice.                      *)
THEOREM ReportedWasSent == ReceiverSpec => []ReportedIsSent
<1>1. RecvInv => ReportedIsSent
  BY DEF RecvInv
<1> QED
  BY <1>1, ReceiverInvariant, PTL

(* A sub-packet completes its packet, and nothing else has come, exactly when *)
(* as many bytes are counted as the packet has.                               *)
LEMMA CountTellsWhole ==
  ASSUME RecvInv, NEW sub \in SubPackets, ~MixedWith(sub)
  PROVE  Filled \cup PlacesOf(sub) = Places(sub.packet)
           <=> Counted(sub) = payload_length(sub.packet)
<1>1. FilledWith(sub) = Filled \cup PlacesOf(sub)
  BY DEF FilledWith, HeardWith, Filled
<1>2. Counted(sub) = Cardinality(FilledWith(sub))
  BY OneMore
<1>3. ASSUME Counted(sub) = payload_length(sub.packet)
      PROVE  FilledWith(sub) = Places(sub.packet)
  BY <1>2, <1>3, OneMore, SubPacketType, WholeMeansAll DEF FilledWith
<1> QED
  BY <1>1, <1>2, <1>3 DEF payload_length

(* It is given to the application layer then, and in no other case.           *)
LEMMA CompletionReports ==
  ASSUME RecvInv, NEW sub \in SubPackets, tcl_process_recv_packet(sub), ~MixedWith(sub)
  PROVE  IF Filled \cup PlacesOf(sub) = Places(sub.packet)
           THEN reported'.of = sub.packet
           ELSE reported' = Nothing
<1>1. Places(sub.packet) \subseteq Positions /\ sub.packet \in Packets
  BY SubPacketType DEF Places
<1>2. payload_length(sub.packet) \in Nat /\ Counted(sub) \in Nat
  BY <1>1, PositionsFinite, FS_Subset, FS_CardinalityType, DownloadType
     DEF payload_length, RecvInv
<1>3. CASE Counted(sub) = payload_length(sub.packet)
  BY <1>2, <1>3, CountTellsWhole
     DEF tcl_process_recv_packet, RecvTooMany, RecvWhole, RecvPart
<1>4. CASE Counted(sub) # payload_length(sub.packet)
  BY <1>2, <1>4, CountTellsWhole
     DEF tcl_process_recv_packet, RecvTooMany, RecvWhole, RecvPart
<1> QED
  BY <1>3, <1>4

(* A packet is given to the application layer by the sub-packet that completes *)
(* it, and one that was filled up with zeros never (transport.c:382-384,       *)
(* 406-415).                                                                   *)
THEOREM CompleteIsReported == ReceiverSpec => WholeIsReported
<1>1. ASSUME RecvInv
      PROVE  [\A sub \in SubPackets :
                tcl_process_recv_packet(sub) /\ ~MixedWith(sub) =>
                  IF Filled \cup PlacesOf(sub) = Places(sub.packet)
                    THEN reported'.of = sub.packet
                    ELSE reported' = Nothing]_receiver
  BY <1>1, CompletionReports
<1> QED
  BY <1>1, ReceiverInvariant, PTL DEF ReceiverSpec, WholeIsReported

-----------------------------------------------------------------------------

(* The two halves, which share the timer and tcl_recv_packet, do not disturb  *)
(* each other: each does only its own steps (transport.c:459-504).            *)
THEOREM HalvesAreIndependent == LayerSpec => Spec /\ ReceiverSpec
<1>1. LayerInit => Init /\ ReceiverInit
  BY DEF LayerInit
<1>2. [LayerNext]_layer => [Next]_vars /\ [ReceiverNext]_receiver
  <2> SUFFICES ASSUME [LayerNext]_layer PROVE [Next]_vars /\ [ReceiverNext]_receiver
    OBVIOUS
  <2>1. CASE Send
    BY <2>1 DEF Send, Next, ReceiverNext
  <2>2. CASE RecvAckOrInvalid
    BY <2>2 DEF RecvAckOrInvalid, Next, ReceiverNext
  <2>3. CASE RecvData
    BY <2>3 DEF RecvData, ReceiverNext
  <2>4. CASE TimerInterrupt
    BY <2>4 DEF TimerInterrupt, Next, ReceiverNext
  <2>5. CASE UNCHANGED layer
    BY <2>5 DEF layer
  <2> QED
    BY <2>1, <2>2, <2>3, <2>4, <2>5 DEF LayerNext
<1> QED
  BY <1>1, <1>2, PTL DEF LayerSpec, Spec, ReceiverSpec

(* So the invariants of both hold of the whole layer. *)
THEOREM LayerInvariant == LayerSpec => [](TclInv /\ RecvInv)
<1> QED
  BY HalvesAreIndependent, TclInvariant, ReceiverInvariant, PTL
=============================================================================
