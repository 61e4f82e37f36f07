------------------------- MODULE HybridCredit_proofs -------------------------
(***************************************************************************)
(* Proofs about the credit loop, for any number of senders and messages    *)
(* and any sizes and budgets: it keeps its types, conserves payload and    *)
(* credit, deletes no state early, stays within its budget when every      *)
(* message is scheduled, grants what data packets cost when unsolicited    *)
(* messages fit one, and delivers every packet once whatever the credit    *)
(* does.  None of these is inductive: that a data packet that is sent, or  *)
(* a grant, is not in flight already takes the order of the seqs; that the *)
(* receiver charges self-allocated credit once takes that it never forgets *)
(* a message that still has data on the way, which takes the conservation  *)
(* of payload.                                                             *)
(***************************************************************************)
EXTENDS HybridCredit, Totals_proofs

-----------------------------------------------------------------------------
(* Types *)

(* Changing one entry keeps the type of a function. *)
LEMMA ExceptType ==
  ASSUME NEW S, NEW T, NEW f \in [S -> T], NEW x \in S, NEW v \in T
  PROVE  [f EXCEPT ![x] = v] \in [S -> T]
  OBVIOUS

(* Packet sizes are natural numbers. *)
LEMMA MaxFrameType == MaxFrame \in Nat /\ MaxFrame > 0
  BY FramesAssumption DEF MaxFrame

LEMMA WireType ==
  ASSUME NEW n \in Nat
  PROVE  Wire(n) \in Nat /\ Wire(n) > 0
  BY FramesAssumption, MaxFrameType DEF Wire, Larger

LEMMA NextPayloadType ==
  ASSUME NEW n \in Nat
  PROVE  NextPayload(n) \in Nat /\ NextPayload(n) <= n
  BY FramesAssumption DEF NextPayload, Smaller

LEMMA DivType ==
  ASSUME NEW n \in Nat, NEW k \in Nat, k > 0
  PROVE  n \div k \in Nat /\ n % k \in Nat
  OBVIOUS

LEMMA TimesType ==
  ASSUME NEW n \in Nat, NEW k \in Nat
  PROVE  n * k \in Nat
  OBVIOUS

LEMMA AddHeaderOverheadType ==
  ASSUME NEW n \in Nat
  PROVE  AddHeaderOverhead(n) \in Nat
<1>1. n \div MaxPayload \in Nat /\ n % MaxPayload \in Nat
  BY DivType, FramesAssumption
<1>2. (n \div MaxPayload) * MaxFrame \in Nat
  BY <1>1, TimesType, MaxFrameType
<1> QED
  BY <1>1, <1>2, WireType DEF AddHeaderOverhead

LEMMA RemoveHeaderOverheadType ==
  ASSUME NEW n \in Nat
  PROVE  RemoveHeaderOverhead(n) \in Nat
<1>1. n \div MaxFrame \in Nat
  BY DivType, MaxFrameType
<1> QED
  BY <1>1, TimesType, FramesAssumption DEF RemoveHeaderOverhead

LEMMA SelfCreditType ==
  ASSUME NEW m \in Msgs, NEW a \in Nat
  PROVE  SelfCredit(Size[m], a) \in Nat /\ SelfCreditData(Size[m], a) \in Nat
<1> DEFINE want == Wanted(Size[m])
           room == Larger(MaxSrpb - a, MaxFrame)
<1>1. Size[m] \in Nat /\ MaxSrpb \in Nat
  BY SetsAssumption, FramesAssumption
<1>2. want \in Nat
  BY <1>1, RemoveHeaderOverheadType DEF Wanted
<1>3. room \in Nat
  BY <1>1, MaxFrameType DEF Larger
<1>4. RemoveHeaderOverhead(room) \in Nat
  BY <1>3, RemoveHeaderOverheadType
<1>5. SelfCreditData(Size[m], a) \in Nat
  BY <1>2, <1>4 DEF SelfCreditData
<1>6. AddHeaderOverhead(SelfCreditData(Size[m], a)) \in Nat
  BY <1>5, AddHeaderOverheadType
<1>7. MinFrame \in Nat
  BY FramesAssumption, MaxFrameType
<1> QED
  BY <1>5, <1>6, <1>7 DEF SelfCredit, Larger
-----------------------------------------------------------------------------
(* Type correctness *)

LEMMA SizeType == \A m \in Msgs : Size[m] \in Nat /\ Size[m] > 0 /\ Src[m] \in Senders
  BY SetsAssumption

LEMMA InitTypeOK == Init => TypeOK
<1> SUFFICES ASSUME Init PROVE TypeOK
  OBVIOUS
<1>1. inactive \in [Senders -> Seq(Msgs)]
  BY DEF Init
<1>2. net \subseteq Packet /\ IsFiniteSet(net)
  BY FS_EmptySet DEF Init
<1>3. unsent \in [Msgs -> Nat] /\ \A m \in Msgs : unsent[m] <= Size[m]
  BY SetsAssumption DEF Init
<1>4. window \in [Senders -> Windows] /\ srpb \in [Senders -> Int] /\ budget \in Int
  BY BytesAssumption, FramesAssumption DEF Init
<1> QED
  BY <1>1, <1>2, <1>3, <1>4 DEF Init, TypeOK

LEMMA SubmitTypeOK ==
  ASSUME TypeOK, NEW m \in Msgs, Submit(m)
  PROVE  TypeOK'
<1>1. inactive' \in [Senders -> Seq(Msgs)]
  BY SizeType DEF Submit, PrepMsgSend, TypeOK
<1> QED
  BY <1>1 DEF Submit, TypeOK, receiverVars, inboundVars

LEMMA ActivateTypeOK ==
  ASSUME TypeOK, NEW s \in Senders, Activate(s)
  PROVE  TypeOK'
<1> DEFINE m == Head(inactive[s])
<1>1. m \in Msgs /\ Tail(inactive[s]) \in Seq(Msgs)
  BY DEF Activate, TypeOK
<1>2. SelfCredit(Size[m], avail[s]) \in Nat /\ SelfCreditData(Size[m], avail[s]) \in Nat
  BY <1>1, SelfCreditType DEF TypeOK
<1>3. inactive' \in [Senders -> Seq(Msgs)] /\ active' \in [Senders -> SUBSET Msgs]
  BY <1>1 DEF Activate, TypeOK
<1>4. GrantReqPkt(m) \in Packet
  BY <1>1 DEF GrantReqPkt, Packet
<1>5. CASE Unsolicited(m)
  <2>1. /\ selfAlloc' \in [Msgs -> Nat] /\ selfAllocData' \in [Msgs -> Nat]
        /\ avail' \in [Senders -> Nat] /\ scheduled' \subseteq Msgs
        /\ UNCHANGED <<announced, net>>
    <3>0. avail[s] \in Nat
      BY DEF TypeOK
    <3>1. avail[s] + SelfCredit(Size[m], avail[s]) \in Nat
      BY <1>2, <3>0
    <3>2. avail' = [avail EXCEPT ![s] = avail[s] + SelfCredit(Size[m], avail[s])]
      BY <1>5 DEF Activate
    <3>3. avail' \in [Senders -> Nat]
      BY <3>1, <3>2, ExceptType DEF TypeOK
    <3>4. /\ selfAlloc' = [selfAlloc EXCEPT ![m] = SelfCredit(Size[m], avail[s])]
          /\ selfAllocData' = [selfAllocData EXCEPT ![m] = SelfCreditData(Size[m], avail[s])]
          /\ scheduled' = scheduled \ {m}
          /\ UNCHANGED <<announced, net>>
      BY <1>5 DEF Activate
    <3>5. selfAlloc' \in [Msgs -> Nat] /\ selfAllocData' \in [Msgs -> Nat]
      BY <1>1, <1>2, <3>4, ExceptType DEF TypeOK
    <3> QED
      BY <3>3, <3>4, <3>5 DEF TypeOK
  <2> QED
    BY <1>3, <2>1 DEF Activate, TypeOK, receiverVars, inboundVars
<1>6. CASE ~Unsolicited(m)
  <2>1. /\ net' \subseteq Packet /\ IsFiniteSet(net') /\ announced' \subseteq Msgs
        /\ UNCHANGED <<selfAlloc, selfAllocData, avail, scheduled>>
    <3>1. /\ net' = net \cup {GrantReqPkt(m)} /\ announced' = announced \cup {m}
          /\ UNCHANGED <<selfAlloc, selfAllocData, avail, scheduled>>
      BY <1>6 DEF Activate
    <3>2. IsFiniteSet(net')
      BY <3>1, FS_AddElement DEF TypeOK
    <3> QED
      BY <1>1, <1>4, <3>1, <3>2 DEF TypeOK
  <2> QED
    BY <1>3, <2>1 DEF Activate, TypeOK, receiverVars, inboundVars
<1> QED
  BY <1>5, <1>6

\* The message SendPacket picks is active and the pool can pay for its packet.
LEMMA ChoiceFits ==
  ASSUME TypeOK, NEW s \in Senders, NEW m \in Choice(s)
  PROVE  m \in active[s] /\ m \in Msgs /\ avail[s] >= Wire(NextPayload(unsent[m]))
  BY DEF Choice, TypeOK

LEMMA DataPktType ==
  ASSUME TypeOK, NEW m \in Msgs, NEW n \in Nat
  PROVE  DataPkt(m, n) \in Packet
<1>1. Size[m] - unsent[m] + n \in Nat
  BY SizeType DEF TypeOK
<1> QED
  BY <1>1 DEF DataPkt, Packet, TypeOK

LEMMA SendPacketTypeOK ==
  ASSUME TypeOK, NEW s \in Senders, SendPacket(s)
  PROVE  TypeOK'
<1> PICK m \in Choice(s) :
      LET payload == NextPayload(unsent[m]) IN
      /\ net' = net \cup {DataPkt(m, payload)}
      /\ unsent' = [unsent EXCEPT ![m] = @ - payload]
      /\ avail' = [avail EXCEPT ![s] = @ - Wire(payload)]
      /\ announced' = announced \cup {m}
      /\ active' = [active EXCEPT ![s] = IF unsent[m] = payload THEN @ \ {m} ELSE @]
  BY DEF SendPacket
<1> DEFINE payload == NextPayload(unsent[m])
<1>1. m \in Msgs /\ avail[s] >= Wire(payload)
  BY ChoiceFits
<1>2. payload \in Nat /\ payload <= unsent[m] /\ unsent[m] \in Nat
  BY <1>1, NextPayloadType DEF TypeOK
<1>3. Wire(payload) \in Nat
  BY <1>2, WireType
<1>4. unsent' \in [Msgs -> Nat] /\ \A k \in Msgs : unsent'[k] <= Size[k]
  <2> HIDE DEF payload
  <2>1. unsent' = [unsent EXCEPT ![m] = unsent[m] - payload]
    BY DEF payload
  <2>2. unsent[m] - payload \in Nat /\ unsent[m] - payload <= unsent[m]
    BY <1>2
  <2>3. unsent' \in [Msgs -> Nat]
    BY <1>1, <2>1, <2>2, ExceptType DEF TypeOK
  <2>4. ASSUME NEW k \in Msgs PROVE unsent'[k] <= unsent[k]
    <3>1. unsent \in [Msgs -> Nat]
      BY DEF TypeOK
    <3>2. CASE k = m
      <4>1. unsent'[k] = unsent[m] - payload
        BY <1>1, <2>1, <3>1, <3>2
      <4> QED
        BY <2>2, <3>2, <4>1
    <3>3. CASE k # m
      <4>1. unsent'[k] = unsent[k] /\ unsent[k] \in Nat
        BY <2>1, <3>1, <3>3
      <4> QED
        BY <4>1
    <3> QED
      BY <3>2, <3>3
  <2>5. ASSUME NEW k \in Msgs PROVE unsent'[k] <= Size[k]
    <3>1. unsent[k] \in Nat /\ unsent'[k] \in Nat /\ Size[k] \in Nat /\ unsent[k] <= Size[k]
      BY <2>3, SizeType DEF TypeOK
    <3> QED
      BY <2>4, <3>1
  <2> QED
    BY <2>3, <2>5
<1>5. avail' \in [Senders -> Nat]
  <2> HIDE DEF payload
  <2>1. avail' = [avail EXCEPT ![s] = avail[s] - Wire(payload)]
    BY DEF payload
  <2>2. avail[s] - Wire(payload) \in Nat
    BY <1>1, <1>3 DEF TypeOK
  <2> QED
    BY <2>1, <2>2 DEF TypeOK
<1>6. net' \subseteq Packet /\ IsFiniteSet(net')
  <2>1. net' = net \cup {DataPkt(m, payload)}
    OBVIOUS
  <2>2. DataPkt(m, payload) \in Packet
    BY <1>1, <1>2, DataPktType
  <2>3. IsFiniteSet(net)
    BY DEF TypeOK
  <2>4. IsFiniteSet(net')
    BY <2>1, <2>3, FS_AddElement
  <2> QED
    BY <2>1, <2>2, <2>4 DEF TypeOK
<1>7. announced' \subseteq Msgs /\ active' \in [Senders -> SUBSET Msgs]
  BY <1>1 DEF TypeOK
<1> QED
  BY <1>4, <1>5, <1>6, <1>7 DEF SendPacket, TypeOK, receiverVars, inboundVars

LEMMA NetRemove ==
  ASSUME TypeOK, NEW p \in net, net' = net \ {p}
  PROVE  net' \subseteq Packet /\ IsFiniteSet(net')
  BY FS_RemoveElement DEF TypeOK

LEMMA ReceiveTypeOK ==
  ASSUME TypeOK, NEW p \in net, Receive(p)
  PROVE  TypeOK'
<1> DEFINE m == p.msg
<1>1. /\ m \in Msgs /\ Src[m] \in Senders
      /\ p.bytes \in Nat /\ p.unsol \in Nat /\ p.unsolData \in Nat
  BY SizeType DEF TypeOK, Packet
<1>2. ReceivedSoFar(m) \in Nat /\ GrantedSoFar(m) \in Nat /\ GrantSeqSoFar(m) \in Nat
  BY <1>1 DEF TypeOK, ReceivedSoFar, GrantedSoFar, GrantSeqSoFar
<1>3. Informed(m) \in BOOLEAN
  BY <1>1 DEF TypeOK, Informed
<1>4. Wire(p.bytes) \in Nat
  BY <1>1, WireType
<1>5. net' \subseteq Packet /\ IsFiniteSet(net')
  BY NetRemove DEF Receive, ReceiveGrant, ReceiveGrantReq, ReceiveData, ReceiveReply
<1>6. ASSUME HandUp(p) PROVE up' \in [Msgs -> Nat]
  BY <1>1, <1>6 DEF HandUp, TypeOK
<1>7. ASSUME MoveWindow(Src[m]) PROVE window' \in [Senders -> Windows]
  BY <1>1, <1>7 DEF MoveWindow, TypeOK
<1>8. CASE ReceiveGrant(p)
  <2>1. avail' \in [Senders -> Nat]
    BY <1>1, <1>8 DEF ReceiveGrant, TypeOK
  <2> QED
    BY <1>5, <1>8, <2>1 DEF ReceiveGrant, TypeOK, receiverVars, inboundVars, senderVars
<1>9. CASE ReceiveGrantReq(p)
  <2>1. /\ inbound' \subseteq Msgs /\ info' \in [Msgs -> BOOLEAN]
        /\ received' \in [Msgs -> Nat] /\ granted' \in [Msgs -> Nat]
        /\ grantSeq' \in [Msgs -> Nat]
    BY <1>1, <1>2, <1>9 DEF ReceiveGrantReq, TypeOK
  <2>2. window' \in [Senders -> Windows]
    BY <1>7, <1>9 DEF ReceiveGrantReq
  <2> QED
    BY <1>5, <1>9, <2>1, <2>2 DEF ReceiveGrantReq, TypeOK, senderVars
<1>10. CASE ReceiveData(p)
  <2>1. /\ inbound' \subseteq Msgs /\ info' \in [Msgs -> BOOLEAN]
        /\ received' \in [Msgs -> Nat] /\ granted' \in [Msgs -> Nat]
        /\ grantSeq' \in [Msgs -> Nat]
    <3> DEFINE learns == p.creditReq /\ ~Informed(m)
               knows  == learns \/ Informed(m)
               rcvd   == ReceivedSoFar(m) + p.bytes
               grnt   == IF learns THEN p.unsolData ELSE GrantedSoFar(m)
    <3>1. rcvd \in Nat /\ grnt \in Nat /\ knows \in BOOLEAN
      BY <1>1, <1>2, <1>3
    <3>2. /\ inbound' = IF knows /\ Over(m, rcvd, grnt) THEN inbound \ {m} ELSE inbound \cup {m}
          /\ info' = [info EXCEPT ![m] = knows]
          /\ received' = [received EXCEPT ![m] = rcvd]
          /\ granted' = [granted EXCEPT ![m] = grnt]
          /\ grantSeq' = [grantSeq EXCEPT ![m] = GrantSeqSoFar(m)]
      BY <1>10 DEF ReceiveData
    <3> HIDE DEF knows, rcvd, grnt
    <3>3. info' \in [Msgs -> BOOLEAN] /\ received' \in [Msgs -> Nat]
      BY <1>1, <3>1, <3>2, ExceptType DEF TypeOK
    <3>4. granted' \in [Msgs -> Nat] /\ grantSeq' \in [Msgs -> Nat]
      BY <1>1, <1>2, <3>1, <3>2, ExceptType DEF TypeOK
    <3> QED
      BY <1>1, <3>2, <3>3, <3>4 DEF TypeOK
  <2>2. window' \in [Senders -> Windows] /\ up' \in [Msgs -> Nat]
    BY <1>6, <1>7, <1>10 DEF ReceiveData
  <2>3. PICK charge \in Nat : Settle(Src[m], charge, p.bytes)
    BY <1>1, <1>10 DEF ReceiveData
  <2>4. budget' \in Int /\ srpb' \in [Senders -> Int]
    <3> budget \in Int /\ srpb[Src[m]] \in Int
      BY <1>1 DEF TypeOK
    <3>1. /\ budget - charge + Wire(p.bytes) \in Int
          /\ srpb[Src[m]] - charge + Wire(p.bytes) \in Int
      BY <1>4, <2>3
    <3>2. /\ budget' = budget - charge + Wire(p.bytes)
          /\ srpb' = [srpb EXCEPT ![Src[m]] = srpb[Src[m]] - charge + Wire(p.bytes)]
      BY <2>3 DEF Settle
    <3> QED
      BY <1>1, <3>1, <3>2, ExceptType DEF TypeOK
  <2> QED
    BY <1>5, <1>10, <2>1, <2>2, <2>4 DEF ReceiveData, TypeOK, senderVars
<1>11. CASE ReceiveReply(p)
  <2>1. window' \in [Senders -> Windows] /\ up' \in [Msgs -> Nat]
    BY <1>6, <1>7, <1>11 DEF ReceiveReply
  <2> QED
    BY <1>5, <1>11, <2>1 DEF ReceiveReply, TypeOK, senderVars, inboundVars
<1> QED
  BY <1>8, <1>9, <1>10, <1>11 DEF Receive

LEMMA GrantTypeOK ==
  ASSUME TypeOK, NEW m \in Msgs, Grant(m)
  PROVE  TypeOK'
<1>1. Size[m] \in Nat /\ Src[m] \in Senders /\ granted[m] \in Nat /\ grantSeq[m] \in Nat
  BY SizeType DEF TypeOK
<1>2. GrantData(m) \in Nat
  BY <1>1, NextPayloadType DEF Grant, GrantData
<1>3. Wire(GrantData(m)) \in Nat
  BY <1>2, WireType
<1>4. GrantPkt(m, grantSeq[m] + GrantData(m), Wire(GrantData(m))) \in Packet
  BY <1>1, <1>2, <1>3 DEF GrantPkt, Packet
<1>5. net' \subseteq Packet /\ IsFiniteSet(net')
  BY <1>4, FS_AddElement DEF Grant, TypeOK
<1>6. /\ budget' \in Int /\ srpb' \in [Senders -> Int]
      /\ granted' \in [Msgs -> Nat] /\ grantSeq' \in [Msgs -> Nat]
  <2> DEFINE data == GrantData(m)
             need == Wire(data)
  <2>1. /\ budget - need \in Int /\ srpb[Src[m]] - need \in Int
        /\ granted[m] + data \in Nat /\ grantSeq[m] + data \in Nat
    <3>1. budget \in Int /\ srpb[Src[m]] \in Int
      BY <1>1 DEF TypeOK
    <3> QED
      BY <1>1, <1>2, <1>3, <3>1
  <2>2. /\ budget' = budget - need
        /\ srpb' = [srpb EXCEPT ![Src[m]] = srpb[Src[m]] - need]
        /\ granted' = [granted EXCEPT ![m] = granted[m] + data]
        /\ grantSeq' = [grantSeq EXCEPT ![m] = grantSeq[m] + data]
    BY DEF Grant
  <2> HIDE DEF need, data
  <2> QED
    BY <1>1, <2>1, <2>2, ExceptType DEF TypeOK
<1> QED
  BY <1>5, <1>6 DEF Grant, TypeOK, senderVars

LEMMA ReapTypeOK ==
  ASSUME TypeOK, NEW m \in Msgs, Reap(m)
  PROVE  TypeOK'
  BY DEF Reap, TypeOK, senderVars

LEMMA NextTypeOK == TypeOK /\ [Next]_vars => TypeOK'
<1> SUFFICES ASSUME TypeOK, [Next]_vars PROVE TypeOK'
  OBVIOUS
<1>1. CASE Next
  BY <1>1, SubmitTypeOK, ActivateTypeOK, SendPacketTypeOK, ReceiveTypeOK, GrantTypeOK,
     ReapTypeOK DEF Next
<1>2. CASE UNCHANGED vars
  BY <1>2 DEF vars, senderVars, receiverVars, inboundVars, TypeOK
<1> QED
  BY <1>1, <1>2

\* Type correctness of the credit loop.  In particular the sender's pool never
\* goes below zero: send_data only spends credit it holds
\* (r2p2-cc-hybrid.cc:940,1047), in whatever order grants and self-allocations
\* come in.
THEOREM TypeCorrect == Spec => []TypeOK
  BY InitTypeOK, NextTypeOK, PTL DEF Spec

-----------------------------------------------------------------------------
(* Payload, credit and state *)

\* Nothing has been done for m yet.
Fresh(m) ==
  /\ unsent[m] = Size[m] /\ selfAlloc[m] = 0 /\ m \in scheduled /\ ~info[m]
  /\ m \notin active[Src[m]]
  /\ \A p \in net : p.msg # m

\* What has not been submitted, or waits in a sender's outbound_inactive_, is fresh;
\* a message waits once.
QueueInv ==
  /\ \A m \in Msgs \ created : Fresh(m)
  /\ \A s \in Senders, m \in Msgs : \A i \in DOMAIN inactive[s] : inactive[s][i] = m =>
       /\ m \in created /\ Src[m] = s /\ Fresh(m)
       /\ \A j \in DOMAIN inactive[s] : inactive[s][j] = m => j = i

\* Active messages have bytes left; only unscheduled ones have credit of their own.
ActiveInv ==
  /\ \A s \in Senders : \A m \in active[s] : Src[m] = s /\ unsent[m] > 0
  /\ \A m \in scheduled : selfAlloc[m] = 0

\* What the packets in flight say of their message.
PacketInv ==
  \A p \in net :
    /\ p.kind = "GRANT_REQ" =>
         p = GrantReqPkt(p.msg) /\ p.msg \in scheduled /\ ~info[p.msg]
    /\ p.kind = "GRANT" => info[p.msg] /\ p.seq <= grantSeq[p.msg]
    /\ p.kind = "DATA" =>
         /\ p.bytes > 0
         /\ p.msg \notin Replies => p.seq <= Size[p.msg] - unsent[p.msg]
         /\ p.msg \in Replies => unsent[p.msg] = 0
         /\ p.creditReq = (p.msg \notin scheduled)
         /\ p.creditReq => p.unsol = selfAlloc[p.msg]

\* What the receiver remembers of a request is what it has handed up; what it has
\* forgotten is complete.  It never completes the state of a reply.
ReceiverInv ==
  /\ \A m \in inbound \ Replies : received[m] = up[m]
  /\ \A m \in Msgs \ (inbound \cup Replies) : up[m] = IF info[m] THEN Size[m] ELSE 0
  /\ \A m \in Replies : received[m] = 0 /\ (info[m] => m \in inbound)

\* An active reply is whole and has allocated what its packet will cost.
ReplyInv ==
  \A m \in Replies : m \in active[Src[m]] =>
    /\ unsent[m] = Size[m]
    /\ Unsolicited(m) => selfAlloc[m] = Wire(Size[m])

\* The inductive invariant.
IInv ==
  /\ TypeOK /\ QueueInv /\ ActiveInv /\ PacketInv /\ ReceiverInv /\ ReplyInv
  /\ PayloadConserved
-----------------------------------------------------------------------------
(* Weights of packets and messages *)

\* The fields of a packet in flight have their types.
LEMMA PacketTypes ==
  ASSUME TypeOK, NEW p \in net
  PROVE  /\ p \in Packet /\ p.msg \in Msgs /\ Src[p.msg] \in Senders
         /\ p.bytes \in Nat /\ p.seq \in Nat /\ p.unsol \in Nat
         /\ p.creditReq \in BOOLEAN
  BY SizeType DEF TypeOK, Packet

\* The weights are natural numbers.
LEMMA PayloadWeight ==
  ASSUME NEW m \in Msgs, NEW N \in SUBSET Packet
  PROVE  IsWeight(PayloadOf(m), N)
<1>1. ASSUME NEW p \in N PROVE PayloadOf(m)[p] \in Nat
  <2>1. p \in Packet /\ p.bytes \in Nat
    BY DEF Packet
  <2> QED
    BY <2>1 DEF PayloadOf
<1> QED
  BY <1>1 DEF IsWeight

LEMMA LoadWeight ==
  ASSUME NEW s \in Senders, NEW N \in SUBSET Packet
  PROVE  IsWeight(Load(s), N)
<1>1. ASSUME NEW p \in N PROVE Load(s)[p] \in Nat
  <2>1. p \in Packet /\ p.bytes \in Nat
    BY DEF Packet
  <2>2. Wire(p.bytes) \in Nat
    BY <2>1, WireType
  <2> QED
    BY <2>1, <2>2 DEF Load
<1> QED
  BY <1>1 DEF IsWeight

LEMMA UnaccountedWeight ==
  ASSUME TypeOK, NEW s \in Senders
  PROVE  IsWeight(Unaccounted(s), Msgs)
<1>1. ASSUME NEW m \in Msgs PROVE Unaccounted(s)[m] \in Nat
  <2>1. selfAlloc[m] \in Nat
    BY DEF TypeOK
  <2> QED
    BY <2>1 DEF Unaccounted
<1> QED
  BY <1>1 DEF IsWeight

\* A packet without weight changes no total.
LEMMA AddWeightless ==
  ASSUME NEW N \in SUBSET Packet, IsFiniteSet(N), NEW p \in Packet,
         NEW w, IsWeight(w, N), w[p] = 0
  PROVE  Total(w, N \cup {p}) = Total(w, N)
<1>1. CASE p \in N
  <2>1. N \cup {p} = N
    BY <1>1
  <2> QED
    BY <2>1
<1>2. CASE p \notin N
  <2>1. IsWeight(w, N \cup {p})
    BY DEF IsWeight
  <2>2. Total(w, N \cup {p}) = Total(w, N) + w[p] /\ Total(w, N) \in Nat
    BY <1>2, <2>1, TotalAdd, TotalNat
  <2> QED
    BY <2>2
<1> QED
  BY <1>1, <1>2

LEMMA RemoveWeighed ==
  ASSUME NEW N \in SUBSET Packet, IsFiniteSet(N), NEW p \in N, NEW w, IsWeight(w, N)
  PROVE  /\ Total(w, N \ {p}) = Total(w, N) - w[p]
         /\ Total(w, N \ {p}) \in Nat /\ Total(w, N) \in Nat /\ w[p] \in Nat
<1>1. IsFiniteSet(N \ {p})
  BY FS_RemoveElement
<1>2. IsWeight(w, N \ {p}) /\ w[p] \in Nat
  BY DEF IsWeight
<1>3. Total(w, N \ {p}) \in Nat /\ Total(w, N) \in Nat
  BY <1>1, <1>2, TotalNat
<1>4. Total(w, N) = Total(w, N \ {p}) + w[p]
  BY TotalRemove
<1> QED
  BY <1>2, <1>3, <1>4
-----------------------------------------------------------------------------
(* The initial state *)

\* The invariant holds initially.
LEMMA InitIInv == Init => IInv
<1> SUFFICES ASSUME Init PROVE IInv
  OBVIOUS
<1>1. TypeOK
  BY InitTypeOK
<1>2. QueueInv /\ ActiveInv
  BY SizeType DEF Init, QueueInv, ActiveInv, Fresh
<1>3. PacketInv
  BY DEF Init, PacketInv
<1>4. ReceiverInv
  BY SetsAssumption DEF Init, ReceiverInv
<1>5. ReplyInv
  BY SizeType, SetsAssumption DEF Init, ReplyInv
<1>6. PayloadConserved
  <2> SUFFICES ASSUME NEW m \in Msgs
               PROVE  up[m] + Total(PayloadOf(m), net) + unsent[m] = Size[m]
    BY DEF PayloadConserved
  <2>1. net = {} /\ up[m] = 0 /\ unsent[m] = Size[m]
    BY DEF Init
  <2>2. Total(PayloadOf(m), net) = 0
    BY <2>1, TotalEmpty
  <2> QED
    BY <2>1, <2>2, SizeType
<1> QED
  BY <1>1, <1>2, <1>3, <1>4, <1>5, <1>6 DEF IInv
-----------------------------------------------------------------------------
(* Steps of the sender that put no data on the way *)

\* Payload is not affected by packets that are not data.
LEMMA PayloadFrame ==
  ASSUME TypeOK, PayloadConserved, UNCHANGED <<up, unsent>>,
         \/ net' = net
         \/ \E p \in Packet : p.kind # "DATA" /\ net' = net \cup {p}
         \/ \E p \in net : p.kind # "DATA" /\ net' = net \ {p}
  PROVE  PayloadConserved'
<1> SUFFICES ASSUME NEW m \in Msgs
             PROVE  up'[m] + Total(PayloadOf(m), net') + unsent'[m] = Size[m]
  BY DEF PayloadConserved
<1>1. net \in SUBSET Packet /\ IsFiniteSet(net)
  BY DEF TypeOK
<1>2. IsWeight(PayloadOf(m), net)
  BY <1>1, PayloadWeight
<1>3. Total(PayloadOf(m), net') = Total(PayloadOf(m), net)
  <2>1. CASE net' = net
    BY <2>1
  <2>2. ASSUME NEW p \in Packet, p.kind # "DATA", net' = net \cup {p}
        PROVE  Total(PayloadOf(m), net') = Total(PayloadOf(m), net)
    <3>1. PayloadOf(m)[p] = 0
      BY <2>2 DEF PayloadOf
    <3> QED
      BY <1>1, <1>2, <2>2, <3>1, AddWeightless
  <2>3. ASSUME NEW p \in net, p.kind # "DATA", net' = net \ {p}
        PROVE  Total(PayloadOf(m), net') = Total(PayloadOf(m), net)
    <3>1. PayloadOf(m)[p] = 0
      BY <1>1, <2>3 DEF PayloadOf
    <3> QED
      BY <1>1, <1>2, <2>3, <3>1, RemoveWeighed
  <2> QED
    BY <2>1, <2>2, <2>3
<1> QED
  BY <1>3 DEF PayloadConserved

\* A step that touches no waiting list and no fresh message.
LEMMA QueueFrame ==
  ASSUME QueueInv, UNCHANGED <<created, inactive>>, \A m \in Msgs : Fresh(m) => Fresh(m)'
  PROVE  QueueInv'
  BY DEF QueueInv

\* A new message joins the end of the list.
LEMMA SubmitIInv ==
  ASSUME IInv, NEW m \in Msgs, Submit(m)
  PROVE  IInv'
<1>1. /\ m \notin created /\ created' = created \cup {m}
      /\ inactive' = [inactive EXCEPT ![Src[m]] = Append(inactive[Src[m]], m)]
      /\ UNCHANGED <<active, unsent, announced, scheduled, selfAlloc, selfAllocData,
                     avail, inbound, info, received, up, grantSeq, net>>
  BY DEF Submit, PrepMsgSend, receiverVars, inboundVars
<1>2. TypeOK /\ QueueInv /\ PayloadConserved
  BY DEF IInv
<1>3. \A k \in Msgs : Fresh(k) => Fresh(k)'
  BY <1>1 DEF Fresh
<1>4. QueueInv'
  <2>1. ASSUME NEW s \in Senders, NEW k \in Msgs,
               NEW i \in DOMAIN inactive'[s], inactive'[s][i] = k
        PROVE  /\ k \in created' /\ Src[k] = s /\ Fresh(k)'
               /\ \A j \in DOMAIN inactive'[s] : inactive'[s][j] = k => j = i
    <3>1. inactive \in [Senders -> Seq(Msgs)] /\ inactive[s] \in Seq(Msgs)
      BY <1>2 DEF TypeOK
    <3>2. inactive'[s] = IF s = Src[m] THEN Append(inactive[s], m) ELSE inactive[s]
      BY <1>1, <3>1, SizeType
    <3>3. Fresh(m)
      BY <1>1, <1>2 DEF QueueInv
    <3>4. \A j \in DOMAIN inactive[s] : inactive[s][j] # m
      BY <1>1, <1>2 DEF QueueInv
    <3>5. \A j \in DOMAIN inactive[s] : inactive[s][j] = k =>
             /\ k \in created /\ Src[k] = s /\ Fresh(k)
             /\ \A l \in DOMAIN inactive[s] : inactive[s][l] = k => l = j
      BY <1>2 DEF QueueInv
    <3>6. CASE s = Src[m]
      <4>1. \A j \in DOMAIN inactive'[s] :
              \/ j \in DOMAIN inactive[s] /\ inactive'[s][j] = inactive[s][j]
              \/ j = Len(inactive[s]) + 1 /\ inactive'[s][j] = m
        BY <3>1, <3>2, <3>6
      <4>2. CASE i \in DOMAIN inactive[s] /\ inactive'[s][i] = inactive[s][i]
        BY <1>1, <1>3, <2>1, <3>4, <3>5, <4>1, <4>2
      <4>3. CASE i = Len(inactive[s]) + 1 /\ inactive'[s][i] = m
        BY <1>1, <1>3, <2>1, <3>3, <3>4, <3>6, <4>1, <4>3
      <4> QED
        BY <4>1, <4>2, <4>3
    <3>7. CASE s # Src[m]
      BY <1>1, <1>3, <2>1, <3>2, <3>5, <3>7
    <3> QED
      BY <3>6, <3>7
  <2>2. \A k \in Msgs \ created' : Fresh(k)'
    BY <1>1, <1>2, <1>3 DEF QueueInv
  <2> QED
    BY <2>1, <2>2 DEF QueueInv
<1>5. ActiveInv' /\ PacketInv' /\ ReceiverInv' /\ ReplyInv'
  BY <1>1 DEF IInv, ActiveInv, PacketInv, ReceiverInv, ReplyInv
<1>6. PayloadConserved'
  BY <1>1, <1>2, PayloadFrame
<1>7. TypeOK'
  BY <1>2, SubmitTypeOK
<1> QED
  BY <1>4, <1>5, <1>6, <1>7 DEF IInv

\* A single-packet reply allocates itself what its packet will cost.
LEMMA ReplySelfCredit ==
  ASSUME NEW m \in Replies, NEW a \in Nat
  PROVE  SelfCredit(Size[m], a) = Wire(Size[m])
<1>1. /\ Size[m] \in Nat /\ 0 < Size[m] /\ Size[m] < MaxPayload
      /\ MaxPayload \in Nat /\ MaxSrpb \in Nat /\ MaxSrpb >= MaxFrame
      /\ Overhead \in Nat /\ MinFrame \in Nat /\ MinFrame <= MaxFrame
  BY SizeType, SetsAssumption, FramesAssumption, MaxFrameType
<1>2. Size[m] \div MaxPayload = 0 /\ (Size[m] % MaxPayload) = Size[m]
  BY <1>1
<1>3. AddHeaderOverhead(Size[m]) = Wire(Size[m])
  <2>1. 0 * MaxFrame = 0
    BY MaxFrameType
  <2>2. Wire(Size[m]) \in Nat
    BY <1>1, WireType
  <2> QED
    BY <1>1, <1>2, <2>1, <2>2 DEF AddHeaderOverhead
<1>4. Wire(Size[m]) \in Nat /\ Wire(Size[m]) <= MaxFrame /\ Wire(Size[m]) >= MinFrame
  BY <1>1 DEF Wire, Larger, MaxFrame
<1>5. SelfCreditData(Size[m], a) = Size[m]
  <2>1. ~(AddHeaderOverhead(Size[m]) > MaxSrpb)
    BY <1>1, <1>3, <1>4, MaxFrameType
  <2>2. Larger(MaxSrpb - a, MaxFrame) \in Nat /\ Larger(MaxSrpb - a, MaxFrame) >= MaxFrame
    BY <1>1, MaxFrameType DEF Larger
  <2>3. ~(AddHeaderOverhead(Size[m]) > Larger(MaxSrpb - a, MaxFrame))
    BY <1>3, <1>4, <2>2, MaxFrameType
  <2> QED
    BY <2>1, <2>3 DEF SelfCreditData, Wanted
<1> QED
  BY <1>1, <1>3, <1>4, <1>5 DEF SelfCredit, Larger

\* The oldest message leaves the list, with credit of its own or a GRANT_REQ.
LEMMA ActivateIInv ==
  ASSUME IInv, NEW s \in Senders, Activate(s)
  PROVE  IInv'
<1> DEFINE m == Head(inactive[s])
           q == inactive[s]
<1>1. /\ TypeOK /\ QueueInv /\ ActiveInv /\ PacketInv /\ ReceiverInv /\ ReplyInv
      /\ PayloadConserved
  BY DEF IInv
<1>2. /\ q \in Seq(Msgs) /\ q # <<>> /\ m \in Msgs /\ 1 \in DOMAIN q /\ q[1] = m
  BY <1>1 DEF Activate, TypeOK
<1>3. m \in created /\ Src[m] = s /\ Fresh(m) /\ \A j \in DOMAIN q : q[j] = m => j = 1
  BY <1>1, <1>2 DEF QueueInv
<1>4. /\ inactive' = [inactive EXCEPT ![s] = Tail(q)]
      /\ active' = [active EXCEPT ![s] = active[s] \cup {m}]
      /\ UNCHANGED <<created, unsent, inbound, info, received, grantSeq, up>>
  BY DEF Activate, receiverVars, inboundVars
<1>5. \/ /\ Unsolicited(m)
         /\ selfAlloc' = [selfAlloc EXCEPT ![m] = SelfCredit(Size[m], avail[s])]
         /\ scheduled' = scheduled \ {m} /\ net' = net
      \/ /\ ~Unsolicited(m) /\ net' = net \cup {GrantReqPkt(m)}
         /\ UNCHANGED <<selfAlloc, scheduled>>
  BY DEF Activate
<1>6. /\ active \in [Senders -> SUBSET Msgs] /\ inactive \in [Senders -> Seq(Msgs)]
      /\ selfAlloc \in [Msgs -> Nat]
  BY <1>1 DEF TypeOK
<1>7. GrantReqPkt(m) \in Packet /\ GrantReqPkt(m).msg = m /\ GrantReqPkt(m).kind = "GRANT_REQ"
  BY <1>2 DEF GrantReqPkt, Packet
<1> HIDE DEF m
<1>8. \A k \in Msgs : k # m /\ Fresh(k) => Fresh(k)'
  <2>1. ASSUME NEW k \in Msgs, k # m, Fresh(k) PROVE Fresh(k)'
    <3>1. /\ unsent'[k] = unsent[k] /\ selfAlloc'[k] = selfAlloc[k] /\ info'[k] = info[k]
          /\ k \in scheduled => k \in scheduled'
      BY <1>4, <1>5, <1>6, <2>1
    <3>2. k \in active'[Src[k]] => k \in active[Src[k]]
      BY <1>4, <1>6, <2>1, SizeType
    <3>3. ASSUME NEW p \in net' PROVE p.msg # k
      BY <1>5, <1>7, <2>1 DEF Fresh
    <3> QED
      BY <2>1, <3>1, <3>2, <3>3 DEF Fresh
  <2> QED
    BY <2>1
<1>9. QueueInv'
  <2>1. \A k \in Msgs \ created' : Fresh(k)'
    BY <1>1, <1>3, <1>4, <1>8 DEF QueueInv
  <2>2. ASSUME NEW r \in Senders, NEW k \in Msgs,
               NEW i \in DOMAIN inactive'[r], inactive'[r][i] = k
        PROVE  /\ k \in created' /\ Src[k] = r /\ Fresh(k)'
               /\ \A j \in DOMAIN inactive'[r] : inactive'[r][j] = k => j = i
    <3>1. \A j \in DOMAIN inactive[r] : inactive[r][j] = k =>
             /\ k \in created /\ Src[k] = r /\ Fresh(k)
             /\ \A l \in DOMAIN inactive[r] : inactive[r][l] = k => l = j
      BY <1>1 DEF QueueInv
    <3>2. CASE r = s
      <4>1. inactive'[r] = Tail(q)
        BY <1>4, <1>6, <3>2
      <4>2. \A j \in DOMAIN Tail(q) : /\ j \in Nat /\ j + 1 \in DOMAIN q
                                      /\ Tail(q)[j] = q[j + 1] /\ j + 1 # 1
        BY <1>2
      <4>3. k # m
        BY <1>3, <2>2, <4>1, <4>2
      <4>4. \A j \in DOMAIN Tail(q) : Tail(q)[j] = k => j = i
        <5>1. ASSUME NEW j \in DOMAIN Tail(q), Tail(q)[j] = k PROVE j = i
          <6>1. j + 1 = i + 1
            BY <2>2, <3>1, <3>2, <4>1, <4>2, <5>1
          <6> QED
            BY <2>2, <4>1, <4>2, <6>1
        <5> QED
          BY <5>1
      <4> QED
        BY <1>4, <1>8, <2>2, <3>1, <3>2, <4>1, <4>2, <4>3, <4>4
    <3>3. CASE r # s
      <4>1. inactive'[r] = inactive[r]
        BY <1>4, <1>6, <3>3
      <4>2. k # m
        BY <1>3, <2>2, <3>1, <3>3, <4>1
      <4> QED
        BY <1>4, <1>8, <2>2, <3>1, <4>1, <4>2
    <3> QED
      BY <3>2, <3>3
  <2> QED
    BY <2>1, <2>2 DEF QueueInv
<1>10. ActiveInv'
  <2>1. ASSUME NEW r \in Senders, NEW k \in active'[r] PROVE Src[k] = r /\ unsent'[k] > 0
    <3>1. k \in active[r] \/ (k = m /\ r = s)
      BY <1>4, <1>6
    <3>2. unsent'[m] = Size[m] /\ Size[m] > 0
      BY <1>2, <1>3, <1>4, SizeType DEF Fresh, m
    <3> QED
      BY <1>1, <1>3, <1>4, <3>1, <3>2 DEF ActiveInv
  <2>2. ASSUME NEW k \in scheduled' PROVE selfAlloc'[k] = 0
    BY <1>1, <1>5, <1>6 DEF ActiveInv, TypeOK
  <2> QED
    BY <2>1, <2>2 DEF ActiveInv
<1>11. PacketInv'
  <2>1. ASSUME NEW p \in net, p.msg # m
        PROVE  /\ p.msg \in scheduled <=> p.msg \in scheduled'
               /\ selfAlloc'[p.msg] = selfAlloc[p.msg]
    BY <1>1, <1>5, <1>6, <2>1, PacketTypes
  <2>2. \A p \in net : p.msg # m
    BY <1>3 DEF Fresh
  <2>3. \A p \in net' : p \in net \/ (p = GrantReqPkt(m) /\ p = GrantReqPkt(p.msg) /\ m \in scheduled')
    <3>1. m \in scheduled
      BY <1>3 DEF Fresh
    <3> QED
      BY <1>5, <1>7, <3>1
  <2>4. ~info[m]
    BY <1>3 DEF Fresh
  <2> QED
    BY <1>1, <1>4, <1>7, <2>1, <2>2, <2>3, <2>4 DEF PacketInv
<1>12. ReceiverInv'
  BY <1>1, <1>4 DEF ReceiverInv
<1>13. ReplyInv'
  <2>1. ASSUME NEW k \in Replies, k \in active'[Src[k]]
        PROVE  unsent'[k] = Size[k] /\ (Unsolicited(k) => selfAlloc'[k] = Wire(Size[k]))
    <3>1. k \in Msgs /\ Size[k] < MaxPayload
      BY SetsAssumption
    <3>2. CASE k = m
      <4>1. unsent'[k] = Size[k]
        BY <1>3, <1>4, <3>2 DEF Fresh
      <4>2. ASSUME Unsolicited(k) PROVE selfAlloc'[k] = SelfCredit(Size[k], avail[s])
        BY <1>5, <1>6, <3>1, <3>2, <4>2
      <4>3. avail[s] \in Nat
        BY <1>1 DEF TypeOK
      <4>4. SelfCredit(Size[k], avail[s]) = Wire(Size[k])
        BY <2>1, <4>3, ReplySelfCredit
      <4> QED
        BY <4>1, <4>2, <4>4
    <3>3. CASE k # m
      <4>1. k \in active[Src[k]] /\ selfAlloc'[k] = selfAlloc[k]
        BY <1>4, <1>5, <1>6, <2>1, <3>1, <3>3, SizeType
      <4> QED
        BY <1>1, <1>4, <4>1 DEF ReplyInv
    <3> QED
      BY <3>2, <3>3
  <2> QED
    BY <2>1, <1>4 DEF ReplyInv
<1>14. PayloadConserved'
  BY <1>1, <1>4, <1>5, <1>7, PayloadFrame
<1>15. TypeOK'
  BY <1>1, ActivateTypeOK
<1> QED
  BY <1>9, <1>10, <1>11, <1>12, <1>13, <1>14, <1>15 DEF IInv

-----------------------------------------------------------------------------
(* Steps that leave the messages at the senders alone *)

\* Such a step may put a packet of m on the way and inform the receiver of m.
LEMMA ReceiverFrame ==
  ASSUME IInv, UNCHANGED <<created, senderVars>>, NEW m \in Msgs, ~Fresh(m),
         \A k \in Msgs : k # m => info'[k] = info[k],
         \A p \in net' : p \in net \/ p.msg = m
  PROVE  QueueInv' /\ ActiveInv' /\ ReplyInv'
<1>1. UNCHANGED <<created, inactive, active, unsent, scheduled, selfAlloc>>
  BY DEF senderVars
<1>2. ASSUME NEW k \in Msgs, Fresh(k) PROVE Fresh(k)'
  <2>1. k # m
    BY <1>2
  <2>2. \A p \in net' : p.msg # k
    BY <1>2, <2>1 DEF Fresh
  <2>3. ~info'[k]
    BY <1>2, <2>1 DEF Fresh
  <2> QED
    BY <1>1, <1>2, <2>2, <2>3 DEF Fresh
<1>3. QueueInv'
  BY <1>1, <1>2, QueueFrame DEF IInv
<1>4. ActiveInv' /\ ReplyInv'
  BY <1>1 DEF IInv, ActiveInv, ReplyInv
<1> QED
  BY <1>3, <1>4

\* Only complete state is reaped, and never that of a reply.
LEMMA ReapIInv ==
  ASSUME IInv, NEW m \in Msgs, Reap(m)
  PROVE  IInv'
<1>1. /\ m \in inbound /\ info[m] /\ received[m] = Size[m] /\ inbound' = inbound \ {m}
      /\ UNCHANGED <<created, senderVars, unsent, scheduled, selfAlloc,
                     info, received, grantSeq, up, net>>
  BY DEF Reap, Over, senderVars
<1>2. TypeOK /\ PacketInv /\ ReceiverInv /\ PayloadConserved
  BY DEF IInv
<1>3. QueueInv' /\ ActiveInv' /\ ReplyInv'
  <2>1. ~Fresh(m)
    BY <1>1 DEF Fresh
  <2> QED
    BY <1>1, <2>1, ReceiverFrame
<1>4. PacketInv'
  BY <1>1, <1>2 DEF PacketInv
<1>5. ReceiverInv'
  <2>1. m \notin Replies /\ up[m] = Size[m]
    BY <1>1, <1>2, SizeType DEF ReceiverInv
  <2> QED
    BY <1>1, <1>2, <2>1 DEF ReceiverInv
<1>6. PayloadConserved'
  BY <1>1, <1>2, PayloadFrame
<1>7. TypeOK'
  BY <1>2, ReapTypeOK
<1> QED
  BY <1>3, <1>4, <1>5, <1>6, <1>7 DEF IInv

\* A grant goes out with a larger seq than all before it.
LEMMA GrantIInv ==
  ASSUME IInv, NEW m \in Msgs, Grant(m)
  PROVE  IInv'
<1> DEFINE p == GrantPkt(m, grantSeq[m] + GrantData(m), Wire(GrantData(m)))
<1>1. /\ m \in inbound /\ info[m] /\ granted[m] < Size[m]
      /\ grantSeq' = [grantSeq EXCEPT ![m] = grantSeq[m] + GrantData(m)]
      /\ net' = net \cup {p}
      /\ UNCHANGED <<created, senderVars, unsent, scheduled, selfAlloc,
                     inbound, info, received, up>>
  BY DEF Grant, senderVars
<1>2. TypeOK /\ PacketInv /\ ReceiverInv /\ PayloadConserved
  BY DEF IInv
<1>3. grantSeq \in [Msgs -> Nat] /\ granted[m] \in Nat /\ Size[m] - granted[m] \in Nat
  BY <1>1, <1>2, SizeType DEF TypeOK
<1>4. GrantData(m) \in Nat /\ Wire(GrantData(m)) \in Nat
  BY <1>3, NextPayloadType, WireType DEF GrantData
<1>5. /\ p \in Packet /\ p.kind = "GRANT" /\ p.msg = m
      /\ p.seq = grantSeq[m] + GrantData(m)
  BY <1>3, <1>4 DEF GrantPkt, Packet
<1> HIDE DEF p
<1>6. QueueInv' /\ ActiveInv' /\ ReplyInv'
  <2>1. ~Fresh(m)
    BY <1>1 DEF Fresh
  <2>2. \A r \in net' : r \in net \/ r.msg = m
    BY <1>1, <1>5
  <2> QED
    BY <1>1, <2>1, <2>2, ReceiverFrame
<1>7. PacketInv'
  <2>1. \A k \in Msgs : grantSeq'[k] >= grantSeq[k] /\ grantSeq'[k] \in Nat
    BY <1>1, <1>3, <1>4
  <2>2. p.seq = grantSeq'[m]
    BY <1>1, <1>3, <1>5
  <2>3. \A r \in net : r.kind = "GRANT" => r.seq <= grantSeq'[r.msg]
    BY <1>2, <1>3, <2>1, PacketTypes DEF PacketInv
  <2>4. p.seq <= grantSeq'[m]
    BY <2>1, <2>2
  <2> QED
    BY <1>1, <1>2, <1>5, <2>3, <2>4 DEF PacketInv
<1>8. ReceiverInv'
  BY <1>1, <1>2 DEF ReceiverInv
<1>9. PayloadConserved'
  BY <1>1, <1>2, <1>5, PayloadFrame
<1>10. TypeOK'
  BY <1>2, GrantTypeOK
<1> QED
  BY <1>6, <1>7, <1>8, <1>9, <1>10 DEF IInv

LEMMA ReceiveGrantIInv ==
  ASSUME IInv, NEW p \in net, ReceiveGrant(p)
  PROVE  IInv'
<1>1. /\ p.kind = "GRANT" /\ net' = net \ {p}
      /\ UNCHANGED <<created, senderVars, unsent, scheduled, selfAlloc,
                     inbound, info, received, grantSeq, up>>
  BY DEF ReceiveGrant, senderVars, receiverVars, inboundVars
<1>2. TypeOK /\ PacketInv /\ ReceiverInv /\ PayloadConserved
  BY DEF IInv
<1>3. QueueInv' /\ ActiveInv' /\ ReplyInv'
  <2>1. p.msg \in Msgs /\ ~Fresh(p.msg)
    BY <1>2, PacketTypes DEF Fresh
  <2> QED
    BY <1>1, <2>1, ReceiverFrame
<1>4. PacketInv' /\ ReceiverInv'
  BY <1>1, <1>2 DEF PacketInv, ReceiverInv
<1>5. PayloadConserved'
  BY <1>1, <1>2, PayloadFrame
<1>6. TypeOK'
  BY <1>2, ReceiveTypeOK DEF Receive
<1> QED
  BY <1>3, <1>4, <1>5, <1>6 DEF IInv

\* A GRANT_REQ finds the receiver uninformed, and there is no second one.
LEMMA ReceiveGrantReqIInv ==
  ASSUME IInv, NEW p \in net, ReceiveGrantReq(p)
  PROVE  IInv'
<1> DEFINE m == p.msg
<1>1. /\ p.kind = "GRANT_REQ" /\ net' = net \ {p}
      /\ inbound' = inbound \cup {m}
      /\ info' = [info EXCEPT ![m] = TRUE]
      /\ received' = [received EXCEPT ![m] = ReceivedSoFar(m)]
      /\ grantSeq' = [grantSeq EXCEPT ![m] = GrantSeqSoFar(m)]
      /\ UNCHANGED <<created, senderVars, unsent, scheduled, selfAlloc, up>>
  BY DEF ReceiveGrantReq, senderVars
<1>2. TypeOK /\ PacketInv /\ ReceiverInv /\ PayloadConserved
  BY DEF IInv
<1>3. m \in Msgs /\ p = GrantReqPkt(m) /\ m \in scheduled /\ ~info[m]
  BY <1>1, <1>2, PacketTypes DEF PacketInv
<1>4. info \in [Msgs -> BOOLEAN] /\ received \in [Msgs -> Nat] /\ grantSeq \in [Msgs -> Nat]
  BY <1>2 DEF TypeOK
<1> HIDE DEF m
<1>5. QueueInv' /\ ActiveInv' /\ ReplyInv'
  <2>1. ~Fresh(m)
    BY DEF Fresh, m
  <2>2. \A k \in Msgs : k # m => info'[k] = info[k]
    BY <1>1, <1>4
  <2>3. \A r \in net' : r \in net
    BY <1>1
  <2> QED
    BY <1>1, <1>3, <2>1, <2>2, <2>3, ReceiverFrame
<1>6. PacketInv'
  <2>1. ASSUME NEW r \in net' PROVE r \in net /\ r # p /\ r.msg \in Msgs
    BY <1>1, <1>2, <2>1, PacketTypes
  <2>2. ASSUME NEW r \in net', r.kind = "GRANT_REQ"
        PROVE  r = GrantReqPkt(r.msg) /\ r.msg \in scheduled' /\ ~info'[r.msg]
    <3>1. r = GrantReqPkt(r.msg) /\ r.msg \in scheduled /\ ~info[r.msg]
      BY <1>2, <2>1, <2>2 DEF PacketInv
    <3>2. r.msg # m
      BY <1>3, <2>1, <3>1
    <3> QED
      BY <1>1, <1>4, <2>1, <3>1, <3>2
  <2>3. ASSUME NEW r \in net', r.kind = "GRANT"
        PROVE  info'[r.msg] /\ r.seq <= grantSeq'[r.msg]
    <3>1. info[r.msg] /\ r.seq <= grantSeq[r.msg]
      BY <1>2, <2>1, <2>3 DEF PacketInv
    <3>2. r.msg # m
      BY <1>3, <3>1
    <3> QED
      BY <1>1, <1>4, <2>1, <3>1, <3>2
  <2> QED
    BY <1>1, <1>2, <2>1, <2>2, <2>3 DEF PacketInv
<1>7. ReceiverInv'
  <2>1. received'[m] = ReceivedSoFar(m) /\ info'[m] = TRUE
    BY <1>1, <1>3, <1>4
  <2>2. m \notin Replies => ReceivedSoFar(m) = up[m]
    BY <1>2, <1>3 DEF ReceiverInv, ReceivedSoFar
  <2>3. m \in Replies => ReceivedSoFar(m) = 0
    BY <1>2, <1>3 DEF ReceiverInv, ReceivedSoFar
  <2>4. \A k \in Msgs : k # m => received'[k] = received[k] /\ info'[k] = info[k]
    BY <1>1, <1>4
  <2> QED
    BY <1>1, <1>2, <1>3, <2>1, <2>2, <2>3, <2>4, SetsAssumption DEF ReceiverInv, TypeOK
<1>8. PayloadConserved'
  BY <1>1, <1>2, PayloadFrame
<1>9. TypeOK'
  BY <1>2, ReceiveTypeOK DEF Receive
<1> QED
  BY <1>5, <1>6, <1>7, <1>8, <1>9 DEF IInv

-----------------------------------------------------------------------------
(* Data packets *)

\* The payload of a packet that arrives moves from the network to the layer above.
LEMMA HandUpConserves ==
  ASSUME TypeOK, PayloadConserved, NEW p \in net, p.kind = "DATA",
         HandUp(p), net' = net \ {p}, unsent' = unsent
  PROVE  PayloadConserved'
<1> SUFFICES ASSUME NEW k \in Msgs
             PROVE  up'[k] + Total(PayloadOf(k), net') + unsent'[k] = Size[k]
  BY DEF PayloadConserved
<1>1. /\ net \in SUBSET Packet /\ IsFiniteSet(net) /\ up \in [Msgs -> Nat]
      /\ unsent[k] \in Nat
  BY DEF TypeOK
<1>2. IsWeight(PayloadOf(k), net)
  BY <1>1, PayloadWeight
<1>3. /\ Total(PayloadOf(k), net') = Total(PayloadOf(k), net) - PayloadOf(k)[p]
      /\ Total(PayloadOf(k), net) \in Nat
  BY <1>1, <1>2, RemoveWeighed
<1>4. /\ PayloadOf(k)[p] = IF p.msg = k THEN p.bytes ELSE 0
      /\ p.msg \in Msgs /\ p.bytes \in Nat
  BY <1>1, PacketTypes DEF PayloadOf
<1>5. up'[k] = up[k] + PayloadOf(k)[p] /\ up[k] \in Nat
  BY <1>1, <1>4 DEF HandUp
<1>6. up[k] + Total(PayloadOf(k), net) + unsent[k] = Size[k]
  BY DEF PayloadConserved
<1>7. PayloadOf(k)[p] \in Nat
  BY <1>4
<1> QED
  BY <1>1, <1>3, <1>5, <1>6, <1>7

\* A request with data in flight is not complete, so the receiver has not
\* forgotten it if it was informed.
LEMMA InFlightMeansOpen ==
  ASSUME IInv, NEW p \in net, p.kind = "DATA", p.msg \notin Replies
  PROVE  /\ info[p.msg] => p.msg \in inbound
         /\ ReceivedSoFar(p.msg) = up[p.msg]
         /\ Informed(p.msg) = info[p.msg]
<1> DEFINE m == p.msg
<1>1. TypeOK /\ PacketInv /\ ReceiverInv /\ PayloadConserved
  BY DEF IInv
<1>2. /\ net \in SUBSET Packet /\ IsFiniteSet(net) /\ m \in Msgs /\ info \in [Msgs -> BOOLEAN]
      /\ up[m] \in Nat /\ unsent[m] \in Nat /\ Size[m] \in Nat /\ p.bytes \in Nat
  BY <1>1, SizeType, PacketTypes DEF TypeOK
<1>3. IsWeight(PayloadOf(m), net)
  BY <1>2, PayloadWeight
<1>4. /\ Total(PayloadOf(m), net \ {p}) = Total(PayloadOf(m), net) - PayloadOf(m)[p]
      /\ Total(PayloadOf(m), net \ {p}) \in Nat /\ Total(PayloadOf(m), net) \in Nat
  BY <1>2, <1>3, RemoveWeighed
<1>5. PayloadOf(m)[p] = p.bytes
  BY <1>2 DEF PayloadOf
<1>6. p.bytes > 0
  BY <1>1 DEF PacketInv
<1>7. up[m] + Total(PayloadOf(m), net) + unsent[m] = Size[m]
  BY <1>1, <1>2 DEF PayloadConserved
<1>8. up[m] < Size[m]
  BY <1>2, <1>4, <1>5, <1>6, <1>7
<1>9. info[m] => m \in inbound
  BY <1>1, <1>2, <1>8 DEF ReceiverInv
<1>10. ReceivedSoFar(m) = up[m]
  BY <1>1, <1>2, <1>9 DEF ReceiverInv, ReceivedSoFar
<1> QED
  BY <1>2, <1>9, <1>10 DEF Informed

LEMMA ReceiveReplyIInv ==
  ASSUME IInv, NEW p \in net, ReceiveReply(p)
  PROVE  IInv'
<1>1. /\ p.kind = "DATA" /\ p.msg \in Replies /\ HandUp(p) /\ net' = net \ {p}
      /\ UNCHANGED <<created, senderVars, unsent, scheduled, selfAlloc,
                     inbound, info, received, grantSeq>>
  BY DEF ReceiveReply, senderVars, inboundVars
<1>2. TypeOK /\ PacketInv /\ ReceiverInv /\ PayloadConserved
  BY DEF IInv
<1>3. QueueInv' /\ ActiveInv' /\ ReplyInv'
  <2>1. p.msg \in Msgs /\ ~Fresh(p.msg)
    BY <1>2, PacketTypes DEF Fresh
  <2> QED
    BY <1>1, <2>1, ReceiverFrame
<1>4. PacketInv'
  BY <1>1, <1>2 DEF PacketInv
<1>5. ReceiverInv'
  <2>1. \A k \in Msgs : k \notin Replies => up'[k] = up[k]
    BY <1>1, <1>2 DEF HandUp, TypeOK
  <2> QED
    BY <1>1, <1>2, <2>1 DEF ReceiverInv, TypeOK
<1>6. PayloadConserved'
  BY <1>1, <1>2, HandUpConserves
<1>7. TypeOK'
  BY <1>2, ReceiveTypeOK DEF Receive
<1> QED
  BY <1>3, <1>4, <1>5, <1>6, <1>7 DEF IInv

\* A data packet is counted, and may inform the receiver or complete its message.
LEMMA ReceiveDataIInv ==
  ASSUME IInv, NEW p \in net, ReceiveData(p)
  PROVE  IInv'
<1> DEFINE m      == p.msg
           learns == p.creditReq /\ ~Informed(m)
           knows  == learns \/ Informed(m)
           rcvd   == ReceivedSoFar(m) + p.bytes
           grnt   == IF learns THEN p.unsolData ELSE GrantedSoFar(m)
           over   == knows /\ Over(m, rcvd, grnt)
<1>1. /\ p.kind = "DATA" /\ m \notin Replies /\ HandUp(p) /\ net' = net \ {p}
      /\ inbound' = IF over THEN inbound \ {m} ELSE inbound \cup {m}
      /\ info' = [info EXCEPT ![m] = knows]
      /\ received' = [received EXCEPT ![m] = rcvd]
      /\ grantSeq' = [grantSeq EXCEPT ![m] = GrantSeqSoFar(m)]
      /\ UNCHANGED <<created, senderVars, unsent, scheduled, selfAlloc>>
  BY DEF ReceiveData, senderVars
<1>2. TypeOK /\ PacketInv /\ ReceiverInv /\ PayloadConserved
  BY DEF IInv
<1>3. /\ m \in Msgs /\ p.bytes \in Nat /\ p.creditReq \in BOOLEAN
      /\ info \in [Msgs -> BOOLEAN] /\ received \in [Msgs -> Nat]
      /\ grantSeq \in [Msgs -> Nat] /\ up \in [Msgs -> Nat]
  BY <1>2, PacketTypes DEF TypeOK
<1>4. /\ info[m] => m \in inbound
      /\ ReceivedSoFar(m) = up[m]
      /\ Informed(m) = info[m]
  BY <1>1, InFlightMeansOpen
<1>5. p.creditReq = (m \notin scheduled)
  BY <1>1, <1>2 DEF PacketInv
<1>6. knows = (info[m] \/ m \notin scheduled)
  BY <1>3, <1>4, <1>5
<1>7. over => knows /\ rcvd = Size[m]
  BY DEF Over
<1>8. rcvd = up[m] + p.bytes
  BY <1>4
<1> HIDE DEF m, knows, rcvd, over
<1>9. QueueInv' /\ ActiveInv' /\ ReplyInv'
  <2>1. ~Fresh(m)
    BY DEF Fresh, m
  <2>2. \A k \in Msgs : k # m => info'[k] = info[k]
    BY <1>1, <1>3
  <2>3. \A r \in net' : r \in net
    BY <1>1
  <2> QED
    BY <1>1, <1>3, <2>1, <2>2, <2>3, ReceiverFrame
<1>10. PacketInv'
  <2>1. ASSUME NEW r \in net' PROVE r \in net /\ r.msg \in Msgs
    BY <1>1, <1>2, <2>1, PacketTypes
  <2>2. ASSUME NEW r \in net', r.kind = "GRANT_REQ"
        PROVE  r = GrantReqPkt(r.msg) /\ r.msg \in scheduled' /\ ~info'[r.msg]
    <3>1. r = GrantReqPkt(r.msg) /\ r.msg \in scheduled /\ ~info[r.msg]
      BY <1>2, <2>1, <2>2 DEF PacketInv
    <3>2. info'[r.msg] = info[r.msg]
      BY <1>1, <1>3, <1>6, <2>1, <3>1
    <3> QED
      BY <1>1, <3>1, <3>2
  <2>3. ASSUME NEW r \in net', r.kind = "GRANT"
        PROVE  info'[r.msg] /\ r.seq <= grantSeq'[r.msg]
    <3>1. info[r.msg] /\ r.seq <= grantSeq[r.msg]
      BY <1>2, <2>1, <2>3 DEF PacketInv
    <3>2. info'[r.msg]
      BY <1>1, <1>3, <1>6, <2>1, <3>1
    <3>3. grantSeq'[r.msg] = grantSeq[r.msg]
      <4>1. r.msg = m => GrantSeqSoFar(m) = grantSeq[m]
        BY <1>4, <3>1 DEF GrantSeqSoFar
      <4> QED
        BY <1>1, <1>3, <2>1, <4>1
    <3> QED
      BY <3>1, <3>2, <3>3
  <2> QED
    BY <1>1, <1>2, <2>1, <2>2, <2>3 DEF PacketInv
<1>11. ReceiverInv'
  <2>1. up'[m] = rcvd /\ received'[m] = rcvd /\ info'[m] = knows
    BY <1>1, <1>3, <1>8 DEF HandUp, m
  <2>2. \A k \in Msgs : k # m =>
          /\ up'[k] = up[k] /\ received'[k] = received[k] /\ info'[k] = info[k]
          /\ k \in inbound' <=> k \in inbound
    BY <1>1, <1>3 DEF HandUp, m
  <2>3. inbound \subseteq Msgs /\ inbound' \subseteq Msgs
    BY <1>1, <1>2, <1>3 DEF TypeOK
  <2>4. m \in inbound' \/ (info'[m] /\ up'[m] = Size[m])
    BY <1>1, <1>7, <2>1
  <2>5. \A k \in inbound' \ Replies : received'[k] = up'[k]
    BY <1>2, <2>1, <2>2, <2>3 DEF ReceiverInv
  <2>6. \A k \in Msgs \ (inbound' \cup Replies) : up'[k] = IF info'[k] THEN Size[k] ELSE 0
    BY <1>2, <2>2, <2>4 DEF ReceiverInv
  <2>7. \A k \in Replies : received'[k] = 0 /\ (info'[k] => k \in inbound')
    BY <1>1, <1>2, <2>2, SetsAssumption DEF ReceiverInv
  <2> QED
    BY <2>5, <2>6, <2>7 DEF ReceiverInv
<1>12. PayloadConserved'
  BY <1>1, <1>2, HandUpConserves
<1>13. TypeOK'
  BY <1>2, ReceiveTypeOK DEF Receive
<1> QED
  BY <1>9, <1>10, <1>11, <1>12, <1>13 DEF IInv

\* The packet a sender sends for m is its next one: it is not in flight already.
LEMMA SentPacket ==
  ASSUME IInv, NEW s \in Senders, NEW m \in active[s],
         NEW payload, payload = NextPayload(unsent[m])
  PROVE  /\ m \in Msgs /\ Src[m] = s /\ ~Fresh(m)
         /\ payload \in Nat /\ 0 < payload /\ payload <= unsent[m]
         /\ m \in Replies => payload = unsent[m]
         /\ DataPkt(m, payload) \in Packet
         /\ DataPkt(m, payload) \notin net
<1>1. TypeOK /\ ActiveInv /\ PacketInv /\ ReplyInv
  BY DEF IInv
<1>2. m \in Msgs /\ Src[m] = s /\ unsent[m] > 0
  BY <1>1 DEF TypeOK, ActiveInv
<1>3. /\ unsent[m] \in Nat /\ Size[m] \in Nat /\ unsent[m] <= Size[m]
      /\ MaxPayload \in Nat /\ MaxPayload > 0
  BY <1>1, <1>2, SizeType, FramesAssumption DEF TypeOK
<1>4. payload \in Nat /\ 0 < payload /\ payload <= unsent[m]
  BY <1>2, <1>3 DEF NextPayload, Smaller
<1>5. m \in Replies => payload = unsent[m]
  <2>1. m \in Replies => unsent[m] = Size[m] /\ Size[m] < MaxPayload
    BY <1>1, <1>2, SetsAssumption DEF ReplyInv
  <2> QED
    BY <1>3, <2>1 DEF NextPayload, Smaller
<1>6. DataPkt(m, payload) \in Packet
  BY <1>1, <1>2, <1>4, DataPktType
<1>7. DataPkt(m, payload) \notin net
  <2>1. /\ DataPkt(m, payload).kind = "DATA" /\ DataPkt(m, payload).msg = m
        /\ m \notin Replies => DataPkt(m, payload).seq = Size[m] - unsent[m] + payload
    BY DEF DataPkt
  <2>2. \A p \in net : p.kind = "DATA" /\ p.msg = m =>
          m \notin Replies /\ p.seq <= Size[m] - unsent[m]
    BY <1>1, <1>2 DEF PacketInv
  <2> QED
    BY <1>3, <1>4, <2>1, <2>2
<1> QED
  BY <1>2, <1>4, <1>5, <1>6, <1>7 DEF Fresh

\* The next packet of a message goes out.
LEMMA SendPacketIInv ==
  ASSUME IInv, NEW s \in Senders, SendPacket(s)
  PROVE  IInv'
<1> PICK m \in Choice(s) :
      LET payload == NextPayload(unsent[m]) IN
      /\ net' = net \cup {DataPkt(m, payload)}
      /\ unsent' = [unsent EXCEPT ![m] = unsent[m] - payload]
      /\ active' = [active EXCEPT ![s] = IF unsent[m] = payload THEN active[s] \ {m}
                                                                ELSE active[s]]
  BY DEF SendPacket
<1> DEFINE payload == NextPayload(unsent[m])
           d == DataPkt(m, payload)
<1>1. /\ net' = net \cup {d}
      /\ unsent' = [unsent EXCEPT ![m] = unsent[m] - payload]
      /\ active' = [active EXCEPT ![s] = IF unsent[m] = payload THEN active[s] \ {m}
                                                                ELSE active[s]]
      /\ UNCHANGED <<created, inactive, scheduled, selfAlloc, inbound, info, received,
                     grantSeq, up>>
  BY DEF SendPacket, receiverVars, inboundVars
<1>2. TypeOK /\ QueueInv /\ ActiveInv /\ PacketInv /\ ReceiverInv /\ ReplyInv
      /\ PayloadConserved
  BY DEF IInv
<1>3. m \in active[s]
  BY <1>2, ChoiceFits
<1>4. payload = NextPayload(unsent[m])
  OBVIOUS
<1>5. /\ d.kind = "DATA" /\ d.msg = m /\ d.bytes = payload
      /\ m \notin Replies => d.seq = Size[m] - unsent[m] + payload
      /\ d.creditReq = (m \notin scheduled)
      /\ d.creditReq => d.unsol = selfAlloc[m]
  BY DEF DataPkt
<1> HIDE DEF payload
<1>6. /\ m \in Msgs /\ Src[m] = s /\ ~Fresh(m)
      /\ payload \in Nat /\ 0 < payload /\ payload <= unsent[m]
      /\ m \in Replies => payload = unsent[m]
      /\ d \in Packet /\ d \notin net
  BY <1>3, <1>4, SentPacket
<1> HIDE DEF d
<1>7. /\ unsent \in [Msgs -> Nat] /\ active \in [Senders -> SUBSET Msgs]
      /\ net \in SUBSET Packet /\ IsFiniteSet(net)
      /\ \A k \in Msgs : Size[k] \in Nat /\ unsent[k] <= Size[k]
  BY <1>2, SizeType DEF TypeOK
<1>8. /\ unsent'[m] = unsent[m] - payload /\ unsent'[m] \in Nat
      /\ \A k \in Msgs : k # m => unsent'[k] = unsent[k]
      /\ \A k \in Msgs : unsent'[k] <= unsent[k] /\ unsent'[k] \in Nat
  BY <1>1, <1>6, <1>7
<1>9. \A r \in Senders : active'[r] \subseteq active[r]
  BY <1>1, <1>7
<1>10. m \in active'[s] => unsent'[m] > 0 /\ unsent[m] # payload
  BY <1>1, <1>6, <1>7, <1>8
<1>11. QueueInv'
  <2>1. ASSUME NEW k \in Msgs, Fresh(k) PROVE Fresh(k)'
    <3>1. k # m
      BY <1>6, <2>1
    <3>2. \A p \in net' : p.msg # k
      BY <1>1, <1>5, <2>1, <3>1 DEF Fresh
    <3>3. k \notin active'[Src[k]]
      BY <1>9, <2>1, SizeType DEF Fresh
    <3> QED
      BY <1>1, <1>8, <2>1, <3>1, <3>2, <3>3 DEF Fresh
  <2> QED
    BY <1>1, <1>2, <2>1, QueueFrame
<1>12. ActiveInv'
  <2>1. ASSUME NEW r \in Senders, NEW k \in active'[r] PROVE Src[k] = r /\ unsent'[k] > 0
    <3>1. k \in active[r] /\ k \in Msgs
      BY <1>7, <1>9
    <3>2. Src[k] = r /\ unsent[k] > 0
      BY <1>2, <3>1 DEF ActiveInv
    <3> QED
      BY <1>6, <1>8, <1>10, <3>1, <3>2
  <2> QED
    BY <1>1, <1>2, <2>1 DEF ActiveInv
<1>13. PacketInv'
  <2>1. ASSUME NEW p \in net, p.kind = "DATA"
        PROVE  /\ p.msg \notin Replies => p.seq <= Size[p.msg] - unsent'[p.msg]
               /\ p.msg \in Replies => unsent'[p.msg] = 0
    <3>1. p.msg \in Msgs /\ p.seq \in Nat
      BY <1>2, PacketTypes
    <3>2. /\ p.msg \notin Replies => p.seq <= Size[p.msg] - unsent[p.msg]
          /\ p.msg \in Replies => unsent[p.msg] = 0
      BY <1>2, <2>1 DEF PacketInv
    <3>3. unsent'[p.msg] <= unsent[p.msg] /\ unsent'[p.msg] \in Nat
          /\ unsent[p.msg] \in Nat /\ Size[p.msg] \in Nat
      BY <1>7, <1>8, <3>1
    <3> QED
      BY <3>1, <3>2, <3>3
  <2>2. /\ m \notin Replies => d.seq <= Size[m] - unsent'[m]
        /\ m \in Replies => unsent'[m] = 0
    <3>1. unsent[m] \in Nat /\ Size[m] \in Nat
      BY <1>6, <1>7
    <3> QED
      BY <1>5, <1>6, <1>8, <3>1
  <2>3. ASSUME NEW p \in net
        PROVE  /\ p.kind = "GRANT_REQ" =>
                    p = GrantReqPkt(p.msg) /\ p.msg \in scheduled' /\ ~info'[p.msg]
               /\ p.kind = "GRANT" => info'[p.msg] /\ p.seq <= grantSeq'[p.msg]
               /\ p.kind = "DATA" =>
                    /\ p.bytes > 0
                    /\ p.creditReq = (p.msg \notin scheduled')
                    /\ p.creditReq => p.unsol = selfAlloc'[p.msg]
    BY <1>1, <1>2 DEF PacketInv
  <2>4. /\ d.kind = "DATA" /\ d.bytes > 0 /\ d.msg = m
        /\ d.creditReq = (d.msg \notin scheduled')
        /\ d.creditReq => d.unsol = selfAlloc'[d.msg]
    BY <1>1, <1>5, <1>6
  <2> QED
    BY <1>1, <2>1, <2>2, <2>3, <2>4 DEF PacketInv
<1>14. ReceiverInv'
  BY <1>1, <1>2 DEF ReceiverInv
<1>15. ReplyInv'
  <2>1. ASSUME NEW k \in Replies, k \in active'[Src[k]]
        PROVE  unsent'[k] = Size[k] /\ (Unsolicited(k) => selfAlloc'[k] = Wire(Size[k]))
    <3>1. k \in Msgs /\ k \in active[Src[k]]
      BY <1>9, <2>1, SizeType, SetsAssumption
    <3>2. k # m
      BY <1>6, <1>10, <2>1
    <3> QED
      BY <1>1, <1>2, <1>8, <3>1, <3>2 DEF ReplyInv
  <2> QED
    BY <1>1, <2>1 DEF ReplyInv
<1>16. PayloadConserved'
  <2> SUFFICES ASSUME NEW k \in Msgs
               PROVE  up'[k] + Total(PayloadOf(k), net') + unsent'[k] = Size[k]
    BY DEF PayloadConserved
  <2>1. /\ up[k] + Total(PayloadOf(k), net) + unsent[k] = Size[k]
        /\ up'[k] = up[k] /\ up[k] \in Nat
    BY <1>1, <1>2 DEF PayloadConserved, TypeOK
  <2>2. net' \in SUBSET Packet
    BY <1>1, <1>6, <1>7
  <2>3. IsWeight(PayloadOf(k), net') /\ IsWeight(PayloadOf(k), net)
    BY <1>7, <2>2, PayloadWeight
  <2>4. /\ Total(PayloadOf(k), net') = Total(PayloadOf(k), net) + PayloadOf(k)[d]
        /\ Total(PayloadOf(k), net) \in Nat
    <3>1. IsFiniteSet(net) /\ d \notin net /\ net' = net \cup {d}
      BY <1>1, <1>6, <1>7
    <3>2. IsWeight(PayloadOf(k), net \cup {d})
      BY <2>3, <3>1
    <3>3. Total(PayloadOf(k), net \cup {d}) = Total(PayloadOf(k), net) + PayloadOf(k)[d]
      BY <3>1, <3>2, TotalAdd
    <3>4. Total(PayloadOf(k), net) \in Nat
      BY <2>3, <3>1, TotalNat
    <3> QED
      BY <3>1, <3>3, <3>4
  <2>5. PayloadOf(k)[d] = IF k = m THEN payload ELSE 0
    BY <1>5, <1>6 DEF PayloadOf
  <2>6. unsent[k] \in Nat /\ unsent'[k] = IF k = m THEN unsent[k] - payload ELSE unsent[k]
    BY <1>7, <1>8
  <2> QED
    BY <1>6, <2>1, <2>4, <2>5, <2>6
<1>17. TypeOK'
  BY <1>2, SendPacketTypeOK
<1> QED
  BY <1>11, <1>12, <1>13, <1>14, <1>15, <1>16, <1>17 DEF IInv
-----------------------------------------------------------------------------
(* The invariant, and what follows from it at once *)

LEMMA NextIInv == IInv /\ [Next]_vars => IInv'
<1> SUFFICES ASSUME IInv, [Next]_vars PROVE IInv'
  OBVIOUS
<1>1. ASSUME NEW p \in net, Receive(p) PROVE IInv'
  BY <1>1, ReceiveGrantIInv, ReceiveGrantReqIInv, ReceiveDataIInv, ReceiveReplyIInv
     DEF Receive
<1>2. CASE Next
  BY <1>1, <1>2, SubmitIInv, ActivateIInv, SendPacketIInv, GrantIInv, ReapIInv DEF Next
<1>3. CASE UNCHANGED vars
  <2>1. UNCHANGED <<created, inactive, active, unsent, announced, scheduled, selfAlloc,
                    selfAllocData, avail, inbound, info, received, granted, grantSeq,
                    budget, srpb, window, up, net>>
    BY <1>3 DEF vars, senderVars, receiverVars, inboundVars
  <2>2. TypeOK' /\ ActiveInv' /\ PacketInv' /\ ReceiverInv' /\ ReplyInv'
    BY <2>1 DEF IInv, TypeOK, ActiveInv, PacketInv, ReceiverInv, ReplyInv
  <2>3. QueueInv'
    BY <2>1 DEF IInv, QueueInv, Fresh
  <2>4. PayloadConserved'
    BY <2>1, PayloadFrame DEF IInv
  <2> QED
    BY <2>2, <2>3, <2>4 DEF IInv
<1> QED
  BY <1>2, <1>3

LEMMA Invariant == Spec => []IInv
  BY InitIInv, NextIInv, PTL DEF Spec

\* Every byte of every message is unsent, in flight or handed up, once: send_data
\* cuts a message into packets and received_data counts them without loss or
\* duplication, in whatever order they arrive.
THEOREM PayloadKept == Spec => []PayloadConserved
<1>1. IInv => PayloadConserved
  BY DEF IInv
<1> QED
  BY <1>1, Invariant, PTL

\* The receiver never opens a message again whose state it has deleted: only a
\* GRANT_REQ or a data packet opens one, and neither is in flight any more.
LEMMA NeverReopened ==
  ASSUME IInv, Next
  PROVE  \A m \in Msgs : m \notin inbound /\ info[m] => m \notin inbound'
<1> SUFFICES ASSUME NEW m \in Msgs, m \notin inbound, info[m] PROVE m \notin inbound'
  OBVIOUS
<1>1. ASSUME NEW p \in net, ReceiveGrantReq(p) PROVE m \notin inbound'
  <2>1. ~info[p.msg]
    BY <1>1 DEF ReceiveGrantReq, IInv, PacketInv
  <2> QED
    BY <1>1, <2>1 DEF ReceiveGrantReq
<1>2. ASSUME NEW p \in net, ReceiveData(p) PROVE m \notin inbound'
  <2>1. info[p.msg] => p.msg \in inbound
    BY <1>2, InFlightMeansOpen DEF ReceiveData
  <2>2. inbound' \subseteq inbound \cup {p.msg}
    BY <1>2 DEF ReceiveData
  <2> QED
    BY <2>1, <2>2
<1>3. ASSUME NEW p \in net, ReceiveGrant(p) \/ ReceiveReply(p) PROVE m \notin inbound'
  BY <1>3 DEF ReceiveGrant, ReceiveReply, receiverVars, inboundVars
<1>4. ASSUME NEW k \in Msgs, Submit(k) \/ Grant(k) \/ Reap(k) PROVE m \notin inbound'
  BY <1>4 DEF Submit, Grant, Reap, receiverVars, inboundVars
<1>5. ASSUME NEW s \in Senders, Activate(s) \/ SendPacket(s) PROVE m \notin inbound'
  BY <1>5 DEF Activate, SendPacket, receiverVars, inboundVars
<1> QED
  BY <1>1, <1>2, <1>3, <1>4, <1>5 DEF Next, Receive

\* A message whose state was deleted never comes back (the double condition for the
\* deletion, in received_data and in the polling of the receiver).
THEOREM NoStateRevived == Spec => NoRevival
<1>1. IInv /\ [Next]_vars => [\A m \in Msgs : m \notin inbound /\ info[m] => m \notin inbound']_vars
  BY NeverReopened
<1> QED
  BY <1>1, Invariant, PTL DEF Spec, NoRevival
-----------------------------------------------------------------------------
(* Conservation of credit *)

\* The credit of sender s balances.
Balance(s) ==
  srpb[s] + avail[s] + Total(Load(s), net) = MaxSrpb + Total(Unaccounted(s), Msgs)

\* A packet brings its load and takes it along.
LEMMA LoadAdd ==
  ASSUME TypeOK, NEW s \in Senders, NEW p \in Packet, p \notin net, net' = net \cup {p}
  PROVE  Total(Load(s), net') = Total(Load(s), net) + Load(s)[p]
<1>1. IsFiniteSet(net) /\ net' \in SUBSET Packet
  BY DEF TypeOK
<1>2. IsWeight(Load(s), net \cup {p})
  BY <1>1, LoadWeight
<1> QED
  BY <1>1, <1>2, TotalAdd

LEMMA LoadRemove ==
  ASSUME TypeOK, NEW s \in Senders, NEW p \in net, net' = net \ {p}
  PROVE  Total(Load(s), net') = Total(Load(s), net) - Load(s)[p]
<1>1. IsFiniteSet(net) /\ net \in SUBSET Packet
  BY DEF TypeOK
<1>2. IsWeight(Load(s), net)
  BY <1>1, LoadWeight
<1> QED
  BY <1>1, <1>2, RemoveWeighed

\* The unaccounted credit changes by that of the message whose entry changes.
LEMMA UnaccountedChange ==
  ASSUME TypeOK, TypeOK', NEW s \in Senders, NEW m \in Msgs,
         \A k \in Msgs : k # m => Unaccounted(s)'[k] = Unaccounted(s)[k]
  PROVE  Total(Unaccounted(s)', Msgs)
           = Total(Unaccounted(s), Msgs) - Unaccounted(s)[m] + Unaccounted(s)'[m]
<1>1. IsWeight(Unaccounted(s), Msgs)
  BY UnaccountedWeight
<1>2. IsWeight(Unaccounted(s)', Msgs)
  <2>1. ASSUME NEW k \in Msgs PROVE Unaccounted(s)'[k] \in Nat
    <3>1. selfAlloc'[k] \in Nat
      BY DEF TypeOK
    <3> QED
      BY <3>1 DEF Unaccounted
  <2> QED
    BY <2>1 DEF IsWeight
<1>3. IsFiniteSet(Msgs)
  BY SetsAssumption
<1> QED
  BY <1>1, <1>2, <1>3, TotalChange

\* The terms of the balance are integers.
LEMMA BalanceTypes ==
  ASSUME TypeOK, NEW s \in Senders
  PROVE  /\ srpb[s] \in Int /\ avail[s] \in Int /\ MaxSrpb \in Int
         /\ Total(Load(s), net) \in Int /\ Total(Unaccounted(s), Msgs) \in Int
         /\ \A m \in Msgs : Unaccounted(s)[m] \in Int
         /\ \A p \in Packet : Load(s)[p] \in Int
<1>1. net \in SUBSET Packet /\ IsFiniteSet(net) /\ IsFiniteSet(Msgs)
  BY SetsAssumption DEF TypeOK
<1>2. /\ IsWeight(Load(s), net) /\ IsWeight(Load(s), Packet)
      /\ IsWeight(Unaccounted(s), Msgs)
  BY <1>1, LoadWeight, UnaccountedWeight
<1>3. Total(Load(s), net) \in Nat
  BY <1>1, <1>2, TotalNat
<1>4. Total(Unaccounted(s), Msgs) \in Nat
  BY <1>1, <1>2, TotalNat
<1>5. srpb[s] \in Int /\ avail[s] \in Int /\ MaxSrpb \in Int
  BY FramesAssumption DEF TypeOK
<1> QED
  BY <1>2, <1>3, <1>4, <1>5 DEF IsWeight

\* A step that only changes the entry of one message in Unaccounted, and moves
\* what the other terms gain or lose, keeps the balance.
LEMMA BalanceStep ==
  ASSUME TypeOK, TypeOK', NEW s \in Senders, NEW m \in Msgs, Balance(s),
         \A k \in Msgs : k # m => Unaccounted(s)'[k] = Unaccounted(s)[k],
         NEW a \in Int, NEW b \in Int, NEW c \in Int,
         srpb'[s] = srpb[s] + a, avail'[s] = avail[s] + b,
         Total(Load(s), net') = Total(Load(s), net) + c,
         Unaccounted(s)'[m] = Unaccounted(s)[m] + (a + b + c)
  PROVE  Balance(s)'
<1>1. Total(Unaccounted(s)', Msgs) = Total(Unaccounted(s), Msgs) + (a + b + c)
  <2>1. Total(Unaccounted(s)', Msgs)
          = Total(Unaccounted(s), Msgs) - Unaccounted(s)[m] + Unaccounted(s)'[m]
    BY UnaccountedChange
  <2> QED
    BY <2>1, BalanceTypes
<1>2. srpb[s] + avail[s] + Total(Load(s), net) = MaxSrpb + Total(Unaccounted(s), Msgs)
  BY DEF Balance
<1>3. srpb'[s] + avail'[s] + Total(Load(s), net') = MaxSrpb + Total(Unaccounted(s)', Msgs)
  BY <1>1, <1>2, BalanceTypes
<1> QED
  BY <1>3 DEF Balance

-----------------------------------------------------------------------------
(* No step disturbs the balance *)

\* A step that touches no credit, or only puts on the way or takes off it a packet
\* that bears none.
LEMMA BalanceFrame ==
  ASSUME TypeOK, NEW s \in Senders, Balance(s),
         srpb'[s] = srpb[s], avail'[s] = avail[s],
         \A k \in Msgs : Unaccounted(s)'[k] = Unaccounted(s)[k],
         \/ net' = net
         \/ \E p \in Packet : Load(s)[p] = 0 /\ net' = net \cup {p}
         \/ \E p \in net : Load(s)[p] = 0 /\ net' = net \ {p}
  PROVE  Balance(s)'
<1>1. Total(Unaccounted(s)', Msgs) = Total(Unaccounted(s), Msgs)
  BY TotalSame
<1>2. net \in SUBSET Packet /\ IsFiniteSet(net) /\ IsWeight(Load(s), net)
  BY LoadWeight DEF TypeOK
<1>3. Total(Load(s), net') = Total(Load(s), net)
  <2>1. ASSUME NEW p \in Packet, Load(s)[p] = 0, net' = net \cup {p}
        PROVE  Total(Load(s), net') = Total(Load(s), net)
    BY <1>2, <2>1, AddWeightless
  <2>2. ASSUME NEW p \in net, Load(s)[p] = 0, net' = net \ {p}
        PROVE  Total(Load(s), net') = Total(Load(s), net)
    <3>1. Total(Load(s), net') = Total(Load(s), net) - Load(s)[p]
      BY <2>2, LoadRemove
    <3> QED
      BY <2>2, <3>1, BalanceTypes
  <2> QED
    BY <2>1, <2>2
<1> QED
  BY <1>1, <1>3 DEF Balance

\* What Unaccounted looks at.
LEMMA UnaccountedSame ==
  ASSUME NEW s \in Senders, NEW k \in Msgs,
         unsent'[k] = unsent[k], info'[k] = info[k], selfAlloc'[k] = selfAlloc[k]
  PROVE  Unaccounted(s)'[k] = Unaccounted(s)[k]
  BY DEF Unaccounted

LEMMA SubmitReapBalance ==
  ASSUME IInv, NEW m \in Msgs, Submit(m) \/ Reap(m), NEW s \in Senders, Balance(s)
  PROVE  Balance(s)'
<1>1. UNCHANGED <<unsent, selfAlloc, info, srpb, avail, net>>
  BY DEF Submit, Reap, senderVars, receiverVars, inboundVars
<1>2. \A k \in Msgs : Unaccounted(s)'[k] = Unaccounted(s)[k]
  BY <1>1, UnaccountedSame
<1> QED
  BY <1>1, <1>2, BalanceFrame DEF IInv

\* Credit moves from the bucket to the grant.
LEMMA GrantBalance ==
  ASSUME IInv, NEW m \in Msgs, Grant(m), NEW s \in Senders, Balance(s)
  PROVE  Balance(s)'
<1> DEFINE need == Wire(GrantData(m))
           p == GrantPkt(m, grantSeq[m] + GrantData(m), need)
<1>1. TypeOK /\ TypeOK'
  BY GrantTypeOK DEF IInv
<1>2. /\ granted[m] < Size[m] /\ net' = net \cup {p}
      /\ srpb' = [srpb EXCEPT ![Src[m]] = srpb[Src[m]] - need]
      /\ UNCHANGED <<unsent, selfAlloc, info, avail>>
  BY DEF Grant, senderVars
<1>3. /\ grantSeq[m] \in Nat /\ granted[m] \in Nat /\ Size[m] \in Nat
      /\ MaxPayload \in Nat /\ MaxPayload > 0 /\ srpb \in [Senders -> Int]
      /\ net \subseteq Packet
  <2>1. /\ grantSeq[m] \in Nat /\ granted[m] \in Nat /\ srpb \in [Senders -> Int]
        /\ net \subseteq Packet
    BY <1>1 DEF TypeOK
  <2> QED
    BY <2>1, SizeType, FramesAssumption
<1>4. GrantData(m) \in Nat /\ GrantData(m) > 0
  BY <1>2, <1>3 DEF GrantData, NextPayload, Smaller
<1>5. need \in Nat
  BY <1>4, WireType
<1>6. /\ p.kind = "GRANT" /\ p.msg = m /\ p.bytes = need
      /\ p.seq = grantSeq[m] + GrantData(m) /\ p \in Packet
  BY <1>3, <1>4, <1>5 DEF GrantPkt, Packet
<1> HIDE DEF need, p
<1>7. p \notin net
  <2>1. p \in net => p.seq <= grantSeq[m]
    BY <1>6 DEF IInv, PacketInv
  <2> QED
    BY <1>3, <1>4, <1>6, <2>1
<1>8. \A k \in Msgs : Unaccounted(s)'[k] = Unaccounted(s)[k]
  BY <1>2, UnaccountedSame
<1>9. CASE Src[m] = s
  <2>1. Load(s)[p] = need
    BY <1>6, <1>9 DEF Load
  <2>2. Total(Load(s), net') = Total(Load(s), net) + need
    BY <1>1, <1>2, <1>6, <1>7, <2>1, LoadAdd
  <2>3. srpb'[s] = srpb[s] + (-need) /\ avail'[s] = avail[s] + 0
    BY <1>1, <1>2, <1>3, <1>5, <1>9, BalanceTypes
  <2>4. Unaccounted(s)'[m] = Unaccounted(s)[m] + ((-need) + 0 + need)
    BY <1>1, <1>5, <1>8, BalanceTypes
  <2>5. -need \in Int /\ 0 \in Int /\ need \in Int
    BY <1>5
  <2> QED
    BY <1>1, <1>8, <2>2, <2>3, <2>4, <2>5, BalanceStep
<1>10. CASE Src[m] # s
  <2>1. Load(s)[p] = 0
    BY <1>6, <1>10 DEF Load
  <2>2. srpb'[s] = srpb[s] /\ avail'[s] = avail[s]
    BY <1>2, <1>3, <1>10
  <2> QED
    BY <1>1, <1>2, <1>6, <1>8, <2>1, <2>2, BalanceFrame
<1> QED
  BY <1>9, <1>10

\* Credit moves from the grant to the pool.
LEMMA ReceiveGrantBalance ==
  ASSUME IInv, NEW p \in net, ReceiveGrant(p), NEW s \in Senders, Balance(s)
  PROVE  Balance(s)'
<1>1. TypeOK /\ TypeOK'
  BY ReceiveTypeOK DEF IInv, Receive
<1>2. /\ p.kind = "GRANT" /\ net' = net \ {p}
      /\ avail' = [avail EXCEPT ![Src[p.msg]] = avail[Src[p.msg]] + p.bytes]
      /\ UNCHANGED <<unsent, selfAlloc, info, srpb>>
  BY DEF ReceiveGrant, senderVars, receiverVars, inboundVars
<1>3. /\ p \in Packet /\ p.msg \in Msgs /\ p.bytes \in Nat /\ avail \in [Senders -> Nat]
  BY <1>1, PacketTypes DEF TypeOK
<1>4. \A k \in Msgs : Unaccounted(s)'[k] = Unaccounted(s)[k]
  BY <1>2, UnaccountedSame
<1>5. CASE Src[p.msg] = s
  <2>1. Load(s)[p] = p.bytes
    BY <1>2, <1>3, <1>5 DEF Load
  <2>2. Total(Load(s), net') = Total(Load(s), net) + (-p.bytes)
    <3>1. Total(Load(s), net') = Total(Load(s), net) - p.bytes
      BY <1>1, <1>2, <2>1, LoadRemove
    <3> QED
      BY <1>1, <1>3, <3>1, BalanceTypes
  <2>3. srpb'[s] = srpb[s] + 0 /\ avail'[s] = avail[s] + p.bytes
    BY <1>1, <1>2, <1>3, <1>5, BalanceTypes
  <2>4. Unaccounted(s)'[p.msg] = Unaccounted(s)[p.msg] + (0 + p.bytes + (-p.bytes))
    BY <1>1, <1>3, <1>4, BalanceTypes
  <2>5. -p.bytes \in Int /\ 0 \in Int /\ p.bytes \in Int
    BY <1>3
  <2> QED
    BY <1>1, <1>3, <1>4, <2>2, <2>3, <2>4, <2>5, BalanceStep
<1>6. CASE Src[p.msg] # s
  <2>1. Load(s)[p] = 0
    BY <1>3, <1>6 DEF Load
  <2>2. srpb'[s] = srpb[s] /\ avail'[s] = avail[s]
    BY <1>2, <1>3, <1>6
  <2> QED
    BY <1>1, <1>2, <1>4, <2>1, <2>2, BalanceFrame
<1> QED
  BY <1>5, <1>6

\* A scheduled message has no credit of its own to account for.
LEMMA ReceiveGrantReqBalance ==
  ASSUME IInv, NEW p \in net, ReceiveGrantReq(p), NEW s \in Senders, Balance(s)
  PROVE  Balance(s)'
<1>1. TypeOK /\ ActiveInv /\ PacketInv
  BY DEF IInv
<1>2. /\ p.kind = "GRANT_REQ" /\ net' = net \ {p}
      /\ info' = [info EXCEPT ![p.msg] = TRUE]
      /\ UNCHANGED <<unsent, selfAlloc, srpb, avail>>
  BY DEF ReceiveGrantReq, senderVars
<1>3. /\ p \in Packet /\ p.msg \in Msgs /\ p.msg \in scheduled
      /\ info \in [Msgs -> BOOLEAN]
  BY <1>1, <1>2, PacketTypes DEF PacketInv, TypeOK
<1>4. ASSUME NEW k \in Msgs PROVE Unaccounted(s)'[k] = Unaccounted(s)[k]
  <2>1. CASE k = p.msg
    <3>1. selfAlloc[k] = 0 /\ selfAlloc'[k] = 0
      BY <1>1, <1>2, <1>3, <2>1 DEF ActiveInv
    <3> QED
      BY <3>1 DEF Unaccounted
  <2>2. CASE k # p.msg
    BY <1>2, <1>3, <2>2, UnaccountedSame
  <2> QED
    BY <2>1, <2>2
<1>5. Load(s)[p] = 0
  BY <1>2, <1>3 DEF Load
<1> QED
  BY <1>1, <1>2, <1>4, <1>5, BalanceFrame

LEMMA ReceiveReplyBalance ==
  ASSUME IInv, NEW p \in net, ReceiveReply(p), NEW s \in Senders, Balance(s)
  PROVE  Balance(s)'
<1>1. /\ p.kind = "DATA" /\ p.msg \in Replies /\ net' = net \ {p}
      /\ UNCHANGED <<unsent, selfAlloc, info, srpb, avail>>
  BY DEF ReceiveReply, senderVars, inboundVars
<1>2. \A k \in Msgs : Unaccounted(s)'[k] = Unaccounted(s)[k]
  BY <1>1, UnaccountedSame
<1>3. Load(s)[p] = 0
  BY <1>1, PacketTypes DEF Load, IInv
<1> QED
  BY <1>1, <1>2, <1>3, BalanceFrame DEF IInv

\* Credit moves from the packet to the bucket, which pays once for self-allocated credit.
LEMMA ReceiveDataBalance ==
  ASSUME IInv, NEW p \in net, ReceiveData(p), NEW s \in Senders, Balance(s)
  PROVE  Balance(s)'
<1> DEFINE m      == p.msg
           learns == p.creditReq /\ ~Informed(m)
           charge == IF learns THEN p.unsol ELSE 0
           cost   == Wire(p.bytes)
<1>1. TypeOK /\ TypeOK' /\ ActiveInv /\ PacketInv
  BY ReceiveTypeOK DEF IInv, Receive
<1>2. /\ p.kind = "DATA" /\ m \notin Replies /\ net' = net \ {p}
      /\ info' = [info EXCEPT ![m] = learns \/ Informed(m)]
      /\ srpb' = [srpb EXCEPT ![Src[m]] = srpb[Src[m]] - charge + cost]
      /\ UNCHANGED <<unsent, selfAlloc, avail>>
  BY DEF ReceiveData, Settle, senderVars
<1>3. /\ p \in Packet /\ m \in Msgs /\ p.bytes \in Nat /\ p.unsol \in Nat
      /\ p.creditReq \in BOOLEAN
  BY <1>1, PacketTypes
<1>4. info \in [Msgs -> BOOLEAN] /\ srpb \in [Senders -> Int] /\ selfAlloc[m] \in Nat
  BY <1>1, <1>3 DEF TypeOK
<1>5. Informed(m) = info[m]
  BY <1>2, InFlightMeansOpen
<1>6. charge \in Nat /\ cost \in Nat
  BY <1>3, WireType
<1>7. learns = (p.creditReq /\ ~info[m])
  BY <1>5
<1>8. info'[m] = (info[m] \/ p.creditReq)
  BY <1>2, <1>3, <1>4, <1>5
<1>9. p.creditReq = (m \notin scheduled) /\ (p.creditReq => p.unsol = selfAlloc[m])
  BY <1>1, <1>2 DEF PacketInv
<1>10. m \in scheduled => selfAlloc[m] = 0
  BY <1>1 DEF ActiveInv
<1>11. charge = IF ~info[m] /\ info'[m] THEN selfAlloc[m] ELSE 0
  BY <1>4, <1>7, <1>8, <1>9
<1> HIDE DEF m, learns, charge, cost
<1>12. \A k \in Msgs : k # m => Unaccounted(s)'[k] = Unaccounted(s)[k]
  BY <1>2, <1>4, UnaccountedSame
<1>13. CASE Src[m] = s
  <2>1. Unaccounted(s)[m] = IF info[m] THEN 0 ELSE selfAlloc[m]
    BY <1>2, <1>3, <1>13 DEF Unaccounted
  <2>2. Unaccounted(s)'[m] = IF info'[m] THEN 0 ELSE selfAlloc[m]
    <3>1. Unaccounted(s)'[m] = IF ~info'[m] THEN selfAlloc'[m] ELSE 0
      BY <1>2, <1>3, <1>13, Zenon DEF Unaccounted
    <3> QED
      BY <1>2, <3>1
  <2>3. Unaccounted(s)'[m] = Unaccounted(s)[m] - charge
    <3>1. info[m] => info'[m]
      BY <1>8
    <3> QED
      BY <1>4, <1>11, <2>1, <2>2, <3>1
  <2>4. Load(s)[p] = cost
    BY <1>2, <1>3, <1>13 DEF Load, m, cost
  <2>5. Total(Load(s), net') = Total(Load(s), net) + (-cost)
    <3>1. Total(Load(s), net') = Total(Load(s), net) - cost
      BY <1>1, <1>2, <2>4, LoadRemove
    <3> QED
      BY <1>1, <1>6, <3>1, BalanceTypes
  <2>6. srpb'[s] = srpb[s] + (cost - charge) /\ avail'[s] = avail[s] + 0
    BY <1>1, <1>2, <1>4, <1>6, <1>13, BalanceTypes
  <2>7. Unaccounted(s)'[m] = Unaccounted(s)[m] + ((cost - charge) + 0 + (-cost))
    <3>1. Unaccounted(s)[m] \in Int
      BY <1>1, <1>3, BalanceTypes
    <3> QED
      BY <1>6, <2>3, <3>1
  <2>8. cost - charge \in Int /\ 0 \in Int /\ -cost \in Int
    BY <1>6
  <2> QED
    BY <1>1, <1>3, <1>12, <2>5, <2>6, <2>7, <2>8, BalanceStep
<1>14. CASE Src[m] # s
  <2>1. Unaccounted(s)'[m] = 0 /\ Unaccounted(s)[m] = 0
    BY <1>3, <1>14 DEF Unaccounted
  <2>2. Load(s)[p] = 0
    BY <1>3, <1>14 DEF Load, m
  <2>3. srpb'[s] = srpb[s] /\ avail'[s] = avail[s]
    BY <1>2, <1>4, <1>14
  <2>4. \A k \in Msgs : Unaccounted(s)'[k] = Unaccounted(s)[k]
    BY <1>12, <2>1
  <2> QED
    BY <1>1, <1>2, <2>2, <2>3, <2>4, BalanceFrame
<1> QED
  BY <1>13, <1>14

\* Self-allocated credit enters the pool unaccounted for.
LEMMA ActivateBalance ==
  ASSUME IInv, NEW r \in Senders, Activate(r), NEW s \in Senders, Balance(s)
  PROVE  Balance(s)'
<1> DEFINE m == Head(inactive[r])
           credit == SelfCredit(Size[m], avail[r])
<1>1. TypeOK /\ TypeOK' /\ QueueInv
  BY ActivateTypeOK DEF IInv
<1>2. /\ inactive[r] \in Seq(Msgs) /\ m \in Msgs
      /\ 1 \in DOMAIN inactive[r] /\ inactive[r][1] = m
  BY <1>1 DEF Activate, TypeOK
<1>3. Src[m] = r /\ Fresh(m)
  BY <1>1, <1>2 DEF QueueInv
<1>4. /\ unsent[m] = Size[m] /\ Size[m] > 0 /\ selfAlloc[m] = 0 /\ ~info[m]
      /\ selfAlloc \in [Msgs -> Nat] /\ avail \in [Senders -> Nat]
  BY <1>1, <1>2, <1>3, SizeType DEF Fresh, TypeOK
<1>5. UNCHANGED <<unsent, info, srpb>>
  BY DEF Activate, receiverVars, inboundVars
<1>6. credit \in Nat
  BY <1>2, <1>4, SelfCreditType
<1>7. CASE Unsolicited(m)
  <2>1. /\ selfAlloc' = [selfAlloc EXCEPT ![m] = credit]
        /\ avail' = [avail EXCEPT ![r] = avail[r] + credit] /\ net' = net
    BY <1>7 DEF Activate
  <2> HIDE DEF m, credit
  <2>2. \A k \in Msgs : k # m => Unaccounted(s)'[k] = Unaccounted(s)[k]
    BY <1>4, <1>5, <2>1, UnaccountedSame
  <2>3. CASE r = s
    <3>1. Unaccounted(s)[m] = 0
      BY <1>2, <1>4 DEF Unaccounted
    <3>2. Unaccounted(s)'[m] = credit
      <4>1. selfAlloc'[m] = credit /\ unsent'[m] > 0 /\ ~info'[m]
        BY <1>2, <1>4, <1>5, <2>1
      <4> QED
        BY <1>2, <1>3, <2>3, <4>1 DEF Unaccounted
    <3>3. /\ srpb'[s] = srpb[s] + 0 /\ avail'[s] = avail[s] + credit
          /\ Total(Load(s), net') = Total(Load(s), net) + 0
      BY <1>1, <1>4, <1>5, <2>1, <2>3, BalanceTypes
    <3>4. Unaccounted(s)'[m] = Unaccounted(s)[m] + (0 + credit + 0)
      BY <1>6, <3>1, <3>2
    <3>5. 0 \in Int /\ credit \in Int
      BY <1>6
    <3> QED
      BY <1>1, <1>2, <2>2, <3>3, <3>4, <3>5, BalanceStep
  <2>4. CASE r # s
    <3>1. Unaccounted(s)'[m] = 0 /\ Unaccounted(s)[m] = 0
      BY <1>2, <1>3, <2>4 DEF Unaccounted
    <3>2. avail'[s] = avail[s] /\ srpb'[s] = srpb[s]
      BY <1>4, <1>5, <2>1, <2>4
    <3>3. \A k \in Msgs : Unaccounted(s)'[k] = Unaccounted(s)[k]
      BY <2>2, <3>1
    <3> QED
      BY <1>1, <2>1, <3>2, <3>3, BalanceFrame
  <2> QED
    BY <2>3, <2>4
<1>8. CASE ~Unsolicited(m)
  <2>1. net' = net \cup {GrantReqPkt(m)} /\ UNCHANGED <<selfAlloc, avail>>
    BY <1>8 DEF Activate
  <2>2. GrantReqPkt(m) \in Packet /\ Load(s)[GrantReqPkt(m)] = 0
    BY <1>2 DEF GrantReqPkt, Packet, Load
  <2> HIDE DEF m
  <2>3. \A k \in Msgs : Unaccounted(s)'[k] = Unaccounted(s)[k]
    BY <1>5, <2>1, UnaccountedSame
  <2> QED
    BY <1>1, <1>5, <2>1, <2>2, <2>3, BalanceFrame
<1> QED
  BY <1>7, <1>8

\* Credit moves from the pool to the packet, or a reply uses up its own.
LEMMA SendPacketBalance ==
  ASSUME IInv, RepliesUnsolicited, NEW r \in Senders, SendPacket(r),
         NEW s \in Senders, Balance(s)
  PROVE  Balance(s)'
<1> PICK m \in Choice(r) :
      LET payload == NextPayload(unsent[m]) IN
      /\ net' = net \cup {DataPkt(m, payload)}
      /\ unsent' = [unsent EXCEPT ![m] = unsent[m] - payload]
      /\ avail' = [avail EXCEPT ![r] = avail[r] - Wire(payload)]
  BY DEF SendPacket
<1> DEFINE payload == NextPayload(unsent[m])
           d == DataPkt(m, payload)
           cost == Wire(payload)
<1>1. /\ net' = net \cup {d}
      /\ unsent' = [unsent EXCEPT ![m] = unsent[m] - payload]
      /\ avail' = [avail EXCEPT ![r] = avail[r] - cost]
      /\ UNCHANGED <<selfAlloc, info, srpb>>
  BY DEF SendPacket, receiverVars, inboundVars
<1>2. TypeOK /\ TypeOK' /\ ReplyInv
  BY SendPacketTypeOK DEF IInv
<1>3. m \in active[r]
  BY <1>2, ChoiceFits
<1>4. payload = NextPayload(unsent[m]) /\ d = DataPkt(m, payload)
  OBVIOUS
<1>5. d.kind = "DATA" /\ d.msg = m /\ d.bytes = payload
  BY DEF DataPkt
<1> HIDE DEF payload, d
<1>6. /\ m \in Msgs /\ Src[m] = r
      /\ payload \in Nat /\ 0 < payload /\ payload <= unsent[m]
      /\ m \in Replies => payload = unsent[m]
      /\ d \in Packet /\ d \notin net
  BY <1>3, <1>4, SentPacket
<1>7. cost \in Nat
  BY <1>6, WireType
<1>8. /\ unsent \in [Msgs -> Nat] /\ avail \in [Senders -> Nat]
      /\ selfAlloc[m] \in Nat
  BY <1>2, <1>6 DEF TypeOK
<1>9. m \in Replies => selfAlloc[m] = cost
  <2>1. ASSUME m \in Replies PROVE selfAlloc[m] = cost
    <3>1. unsent[m] = Size[m] /\ selfAlloc[m] = Wire(Size[m])
      BY <1>2, <1>3, <1>6, <2>1 DEF ReplyInv, RepliesUnsolicited
    <3> QED
      BY <1>6, <2>1, <3>1
  <2> QED
    BY <2>1
<1> HIDE DEF cost
<1>10. \A k \in Msgs : k # m => Unaccounted(s)'[k] = Unaccounted(s)[k]
  BY <1>1, <1>8, UnaccountedSame
<1>11. unsent'[m] = unsent[m] - payload
  BY <1>1, <1>6, <1>8
<1>12. CASE r # s
  <2>1. Unaccounted(s)'[m] = 0 /\ Unaccounted(s)[m] = 0
    BY <1>6, <1>12 DEF Unaccounted
  <2>2. Load(s)[d] = 0
    BY <1>5, <1>6, <1>12 DEF Load
  <2>3. srpb'[s] = srpb[s] /\ avail'[s] = avail[s]
    BY <1>1, <1>8, <1>12
  <2>4. \A k \in Msgs : Unaccounted(s)'[k] = Unaccounted(s)[k]
    BY <1>10, <2>1
  <2> QED
    BY <1>1, <1>2, <1>6, <2>2, <2>3, <2>4, BalanceFrame
<1>13. CASE r = s
  <2>1. srpb'[s] = srpb[s] + 0 /\ avail'[s] = avail[s] + (-cost)
    BY <1>1, <1>2, <1>7, <1>8, <1>13, BalanceTypes
  <2>2. Total(Load(s), net') = Total(Load(s), net) + Load(s)[d]
    BY <1>1, <1>2, <1>6, LoadAdd
  <2>3. 0 \in Int /\ -cost \in Int /\ cost \in Int
    BY <1>7
  <2>4. CASE m \in Replies
    <3>1. Load(s)[d] = 0
      BY <1>5, <1>6, <2>4 DEF Load
    <3>2. Unaccounted(s)[m] = cost
      <4>1. unsent[m] > 0
        BY <1>6, <1>8
      <4> QED
        BY <1>6, <1>9, <1>13, <2>4, <4>1 DEF Unaccounted
    <3>3. Unaccounted(s)'[m] = 0
      <4>1. unsent'[m] = 0
        BY <1>6, <1>8, <1>11, <2>4
      <4> QED
        BY <1>6, <2>4, <4>1 DEF Unaccounted
    <3>4. Unaccounted(s)'[m] = Unaccounted(s)[m] + (0 + (-cost) + 0)
      BY <1>7, <3>2, <3>3
    <3>5. Total(Load(s), net') = Total(Load(s), net) + 0
      BY <2>2, <3>1
    <3> QED
      BY <1>2, <1>6, <1>10, <2>1, <2>3, <3>4, <3>5, BalanceStep
  <2>5. CASE m \notin Replies
    <3>1. Load(s)[d] = cost
      BY <1>5, <1>6, <1>13, <2>5 DEF Load, cost
    <3>2. Unaccounted(s)'[m] = Unaccounted(s)[m]
      BY <1>1, <2>5 DEF Unaccounted
    <3>3. Unaccounted(s)'[m] = Unaccounted(s)[m] + (0 + (-cost) + cost)
      BY <1>2, <1>6, <1>7, <3>2, BalanceTypes
    <3>4. Total(Load(s), net') = Total(Load(s), net) + cost
      BY <2>2, <3>1
    <3> QED
      BY <1>2, <1>6, <1>10, <2>1, <2>3, <3>3, <3>4, BalanceStep
  <2> QED
    BY <2>4, <2>5
<1> QED
  BY <1>12, <1>13

LEMMA InitBalance ==
  ASSUME Init, NEW s \in Senders
  PROVE  Balance(s)
<1>1. srpb[s] = MaxSrpb /\ avail[s] = 0 /\ net = {}
  BY DEF Init
<1>2. Total(Load(s), net) = 0
  BY <1>1, TotalEmpty
<1>3. Total(Unaccounted(s), Msgs) = 0
  <2> DEFINE nothing == [m \in Msgs |-> 0]
  <2>1. \A m \in Msgs : Unaccounted(s)[m] = nothing[m]
    BY DEF Init, Unaccounted
  <2>2. Total(Unaccounted(s), Msgs) = Total(nothing, Msgs)
    BY <2>1, TotalSame
  <2>3. Units(nothing, Msgs) = {}
    BY DEF Units
  <2> QED
    BY <2>2, <2>3, FS_EmptySet DEF Total
<1> QED
  BY <1>1, <1>2, <1>3, FramesAssumption DEF Balance

LEMMA NextBalance ==
  ASSUME IInv, RepliesUnsolicited, [Next]_vars, NEW s \in Senders, Balance(s)
  PROVE  Balance(s)'
<1>1. ASSUME NEW p \in net, Receive(p) PROVE Balance(s)'
  BY <1>1, ReceiveGrantBalance, ReceiveGrantReqBalance, ReceiveDataBalance,
     ReceiveReplyBalance DEF Receive
<1>2. CASE Next
  BY <1>1, <1>2, SubmitReapBalance, ActivateBalance, SendPacketBalance, GrantBalance
     DEF Next
<1>3. CASE UNCHANGED vars
  <2>1. UNCHANGED <<unsent, selfAlloc, info, srpb, avail, net>>
    BY <1>3 DEF vars, senderVars, receiverVars, inboundVars
  <2>2. \A k \in Msgs : Unaccounted(s)'[k] = Unaccounted(s)[k]
    BY <2>1, UnaccountedSame
  <2> QED
    BY <2>1, <2>2, BalanceFrame DEF IInv
<1> QED
  BY <1>2, <1>3

\* For every sender, what the receiver has lent out is in flight or in the
\* sender's pool, except for the self-allocated credit it has yet to learn of: no
\* interleaving of send_grants, send_data and the arrival of packets loses or
\* mints a byte of credit.
THEOREM CreditKept == Spec => []CreditConserved
<1>1. Init => CreditConserved
  BY InitBalance DEF CreditConserved, Balance
<1>2. IInv /\ CreditConserved /\ [Next]_vars => CreditConserved'
  <2> SUFFICES ASSUME IInv, CreditConserved, [Next]_vars, RepliesUnsolicited,
                      NEW s \in Senders
               PROVE  Balance(s)'
    BY DEF CreditConserved, Balance, RepliesUnsolicited
  <2>1. Balance(s)
    BY DEF CreditConserved, Balance
  <2> QED
    BY <2>1, NextBalance
<1> QED
  BY <1>1, <1>2, Invariant, PTL DEF Spec

-----------------------------------------------------------------------------
(* The budget, when every message is scheduled *)

\* No message has credit of its own.
AllScheduled == Replies = {} /\ \A m \in Msgs : ~Unsolicited(m)

\* What each sender's bucket has lent out.
Lent == [s \in Senders |-> MaxSrpb - srpb[s]]

\* All of the budget that is not there has been lent out from the buckets.
BudgetInv ==
  /\ scheduled = Msgs
  /\ CreditConserved
  /\ budget + Total(Lent, Senders) = Budget

\* A bucket never holds more than it started with.
LEMMA LentIsNat ==
  IInv /\ AllScheduled /\ scheduled = Msgs /\ CreditConserved
    => \A s \in Senders : Lent[s] \in Nat
<1> SUFFICES ASSUME IInv, AllScheduled, scheduled = Msgs, CreditConserved
             PROVE  \A s \in Senders : Lent[s] \in Nat
  OBVIOUS
<1>1. ASSUME NEW s \in Senders PROVE Lent[s] \in Nat
  <2>1. Balance(s)
    BY DEF CreditConserved, Balance, AllScheduled, RepliesUnsolicited
  <2>2. TypeOK /\ ActiveInv
    BY DEF IInv
  <2>3. Total(Unaccounted(s), Msgs) = 0
    <3> DEFINE nothing == [m \in Msgs |-> 0]
    <3>1. \A m \in Msgs : selfAlloc[m] = 0
      BY <2>2 DEF ActiveInv
    <3>2. \A m \in Msgs : Unaccounted(s)[m] = nothing[m]
      BY <3>1 DEF Unaccounted
    <3>3. Total(Unaccounted(s), Msgs) = Total(nothing, Msgs)
      BY <3>2, TotalSame
    <3>4. Units(nothing, Msgs) = {}
      BY DEF Units
    <3> QED
      BY <3>3, <3>4, FS_EmptySet DEF Total
  <2>4. Total(Load(s), net) \in Nat
    <3>1. net \in SUBSET Packet /\ IsFiniteSet(net)
      BY <2>2 DEF TypeOK
    <3>2. IsWeight(Load(s), net)
      BY <3>1, LoadWeight
    <3> QED
      BY <3>1, <3>2, TotalNat
  <2>5. avail[s] \in Nat /\ srpb[s] \in Int /\ MaxSrpb \in Nat
    BY <2>2, FramesAssumption DEF TypeOK
  <2>6. srpb[s] + avail[s] + Total(Load(s), net) = MaxSrpb
    BY <2>1, <2>3, <2>5 DEF Balance
  <2>7. MaxSrpb - srpb[s] \in Nat
    BY <2>4, <2>5, <2>6
  <2> QED
    BY <2>7 DEF Lent
<1> QED
  BY <1>1

\* What a step takes from the budget it takes from one bucket.
LEMMA BudgetStep ==
  ASSUME IsWeight(Lent, Senders), IsWeight(Lent', Senders),
         TypeOK, budget + Total(Lent, Senders) = Budget,
         NEW s \in Senders, NEW a \in Int, budget' = budget + a,
         srpb' = [srpb EXCEPT ![s] = srpb[s] + a]
  PROVE  budget' + Total(Lent', Senders) = Budget
<1>1. IsFiniteSet(Senders) /\ budget \in Int /\ srpb \in [Senders -> Int] /\ MaxSrpb \in Int
  BY SetsAssumption, FramesAssumption DEF TypeOK
<1>2. \A r \in Senders : r # s => Lent'[r] = Lent[r]
  BY <1>1 DEF Lent
<1>3. Total(Lent', Senders) = Total(Lent, Senders) - Lent[s] + Lent'[s]
  BY <1>1, <1>2, TotalChange
<1>4. Lent'[s] = Lent[s] - a /\ Lent[s] \in Int
  BY <1>1 DEF Lent
<1>5. Total(Lent, Senders) \in Int
  BY <1>1, TotalNat
<1> QED
  BY <1>1, <1>3, <1>4, <1>5

LEMMA InitBudgetInv ==
  ASSUME Init, AllScheduled
  PROVE  BudgetInv
<1> DEFINE nothing == [s \in Senders |-> 0]
<1>1. \A s \in Senders : Lent[s] = nothing[s]
  BY FramesAssumption DEF Init, Lent
<1>2. Total(Lent, Senders) = Total(nothing, Senders)
  BY <1>1, TotalSame
<1>3. Units(nothing, Senders) = {}
  BY DEF Units
<1>4. Total(Lent, Senders) = 0
  BY <1>2, <1>3, FS_EmptySet DEF Total
<1>5. CreditConserved
  BY InitBalance DEF CreditConserved, Balance
<1>6. scheduled = Msgs /\ budget = Budget
  BY DEF Init
<1> QED
  BY <1>4, <1>5, <1>6, BytesAssumption DEF BudgetInv

LEMMA NextBudgetInv ==
  ASSUME IInv, AllScheduled, BudgetInv, [Next]_vars
  PROVE  BudgetInv'
<1>1. TypeOK /\ IInv'
  BY NextIInv DEF IInv
<1>2. CreditConserved'
  <2>1. RepliesUnsolicited /\ \A s \in Senders : Balance(s)
    BY DEF BudgetInv, CreditConserved, Balance, AllScheduled, RepliesUnsolicited
  <2>2. \A s \in Senders : Balance(s)'
    BY <2>1, NextBalance
  <2> QED
    BY <2>2 DEF CreditConserved, Balance
<1>3. scheduled' = Msgs
  <2>1. ASSUME NEW s \in Senders, Activate(s) PROVE scheduled' = scheduled
    <3>1. Head(inactive[s]) \in Msgs
      BY <1>1, <2>1 DEF Activate, TypeOK
    <3> QED
      BY <2>1, <3>1 DEF Activate, AllScheduled
  <2>2. ASSUME NEW s \in Senders, SendPacket(s) PROVE scheduled' = scheduled
    BY <2>2 DEF SendPacket
  <2>3. ASSUME NEW m \in Msgs, Submit(m) \/ Grant(m) \/ Reap(m) PROVE scheduled' = scheduled
    BY <2>3 DEF Submit, Grant, Reap, senderVars
  <2>4. ASSUME NEW p \in net, Receive(p) PROVE scheduled' = scheduled
    BY <2>4 DEF Receive, ReceiveGrant, ReceiveGrantReq, ReceiveData, ReceiveReply, senderVars
  <2> QED
    BY <2>1, <2>2, <2>3, <2>4 DEF Next, vars, senderVars, BudgetInv
<1>4. IsWeight(Lent, Senders)
  BY LentIsNat DEF BudgetInv, IsWeight
<1>5. IsWeight(Lent', Senders)
  <2>1. \A s \in Senders : Lent'[s] \in Nat
    <3>1. (IInv /\ AllScheduled /\ scheduled = Msgs /\ CreditConserved
             => \A s \in Senders : Lent[s] \in Nat)'
      BY LentIsNat, PTL
    <3> QED
      BY <1>1, <1>2, <1>3, <3>1
  <2> QED
    BY <2>1 DEF IsWeight
<1>6. budget + Total(Lent, Senders) = Budget
  BY DEF BudgetInv
<1>7. budget' + Total(Lent', Senders) = Budget
  <2>1. ASSUME UNCHANGED <<budget, srpb>> PROVE budget' + Total(Lent', Senders) = Budget
    <3>1. \A s \in Senders : Lent'[s] = Lent[s]
      BY <2>1 DEF Lent
    <3>2. Total(Lent', Senders) = Total(Lent, Senders)
      BY <3>1, TotalSame
    <3> QED
      BY <1>6, <2>1, <3>2
  <2>2. ASSUME NEW m \in Msgs, Grant(m) PROVE budget' + Total(Lent', Senders) = Budget
    <3> DEFINE need == Wire(GrantData(m))
    <3>1. /\ budget' = budget - need /\ srpb' = [srpb EXCEPT ![Src[m]] = srpb[Src[m]] - need]
          /\ granted[m] < Size[m]
      BY <2>2 DEF Grant
    <3>2. Size[m] - granted[m] \in Nat
      BY <1>1, <3>1, SizeType DEF TypeOK
    <3>3. need \in Nat
      BY <3>2, NextPayloadType, WireType DEF GrantData
    <3>4. budget \in Int /\ srpb[Src[m]] \in Int /\ Src[m] \in Senders
      BY <1>1, SizeType DEF TypeOK
    <3> HIDE DEF need
    <3>5. budget' = budget + (-need) /\ srpb' = [srpb EXCEPT ![Src[m]] = srpb[Src[m]] + (-need)]
      BY <3>1, <3>3, <3>4
    <3>6. -need \in Int
      BY <3>3
    <3> QED
      BY <1>1, <1>4, <1>5, <1>6, <3>4, <3>5, <3>6, BudgetStep
  <2>3. ASSUME NEW p \in net, ReceiveData(p)
        PROVE  budget' + Total(Lent', Senders) = Budget
    <3> DEFINE cost == Wire(p.bytes)
    <3>1. p.msg \in Msgs /\ Src[p.msg] \in Senders /\ p.bytes \in Nat /\ p.creditReq \in BOOLEAN
      BY <1>1, PacketTypes
    <3>2. ~p.creditReq
      BY <2>3, <3>1 DEF ReceiveData, BudgetInv, IInv, PacketInv
    <3>3. Settle(Src[p.msg], 0, p.bytes)
      BY <2>3, <3>2 DEF ReceiveData
    <3>4. cost \in Nat
      BY <3>1, WireType
    <3>5. budget \in Int /\ srpb[Src[p.msg]] \in Int
      BY <1>1, <3>1 DEF TypeOK
    <3>6. /\ budget' = budget - 0 + cost
          /\ srpb' = [srpb EXCEPT ![Src[p.msg]] = srpb[Src[p.msg]] - 0 + cost]
      BY <3>3 DEF Settle
    <3> HIDE DEF cost
    <3>7. budget' = budget + cost /\ srpb' = [srpb EXCEPT ![Src[p.msg]] = srpb[Src[p.msg]] + cost]
      <4>1. budget - 0 + cost = budget + cost
        BY <3>4, <3>5
      <4>2. srpb[Src[p.msg]] - 0 + cost = srpb[Src[p.msg]] + cost
        BY <3>4, <3>5
      <4> QED
        BY <3>6, <4>1, <4>2
    <3>8. cost \in Int
      BY <3>4
    <3> QED
      BY <1>1, <1>4, <1>5, <1>6, <3>1, <3>7, <3>8, BudgetStep
  <2>4. ASSUME NEW s \in Senders, Activate(s) \/ SendPacket(s) PROVE UNCHANGED <<budget, srpb>>
    BY <2>4 DEF Activate, SendPacket, receiverVars
  <2>5. ASSUME NEW m \in Msgs, Submit(m) \/ Reap(m) PROVE UNCHANGED <<budget, srpb>>
    BY <2>5 DEF Submit, Reap, receiverVars
  <2>6. ASSUME NEW p \in net, ReceiveGrant(p) \/ ReceiveGrantReq(p) \/ ReceiveReply(p)
        PROVE  UNCHANGED <<budget, srpb>>
    BY <2>6 DEF ReceiveGrant, ReceiveGrantReq, ReceiveReply, receiverVars
  <2>7. ASSUME UNCHANGED vars PROVE UNCHANGED <<budget, srpb>>
    BY <2>7 DEF vars, receiverVars
  <2> QED
    BY <2>1, <2>2, <2>3, <2>4, <2>5, <2>6, <2>7 DEF Next, Receive
<1> QED
  BY <1>2, <1>3, <1>7 DEF BudgetInv

\* The assertions credit_replenished_ <= credit_granted_ and budget_bytes_ <=
\* max_budget_bytes_ of the receiver hold when every message is scheduled: no
\* interleaving gives the receiver back more credit than it has lent out.
THEOREM BudgetNeverExceeded ==
  ASSUME AllScheduled
  PROVE  Spec => []BudgetWithinMax
<1>1. Init => BudgetInv
  BY InitBudgetInv
<1>2. IInv /\ BudgetInv /\ [Next]_vars => BudgetInv'
  BY NextBudgetInv
<1>3. IInv /\ BudgetInv => BudgetWithinMax
  <2> SUFFICES ASSUME IInv, BudgetInv PROVE budget <= Budget
    BY DEF BudgetWithinMax
  <2>1. IsWeight(Lent, Senders)
    BY LentIsNat DEF BudgetInv, IsWeight
  <2>2. Total(Lent, Senders) \in Nat
    BY <2>1, TotalNat, SetsAssumption
  <2>3. budget \in Int /\ Budget \in Nat /\ budget + Total(Lent, Senders) = Budget
    BY BytesAssumption DEF BudgetInv, IInv, TypeOK
  <2> QED
    BY <2>2, <2>3
<1> QED
  BY <1>1, <1>2, <1>3, Invariant, PTL DEF Spec

-----------------------------------------------------------------------------
(* Grants and data packets, when unsolicited messages fit a packet *)

\* A message with credit of its own is one packet.
ShortUnsolicited == \A m \in Msgs : Unsolicited(m) => Size[m] <= MaxPayload

\* All of m has been granted, or whole packets from its start whose bytes the seq
\* of the last grant counts.
GrantedInStep(m) ==
  \/ granted[m] = Size[m]
  \/ /\ grantSeq[m] = granted[m]
     /\ \E k \in Nat : granted[m] = k * MaxPayload

\* The inductive part: what the receiver learns of an unsolicited message is
\* that all of it is granted, and it grants the others packet by packet.
GrantInv ==
  /\ \A m \in Msgs \ scheduled : selfAllocData[m] = Size[m]
  /\ \A p \in net : p.kind = "DATA" /\ p.creditReq => p.unsolData = Size[p.msg]
  /\ \A m \in inbound : GrantedInStep(m)
  /\ GrantsMatchData

LEMMA QuotientOf ==
  ASSUME NEW k \in Nat, NEW r \in Nat, NEW w \in Nat, r < w
  PROVE  (k * w + r) \div w = k /\ (k * w + r) % w = r
<1> DEFINE n == k * w + r
           q == n \div w
           s == n % w
<1>1. n \in Nat /\ n = k * w + r /\ w >= 1 /\ r \in 0 .. w - 1
  BY Times
<1> HIDE DEF n
<1>2. q \in Nat /\ s \in 0 .. w - 1 /\ n = q * w + s
  BY <1>1, Quotient
<1> HIDE DEF q, s
<1>3. k * w + r = q * w + s
  BY <1>1, <1>2
<1>4. k = q /\ r = s
  BY <1>1, <1>2, <1>3, QuotientIs
<1> QED
  BY <1>4 DEF n, q, s

\* A message of one packet is covered whole by its own credit.
LEMMA ShortSelfCredit ==
  ASSUME NEW m \in Msgs, NEW a \in Nat, Size[m] <= MaxPayload
  PROVE  SelfCreditData(Size[m], a) = Size[m]
<1>1. Size[m] \in Nat /\ MaxSrpb \in Nat /\ MaxFrame \in Nat /\ MaxSrpb >= MaxFrame
  BY SizeType, FramesAssumption, MaxFrameType
<1>2. AddHeaderOverhead(Size[m]) \in Nat /\ AddHeaderOverhead(Size[m]) <= MaxFrame
  <2>1. CASE Size[m] = MaxPayload
    <3>1. 1 * MaxPayload + 0 = MaxPayload /\ 1 * MaxFrame = MaxFrame
      BY FramesAssumption, <1>1
    <3>2. Size[m] \div MaxPayload = 1 /\ Size[m] % MaxPayload = 0
      BY <2>1, <3>1, QuotientOf, FramesAssumption
    <3> QED
      BY <1>1, <3>1, <3>2 DEF AddHeaderOverhead
  <2>2. CASE Size[m] < MaxPayload
    <3>1. 0 * MaxPayload + Size[m] = Size[m] /\ 0 * MaxFrame = 0
      BY FramesAssumption, <1>1
    <3>2. Size[m] \div MaxPayload = 0 /\ Size[m] % MaxPayload = Size[m]
      BY <1>1, <2>2, <3>1, QuotientOf, FramesAssumption
    <3>3. AddHeaderOverhead(Size[m]) = Wire(Size[m])
      BY <1>1, <3>1, <3>2, SizeType, WireType DEF AddHeaderOverhead
    <3>4. Wire(Size[m]) <= MaxFrame
      BY <1>1, <2>2, FramesAssumption DEF Wire, Larger, MaxFrame
    <3> QED
      BY <1>1, <3>3, <3>4, WireType
  <2> QED
    BY <1>1, <2>1, <2>2, FramesAssumption
<1> QED
  BY <1>1, <1>2 DEF SelfCreditData, Wanted, Larger

\* The next grant of a message that is granted in step is for a data packet of
\* it, and keeps it in step.
LEMMA GrantNextPacket ==
  ASSUME NEW m \in Msgs, NEW k \in Nat, k * MaxPayload < Size[m]
  PROVE  LET g    == k * MaxPayload
             data == NextPayload(Size[m] - g)
         IN  /\ g + data \in DataSeqs(m)
             /\ data = PayloadEndingAt(m, g + data)
             /\ g + data = Size[m] \/ g + data = (k + 1) * MaxPayload
<1> DEFINE g    == k * MaxPayload
           data == NextPayload(Size[m] - g)
<1>1. Size[m] \in Nat /\ MaxPayload \in Nat /\ MaxPayload > 0 /\ g \in Nat
  BY SizeType, FramesAssumption, TimesType
<1>2. CASE Size[m] - g >= MaxPayload
  <2> DEFINE q == Size[m] \div MaxPayload
  <2>1. data = MaxPayload
    BY <1>1, <1>2 DEF NextPayload, Smaller
  <2>2. (k + 1) * MaxPayload = g + MaxPayload
    BY <1>1, Z3
  <2>3. (k + 1) * MaxPayload + 0 = g + MaxPayload
    BY <1>1, <2>2
  <2>4. (g + MaxPayload) % MaxPayload = 0
    BY <1>1, <2>3, QuotientOf
  <2>5. q \in Nat /\ Size[m] % MaxPayload \in 0 .. MaxPayload - 1
        /\ Size[m] = q * MaxPayload + (Size[m] % MaxPayload)
    <3>1. MaxPayload >= 1
      BY <1>1
    <3> QED
      BY <1>1, <3>1, Quotient
  <2> HIDE DEF q
  <2>6. k + 1 <= q
    <3> SUFFICES ASSUME k + 1 > q PROVE FALSE
      BY <2>5
    <3>1. k - q \in Nat
      BY <2>5
    <3>2. (k - q) * MaxPayload \in Nat
      BY <1>1, <3>1, TimesType
    <3>3. (k - q) * MaxPayload = g - q * MaxPayload
      BY <1>1, <2>5, Z3
    <3>4. q * MaxPayload \in Nat
      BY <1>1, <2>5, TimesType
    <3> QED
      BY <1>1, <1>2, <2>5, <3>2, <3>3, <3>4
  <2>7. k + 1 \in 1 .. q
    BY <2>5, <2>6
  <2>8. g + data \in DataSeqs(m)
    BY <2>1, <2>2, <2>7 DEF DataSeqs, q
  <2> QED
    BY <2>1, <2>2, <2>4, <2>8 DEF PayloadEndingAt
<1>3. CASE Size[m] - g < MaxPayload
  <2> DEFINE r == Size[m] - g
  <2>1. data = r /\ r \in Nat /\ r > 0
    BY <1>1, <1>3 DEF NextPayload, Smaller
  <2>2. g + data = Size[m] /\ Size[m] = k * MaxPayload + r
    BY <1>1, <2>1
  <2> HIDE DEF r
  <2>3. (k * MaxPayload + r) % MaxPayload = r
    BY <1>1, <1>3, <2>1, QuotientOf DEF r
  <2> QED
    BY <2>1, <2>2, <2>3 DEF DataSeqs, PayloadEndingAt
<1> QED
  BY <1>1, <1>2, <1>3

\* Steps that hand out no credit and learn of none.
LEMMA GrantFrame ==
  ASSUME GrantInv, UNCHANGED <<scheduled, selfAllocData, granted, grantSeq>>,
         inbound' \subseteq inbound, net' \subseteq net
  PROVE  GrantInv'
<1>1. \A m \in inbound' : GrantedInStep(m)'
  BY DEF GrantInv, GrantedInStep
<1> QED
  BY <1>1 DEF GrantInv, GrantsMatchData

\* State that is opened for a message starts in step, and stays in step.
LEMMA InStepSoFar ==
  ASSUME TypeOK, GrantInv, NEW m \in Msgs
  PROVE  \/ GrantedSoFar(m) = Size[m]
         \/ /\ GrantSeqSoFar(m) = GrantedSoFar(m)
            /\ \E k \in Nat : GrantedSoFar(m) = k * MaxPayload
<1>1. CASE m \in inbound
  BY <1>1 DEF GrantInv, GrantedInStep, GrantedSoFar, GrantSeqSoFar
<1>2. CASE m \notin inbound
  <2>1. 0 = 0 * MaxPayload
    BY FramesAssumption
  <2> QED
    BY <1>2, <2>1 DEF GrantedSoFar, GrantSeqSoFar
<1> QED
  BY <1>1, <1>2

LEMMA ActivateGrantInv ==
  ASSUME ShortUnsolicited, TypeOK, GrantInv, NEW s \in Senders, Activate(s)
  PROVE  GrantInv'
<1> DEFINE m == Head(inactive[s])
<1>1. m \in Msgs /\ avail[s] \in Nat /\ selfAllocData \in [Msgs -> Nat]
  <2>1. inactive[s] \in Seq(Msgs) /\ inactive[s] # <<>>
    BY DEF Activate, TypeOK
  <2> QED
    BY <2>1 DEF TypeOK
<1>2. UNCHANGED <<inbound, granted, grantSeq>>
  BY DEF Activate, receiverVars, inboundVars
<1>3. \A k \in inbound' : GrantedInStep(k)'
  BY <1>2 DEF GrantInv, GrantedInStep
<1> HIDE DEF m
<1>4. CASE Unsolicited(m)
  <2>1. SelfCreditData(Size[m], avail[s]) = Size[m]
    BY <1>1, <1>4, ShortSelfCredit DEF ShortUnsolicited
  <2>2. /\ selfAllocData' = [selfAllocData EXCEPT ![m] = Size[m]]
        /\ scheduled' = scheduled \ {m} /\ net' = net
    BY <1>4, <2>1 DEF Activate, m
  <2> QED
    BY <1>1, <1>3, <2>2 DEF GrantInv, GrantsMatchData
<1>5. CASE ~Unsolicited(m)
  <2>1. UNCHANGED <<selfAllocData, scheduled>> /\ net' = net \cup {GrantReqPkt(m)}
    BY <1>5 DEF Activate, m
  <2>2. GrantReqPkt(m).kind = "GRANT_REQ"
    BY DEF GrantReqPkt
  <2> QED
    BY <1>3, <2>1, <2>2 DEF GrantInv, GrantsMatchData
<1> QED
  BY <1>4, <1>5

LEMMA SendPacketGrantInv ==
  ASSUME GrantInv, TypeOK, NEW s \in Senders, SendPacket(s)
  PROVE  GrantInv'
<1>1. PICK m \in Choice(s) : net' = net \cup {DataPkt(m, NextPayload(unsent[m]))}
  BY DEF SendPacket
<1> DEFINE p == DataPkt(m, NextPayload(unsent[m]))
<1>2. m \in Msgs
  BY DEF Choice, TypeOK
<1>3. /\ p.kind = "DATA" /\ p.msg = m /\ p.creditReq = (m \notin scheduled)
      /\ m \notin scheduled => p.unsolData = selfAllocData[m]
  BY DEF DataPkt
<1>4. UNCHANGED <<scheduled, selfAllocData, granted, grantSeq, inbound>>
  BY DEF SendPacket, receiverVars, inboundVars
<1> HIDE DEF p
<1>5. net' = net \cup {p}
  BY <1>1 DEF p
<1>6. \A k \in inbound' : GrantedInStep(k)'
  BY <1>4 DEF GrantInv, GrantedInStep
<1>7. p.creditReq => p.unsolData = Size[p.msg]
  BY <1>2, <1>3 DEF GrantInv
<1> QED
  BY <1>3, <1>4, <1>5, <1>6, <1>7 DEF GrantInv, GrantsMatchData

LEMMA ReceiveGrantReqGrantInv ==
  ASSUME GrantInv, TypeOK, NEW p \in net, ReceiveGrantReq(p)
  PROVE  GrantInv'
<1> DEFINE m == p.msg
<1>1. /\ inbound' = inbound \cup {m} /\ net' = net \ {p}
      /\ granted' = [granted EXCEPT ![m] = GrantedSoFar(m)]
      /\ grantSeq' = [grantSeq EXCEPT ![m] = GrantSeqSoFar(m)]
      /\ UNCHANGED <<scheduled, selfAllocData>>
  BY DEF ReceiveGrantReq, senderVars
<1>2. m \in Msgs /\ inbound \subseteq Msgs /\ granted \in [Msgs -> Nat] /\ grantSeq \in [Msgs -> Nat]
  BY PacketTypes DEF TypeOK
<1> HIDE DEF m
<1>3. GrantedInStep(m)'
  BY <1>1, <1>2, InStepSoFar DEF GrantedInStep
<1>4. \A k \in inbound : k # m => GrantedInStep(k)'
  BY <1>1, <1>2 DEF GrantInv, GrantedInStep
<1>5. \A k \in inbound' : GrantedInStep(k)'
  BY <1>1, <1>3, <1>4
<1> QED
  BY <1>1, <1>5 DEF GrantInv, GrantsMatchData

LEMMA ReceiveDataGrantInv ==
  ASSUME GrantInv, TypeOK, NEW p \in net, ReceiveData(p)
  PROVE  GrantInv'
<1> DEFINE m    == p.msg
           grnt == IF p.creditReq /\ ~Informed(m) THEN p.unsolData ELSE GrantedSoFar(m)
<1>1. /\ p.kind = "DATA" /\ inbound' \subseteq inbound \cup {m} /\ net' = net \ {p}
      /\ granted' = [granted EXCEPT ![m] = grnt]
      /\ grantSeq' = [grantSeq EXCEPT ![m] = GrantSeqSoFar(m)]
      /\ UNCHANGED <<scheduled, selfAllocData>>
  BY DEF ReceiveData, senderVars
<1>2. m \in Msgs /\ inbound \subseteq Msgs /\ granted \in [Msgs -> Nat] /\ grantSeq \in [Msgs -> Nat]
  BY PacketTypes DEF TypeOK
<1>3. \/ grnt = Size[m]
      \/ /\ GrantSeqSoFar(m) = grnt
         /\ \E k \in Nat : grnt = k * MaxPayload
  BY <1>1, <1>2, InStepSoFar DEF GrantInv
<1> HIDE DEF m, grnt
<1>4. GrantedInStep(m)'
  BY <1>1, <1>2, <1>3 DEF GrantedInStep
<1>5. \A k \in inbound : k # m => GrantedInStep(k)'
  BY <1>1, <1>2 DEF GrantInv, GrantedInStep
<1>6. \A k \in inbound' : GrantedInStep(k)'
  BY <1>1, <1>4, <1>5
<1> QED
  BY <1>1, <1>6 DEF GrantInv, GrantsMatchData

\* The one step that sends a grant.
LEMMA GrantGrantInv ==
  ASSUME GrantInv, TypeOK, NEW m \in Msgs, Grant(m)
  PROVE  GrantInv'
<1> DEFINE data == GrantData(m)
           p    == GrantPkt(m, grantSeq[m] + data, Wire(data))
<1>1. /\ m \in inbound /\ granted[m] < Size[m] /\ net' = net \cup {p}
      /\ granted' = [granted EXCEPT ![m] = granted[m] + data]
      /\ grantSeq' = [grantSeq EXCEPT ![m] = grantSeq[m] + data]
      /\ UNCHANGED <<inbound, scheduled, selfAllocData>>
  BY DEF Grant, senderVars
<1>2. /\ Size[m] \in Nat /\ inbound \subseteq Msgs
      /\ granted \in [Msgs -> Nat] /\ grantSeq \in [Msgs -> Nat]
  BY SizeType DEF TypeOK
<1>3. grantSeq[m] = granted[m] /\ \E k \in Nat : granted[m] = k * MaxPayload
  BY <1>1, <1>2 DEF GrantInv, GrantedInStep
<1>4. PICK k \in Nat : granted[m] = k * MaxPayload
  BY <1>3
<1>5. /\ granted[m] + data \in DataSeqs(m)
      /\ data = PayloadEndingAt(m, granted[m] + data)
      /\ granted[m] + data = Size[m] \/ granted[m] + data = (k + 1) * MaxPayload
  <2>1. data = NextPayload(Size[m] - k * MaxPayload) /\ k * MaxPayload < Size[m]
    BY <1>1, <1>4 DEF GrantData
  <2> HIDE DEF data
  <2> QED
    BY <1>4, <2>1, GrantNextPacket
<1>6. /\ p.kind = "GRANT" /\ p.msg = m /\ p.seq = granted[m] + data /\ p.bytes = Wire(data)
  BY <1>3 DEF GrantPkt
<1> HIDE DEF p, data
<1>7. GrantedInStep(m)'
  <2>1. granted'[m] = granted[m] + data /\ grantSeq'[m] = granted'[m]
    BY <1>1, <1>2, <1>3
  <2>2. k + 1 \in Nat
    BY <1>4
  <2> QED
    BY <1>5, <2>1, <2>2 DEF GrantedInStep
<1>8. \A i \in inbound : i # m => GrantedInStep(i)'
  BY <1>1, <1>2 DEF GrantInv, GrantedInStep
<1>9. GrantsMatchData'
  BY <1>1, <1>5, <1>6 DEF GrantInv, GrantsMatchData
<1> QED
  BY <1>1, <1>6, <1>7, <1>8, <1>9 DEF GrantInv

LEMMA NextGrantInv ==
  ASSUME ShortUnsolicited, TypeOK, GrantInv, [Next]_vars
  PROVE  GrantInv'
<1>1. ASSUME NEW m \in Msgs, Submit(m) \/ Reap(m) PROVE GrantInv'
  BY <1>1, GrantFrame DEF Submit, Reap, senderVars, receiverVars, inboundVars
<1>2. ASSUME NEW p \in net, ReceiveGrant(p) \/ ReceiveReply(p) PROVE GrantInv'
  BY <1>2, GrantFrame DEF ReceiveGrant, ReceiveReply, senderVars, receiverVars, inboundVars
<1>3. CASE UNCHANGED vars
  BY <1>3, GrantFrame DEF vars, senderVars, receiverVars, inboundVars
<1>4. ASSUME NEW p \in net, Receive(p) PROVE GrantInv'
  BY <1>2, <1>4, ReceiveGrantReqGrantInv, ReceiveDataGrantInv DEF Receive
<1> QED
  BY <1>1, <1>3, <1>4, ActivateGrantInv, SendPacketGrantInv, GrantGrantInv DEF Next

\* If only messages of one packet are sent with their own credit, then whatever
\* the order of the grants, the data and the announcements, every grant carries the
\* seq and the cost of a data packet of its message: the two are hashed onto one
\* path and charged on the same phantom queues.
THEOREM GrantsPriceData ==
  ASSUME ShortUnsolicited
  PROVE  Spec => []GrantsMatchData
<1>1. Init => GrantInv
  BY DEF Init, GrantInv, GrantsMatchData
<1>2. TypeOK /\ GrantInv /\ [Next]_vars => GrantInv'
  BY NextGrantInv
<1>3. GrantInv => GrantsMatchData
  BY DEF GrantInv
<1> QED
  BY <1>1, <1>2, <1>3, TypeCorrect, PTL DEF Spec
-----------------------------------------------------------------------------
(* Delivery *)

\* No data packet ends between the end of one and that of the next.
LEMMA NoneBetween ==
  ASSUME NEW m \in Msgs, NEW j \in Nat, j * MaxPayload < Size[m],
         NEW e \in DataSeqs(m), e > j * MaxPayload
  PROVE  e >= j * MaxPayload + NextPayload(Size[m] - j * MaxPayload)
<1> DEFINE a == j * MaxPayload
           d == NextPayload(Size[m] - a)
<1>1. Size[m] \in Nat /\ MaxPayload \in Nat /\ MaxPayload > 0 /\ a \in Nat
  BY SizeType, FramesAssumption, TimesType
<1>2. d \in Nat /\ d <= MaxPayload /\ a + d <= Size[m]
  BY <1>1 DEF NextPayload, Smaller
<1>3. CASE e = Size[m]
  BY <1>1, <1>2, <1>3
<1>4. ASSUME NEW i \in 1 .. Size[m] \div MaxPayload, e = i * MaxPayload
      PROVE  e >= a + d
  <2>1. i \in Nat
    OBVIOUS
  <2>2. i >= j + 1
    <3> SUFFICES ASSUME i <= j PROVE FALSE
      BY <2>1
    <3>1. i * MaxPayload <= j * MaxPayload /\ i * MaxPayload \in Nat
      BY <1>1, <2>1, TimesMono, TimesType
    <3> QED
      BY <1>1, <1>4, <3>1
  <2>3. (j + 1) * MaxPayload <= i * MaxPayload
    BY <1>1, <2>1, <2>2, TimesMono
  <2>4. (j + 1) * MaxPayload = a + MaxPayload
    BY <1>1, OneMore
  <2>5. i * MaxPayload \in Nat
    BY <1>1, <2>1, TimesType
  <2> HIDE DEF a, d
  <2> QED
    BY <1>1, <1>2, <1>4, <2>3, <2>4, <2>5
<1> QED
  BY <1>3, <1>4 DEF DataSeqs

\* Messages are cut into full packets, up to the last.
CutInv ==
  \A m \in Msgs : unsent[m] > 0 => \E j \in Nat : Size[m] - unsent[m] = j * MaxPayload

\* What a sender does with the message it sends a packet of.
Sends(m, p) ==
  /\ net' = net \cup {p}
  /\ p = DataPkt(m, NextPayload(unsent[m]))
  /\ unsent' = [unsent EXCEPT ![m] = @ - NextPayload(unsent[m])]
  /\ unsent[m] > 0 /\ m \in active[Src[m]]

LEMMA SendsMessage ==
  ASSUME IInv, NEW s \in Senders, SendPacket(s)
  PROVE  \E m \in Msgs : Src[m] = s /\ \E p \in Packet : Sends(m, p)
<1>1. PICK m \in Choice(s) :
        /\ net' = net \cup {DataPkt(m, NextPayload(unsent[m]))}
        /\ unsent' = [unsent EXCEPT ![m] = @ - NextPayload(unsent[m])]
  BY DEF SendPacket
<1>2. TypeOK /\ ActiveInv
  BY DEF IInv
<1>3. m \in active[s] /\ m \in Msgs
  BY <1>2 DEF Choice, TypeOK
<1>4. Src[m] = s /\ unsent[m] > 0
  BY <1>2, <1>3 DEF ActiveInv
<1>5. DataPkt(m, NextPayload(unsent[m])) \in Packet
  <2>1. unsent[m] \in Nat
    BY <1>2, <1>3 DEF TypeOK
  <2> QED
    BY <1>2, <1>3, <2>1, NextPayloadType, DataPktType
<1>6. Sends(m, DataPkt(m, NextPayload(unsent[m])))
  BY <1>1, <1>3, <1>4 DEF Sends
<1> QED
  BY <1>3, <1>4, <1>5, <1>6

LEMMA CutNext ==
  ASSUME IInv, CutInv, [Next]_vars
  PROVE  CutInv'
<1>1. CASE UNCHANGED unsent
  BY <1>1 DEF CutInv
<1>2. ASSUME NEW s \in Senders, SendPacket(s) PROVE CutInv'
  <2>1. PICK m \in Msgs : Src[m] = s /\ \E p \in Packet : Sends(m, p)
    BY <1>2, SendsMessage
  <2> DEFINE d == NextPayload(unsent[m])
  <2>2. unsent' = [unsent EXCEPT ![m] = @ - d] /\ unsent[m] > 0
    BY <2>1 DEF Sends
  <2>3. unsent \in [Msgs -> Nat] /\ Size[m] \in Nat /\ unsent[m] <= Size[m]
    BY SizeType DEF IInv, TypeOK
  <2>4. PICK j \in Nat : Size[m] - unsent[m] = j * MaxPayload
    BY <2>2 DEF CutInv
  <2>5. CASE unsent[m] > MaxPayload
    <3>1. d = MaxPayload /\ MaxPayload \in Nat
      BY <2>3, <2>5, FramesAssumption DEF NextPayload, Smaller
    <3> HIDE DEF d
    <3>2. (j + 1) * MaxPayload = j * MaxPayload + MaxPayload /\ j * MaxPayload \in Nat
      BY <3>1, OneMore
    <3>3. unsent'[m] = unsent[m] - MaxPayload
      BY <2>2, <2>3, <3>1
    <3> DEFINE a == j * MaxPayload
               b == (j + 1) * MaxPayload
    <3>4. Size[m] - unsent[m] = a /\ b = a + MaxPayload /\ j + 1 \in Nat
      BY <2>4, <3>2
    <3> HIDE DEF a, b
    <3>5. Size[m] - unsent'[m] = b
      BY <2>3, <3>1, <3>3, <3>4
    <3> QED
      BY <2>2, <2>3, <3>4, <3>5 DEF CutInv, b
  <2>6. CASE unsent[m] <= MaxPayload
    <3>1. d = unsent[m]
      BY <2>3, <2>6, FramesAssumption DEF NextPayload, Smaller
    <3> HIDE DEF d
    <3>2. unsent'[m] = 0
      BY <2>2, <2>3, <3>1
    <3> QED
      BY <2>2, <2>3, <3>2 DEF CutInv
  <2> QED
    BY <2>3, <2>5, <2>6, FramesAssumption
<1>3. CASE UNCHANGED vars
  BY <1>1, <1>3 DEF vars, senderVars
<1>4. ASSUME NEW m \in Msgs, Submit(m) \/ Grant(m) \/ Reap(m) PROVE CutInv'
  BY <1>1, <1>4 DEF Submit, Grant, Reap, senderVars
<1>5. ASSUME NEW p \in net, Receive(p) PROVE CutInv'
  BY <1>1, <1>5 DEF Receive, ReceiveGrant, ReceiveGrantReq, ReceiveData, ReceiveReply, senderVars
<1>6. ASSUME NEW s \in Senders, Activate(s) PROVE CutInv'
  BY <1>1, <1>6 DEF Activate
<1> QED
  BY <1>2, <1>3, <1>4, <1>5, <1>6 DEF Next

\* The bytes packets end at are natural numbers.
LEMMA DataSeqsType ==
  ASSUME NEW m \in Msgs
  PROVE  DataSeqs(m) \subseteq Nat
<1>1. ASSUME NEW k \in 1 .. Size[m] \div MaxPayload PROVE k * MaxPayload \in Nat
  <2>1. k \in Nat /\ MaxPayload \in Nat
    BY FramesAssumption
  <2> QED
    BY <2>1, TimesType
<1> QED
  BY <1>1, SizeType DEF DataSeqs

\* The packet sent next ends where those sent before it do not.
SentNext(m, e) ==
  /\ e \in DataSeqs(m) /\ e = Size[m] - unsent'[m] /\ e > Size[m] - unsent[m]
  /\ {x \in DataSeqs(m) : x < e} = {x \in DataSeqs(m) : x <= Size[m] - unsent[m]}
  /\ {x \in DataSeqs(m) : x <= e} = {x \in DataSeqs(m) : x < e} \cup {e}

LEMMA SendsNext ==
  ASSUME TypeOK, ReplyInv, CutInv, NEW m \in Msgs, NEW p \in Packet, Sends(m, p)
  PROVE  /\ p.kind = "DATA" /\ p.msg = m /\ SentNext(m, EndOf(p))
         /\ p.bytes = PayloadEndingAt(m, EndOf(p))
<1> DEFINE a == Size[m] - unsent[m]
           d == NextPayload(unsent[m])
           e == EndOf(p)
<1>1. /\ unsent \in [Msgs -> Nat] /\ unsent[m] <= Size[m] /\ Size[m] \in Nat
      /\ MaxPayload \in Nat /\ MaxPayload > 0
  BY SizeType, FramesAssumption DEF TypeOK
<1>2. /\ p = DataPkt(m, d) /\ unsent[m] > 0 /\ m \in active[Src[m]]
      /\ unsent' = [unsent EXCEPT ![m] = @ - d]
  BY DEF Sends
<1>3. /\ p.kind = "DATA" /\ p.msg = m /\ p.bytes = d
      /\ m \notin Replies => p.seq = Size[m] - unsent[m] + d
  BY <1>2 DEF DataPkt
<1>4. d \in Nat /\ d > 0 /\ d <= unsent[m]
  BY <1>1, <1>2 DEF NextPayload, Smaller
<1>5. e = a + d
  <2>1. CASE m \in Replies
    <3>1. unsent[m] = Size[m] /\ Size[m] < MaxPayload
      BY <1>2, <2>1, SetsAssumption DEF ReplyInv
    <3>2. d = Size[m]
      BY <1>1, <3>1 DEF NextPayload, Smaller
    <3> QED
      BY <1>1, <1>3, <2>1, <3>1, <3>2 DEF EndOf
  <2>2. CASE m \notin Replies
    BY <1>3, <2>2 DEF EndOf
  <2> QED
    BY <2>1, <2>2
<1>6. PICK j \in Nat : a = j * MaxPayload
  BY <1>2 DEF CutInv
<1>7. a \in Nat /\ a < Size[m] /\ Size[m] - a = unsent[m]
  BY <1>1, <1>2
<1>8. d = NextPayload(Size[m] - a)
  BY <1>7
<1>9. unsent'[m] = unsent[m] - d
  BY <1>1, <1>2
<1> HIDE DEF d, e
<1>10. e \in DataSeqs(m) /\ d = PayloadEndingAt(m, e)
  <2>1. j * MaxPayload < Size[m] /\ d = NextPayload(Size[m] - j * MaxPayload)
    BY <1>6, <1>7, <1>8
  <2> QED
    BY <1>5, <1>6, <2>1, GrantNextPacket
<1>11. ASSUME NEW x \in DataSeqs(m), x > a PROVE x >= e
  <2>1. j * MaxPayload < Size[m] /\ x > j * MaxPayload
    BY <1>6, <1>7, <1>11
  <2>2. x >= j * MaxPayload + NextPayload(Size[m] - j * MaxPayload)
    BY <2>1, NoneBetween
  <2> QED
    BY <1>5, <1>6, <1>8, <2>2
<1>12. e = Size[m] - unsent'[m] /\ e > a /\ e \in Nat
  BY <1>1, <1>4, <1>5, <1>7, <1>9
<1>13. ASSUME NEW x \in DataSeqs(m)
       PROVE  (x < e <=> x <= a) /\ (x <= e <=> x < e \/ x = e)
  <2>1. x \in Nat
    BY DataSeqsType
  <2> QED
    BY <1>7, <1>11, <1>12, <2>1
<1>14. SentNext(m, e)
  BY <1>10, <1>12, <1>13 DEF SentNext
<1> QED
  BY <1>3, <1>10, <1>14 DEF e

\* Packets in flight are packets that were sent, each of them once.
PartsInv ==
  /\ \A p \in net : p.kind = "DATA" =>
       /\ EndOf(p) \in SentParts[p.msg]
       /\ p.bytes = PayloadEndingAt(p.msg, EndOf(p))
  /\ \A p, q \in net :
       p.kind = "DATA" /\ q.kind = "DATA" /\ p.msg = q.msg /\ EndOf(p) = EndOf(q) => p = q

\* The packets of m under way.
UnderWay(m) == {EndOf(p) : p \in {q \in net : q.kind = "DATA" /\ q.msg = m}}

LEMMA ArrivedIs ==
  ASSUME NEW m \in Msgs
  PROVE  ArrivedParts[m] = SentParts[m] \ UnderWay(m)
  BY DEF ArrivedParts, UnderWay

\* Steps that touch no data packet are no steps of a delivery.
LEMMA DeliveryFrame ==
  ASSUME PartsInv, TypeOK, unsent' = unsent,
         \A p : p.kind = "DATA" => (p \in net' <=> p \in net)
  PROVE  PartsInv' /\ SentParts' = SentParts /\ ArrivedParts' = ArrivedParts
<1>1. SentParts' = SentParts
  BY DEF SentParts
<1>2. PartsInv'
  BY <1>1 DEF PartsInv, EndOf
<1>3. ASSUME NEW m \in Msgs
      PROVE  {q \in net' : q.kind = "DATA" /\ q.msg = m} = {q \in net : q.kind = "DATA" /\ q.msg = m}
  OBVIOUS
<1>4. ArrivedParts' = ArrivedParts
  BY <1>1, <1>3 DEF ArrivedParts, EndOf
<1> QED
  BY <1>1, <1>2, <1>4

\* A packet that is sent.
LEMMA SendDelivery ==
  ASSUME IInv, CutInv, PartsInv, NEW s \in Senders, SendPacket(s)
  PROVE  PartsInv' /\ \E m \in Msgs : \E x \in DataSeqs(m) : Delivery!Send(m, x)
<1>1. TypeOK /\ ReplyInv /\ QueueInv
  BY DEF IInv
<1>2. PICK m \in Msgs : Src[m] = s /\ \E p \in Packet : Sends(m, p)
  BY SendsMessage
<1>3. PICK p \in Packet : Sends(m, p)
  BY <1>2
<1> DEFINE e == EndOf(p)
<1>4. /\ p.kind = "DATA" /\ p.msg = m /\ SentNext(m, e) /\ p.bytes = PayloadEndingAt(m, e)
  BY <1>1, <1>3, SendsNext
<1>5. /\ net' = net \cup {p} /\ m \in active[Src[m]]
      /\ unsent' = [unsent EXCEPT ![m] = @ - NextPayload(unsent[m])]
      /\ unsent \in [Msgs -> Nat]
  BY <1>1, <1>3 DEF Sends, TypeOK
<1>6. UNCHANGED <<created, up>>
  BY DEF SendPacket, receiverVars
<1>7. m \in created
  BY <1>1, <1>5 DEF QueueInv, Fresh
<1>8. \A i \in Msgs : i # m => SentParts'[i] = SentParts[i]
  BY <1>5 DEF SentParts
<1>9. /\ e \in DataSeqs(m) /\ e \notin SentParts[m]
      /\ SentParts[m] = {x \in DataSeqs(m) : x < e}
      /\ SentParts'[m] = SentParts[m] \cup {e}
  <2>1. SentParts[m] = {x \in DataSeqs(m) : x <= Size[m] - unsent[m]}
    BY DEF SentParts
  <2>2. SentParts'[m] = {x \in DataSeqs(m) : x <= Size[m] - unsent'[m]}
    BY DEF SentParts
  <2>3. e \in Nat
    BY <1>4, DataSeqsType DEF SentNext
  <2> QED
    BY <1>4, <2>1, <2>2, <2>3 DEF SentNext
<1> HIDE DEF e
<1>10. \A q \in net : q.kind = "DATA" /\ q.msg = m => EndOf(q) # e
  BY <1>9 DEF PartsInv
<1>11. SentParts' = [SentParts EXCEPT ![m] = @ \cup {e}]
  <2>1. SentParts = [i \in Msgs |-> SentParts[i]] /\ SentParts' = [i \in Msgs |-> SentParts'[i]]
    BY DEF SentParts
  <2> HIDE DEF SentParts
  <2> QED
    BY <1>8, <1>9, <2>1
<1>12. \A q : EndOf(q)' = EndOf(q)
  BY DEF EndOf
<1>13. PartsInv'
  <2>1. ASSUME NEW q \in net', q.kind = "DATA"
        PROVE  EndOf(q) \in SentParts'[q.msg] /\ q.bytes = PayloadEndingAt(q.msg, EndOf(q))
    <3>1. CASE q = p
      BY <1>4, <1>9, <3>1 DEF e
    <3>2. CASE q # p
      <4>1. q \in net /\ q.msg \in Msgs
        BY <1>1, <1>5, <3>2, PacketTypes
      <4>2. EndOf(q) \in SentParts[q.msg] /\ q.bytes = PayloadEndingAt(q.msg, EndOf(q))
        BY <2>1, <4>1 DEF PartsInv
      <4> QED
        BY <1>8, <1>9, <4>1, <4>2
    <3> QED
      BY <3>1, <3>2
  <2>2. ASSUME NEW q \in net', NEW r \in net', q.kind = "DATA", r.kind = "DATA",
               q.msg = r.msg, EndOf(q) = EndOf(r)
        PROVE  q = r
    <3>1. CASE q \in net /\ r \in net
      BY <2>2, <3>1 DEF PartsInv
    <3>2. CASE q \notin net \/ r \notin net
      BY <1>4, <1>5, <1>10, <2>2, <3>2 DEF e
    <3> QED
      BY <3>1, <3>2
  <2> QED
    BY <1>12, <2>1, <2>2 DEF PartsInv
<1>14. \A i \in Msgs : ArrivedParts'[i] = ArrivedParts[i]
  <2> SUFFICES ASSUME NEW i \in Msgs PROVE ArrivedParts'[i] = ArrivedParts[i]
    OBVIOUS
  <2>1. ArrivedParts'[i] = SentParts'[i] \ UnderWay(i)'
    BY <1>12 DEF ArrivedParts, UnderWay
  <2>2. CASE i # m
    <3>1. UnderWay(i)' = UnderWay(i)
      BY <1>4, <1>5, <1>12, <2>2 DEF UnderWay
    <3> QED
      BY <1>8, <2>1, <2>2, <3>1, ArrivedIs
  <2>3. CASE i = m
    <3>1. UnderWay(m)' = UnderWay(m) \cup {e}
      BY <1>4, <1>5, <1>12 DEF UnderWay, e
    <3> QED
      BY <1>9, <2>1, <2>3, <3>1, ArrivedIs
  <2> QED
    BY <2>2, <2>3
<1>15. ArrivedParts' = ArrivedParts
  <2>1. ArrivedParts = [i \in Msgs |-> ArrivedParts[i]] /\ ArrivedParts' = [i \in Msgs |-> ArrivedParts'[i]]
    BY DEF ArrivedParts
  <2> HIDE DEF ArrivedParts
  <2> QED
    BY <1>14, <2>1
<1>16. Delivery!Send(m, e)
  BY <1>6, <1>7, <1>9, <1>11, <1>15 DEF Delivery!Send
<1> QED
  BY <1>9, <1>13, <1>16

\* A packet that arrives.
LEMMA ArriveDelivery ==
  ASSUME TypeOK, PartsInv, NEW p \in net, p.kind = "DATA", net' = net \ {p}, HandUp(p),
         UNCHANGED <<created, unsent>>
  PROVE  PartsInv' /\ \E m \in Msgs : \E x \in DataSeqs(m) : Delivery!Arrive(m, x)
<1> DEFINE m == p.msg
           e == EndOf(p)
<1>1. m \in Msgs
  BY PacketTypes
<1>2. SentParts' = SentParts
  BY DEF SentParts
<1>3. \A q : EndOf(q)' = EndOf(q)
  BY DEF EndOf
<1>4. PartsInv'
  BY <1>2, <1>3 DEF PartsInv
<1>5. e \in SentParts[m] /\ p.bytes = PayloadEndingAt(m, e) /\ e \in UnderWay(m)
  BY DEF PartsInv, UnderWay
<1>6. e \in DataSeqs(m)
  BY <1>1, <1>5 DEF SentParts
<1>7. up' = [up EXCEPT ![m] = @ + PayloadEndingAt(m, e)]
  BY <1>5 DEF HandUp
<1>8. UnderWay(m)' = UnderWay(m) \ {e}
  <2>1. \A q \in net : q.kind = "DATA" /\ q.msg = m /\ EndOf(q) = e => q = p
    BY DEF PartsInv
  <2> QED
    BY <1>3, <2>1 DEF UnderWay
<1>9. \A i \in Msgs : i # m => UnderWay(i)' = UnderWay(i)
  BY <1>3 DEF UnderWay
<1> HIDE DEF m, e
<1>10. \A i \in Msgs : ArrivedParts'[i] = SentParts[i] \ UnderWay(i)'
  BY <1>2, <1>3 DEF ArrivedParts, UnderWay
<1>11. ArrivedParts'[m] = ArrivedParts[m] \cup {e}
  BY <1>1, <1>5, <1>8, <1>10, ArrivedIs
<1>12. \A i \in Msgs : i # m => ArrivedParts'[i] = ArrivedParts[i]
  BY <1>9, <1>10, ArrivedIs
<1>13. ArrivedParts' = [ArrivedParts EXCEPT ![m] = @ \cup {e}]
  <2>1. ArrivedParts = [i \in Msgs |-> ArrivedParts[i]] /\ ArrivedParts' = [i \in Msgs |-> ArrivedParts'[i]]
    BY DEF ArrivedParts
  <2> HIDE DEF ArrivedParts
  <2> QED
    BY <1>1, <1>11, <1>12, <2>1
<1>14. e \in SentParts[m] \ ArrivedParts[m]
  BY <1>1, <1>5, ArrivedIs
<1>15. up' = [up EXCEPT ![m] =
               @ + [i \in Msgs |-> [x \in DataSeqs(i) |-> PayloadEndingAt(i, x)]][m][e]]
  BY <1>1, <1>6, <1>7
<1>16. Delivery!Arrive(m, e)
  BY <1>2, <1>13, <1>14, <1>15 DEF Delivery!Arrive
<1> QED
  BY <1>1, <1>4, <1>6, <1>16

\* Every step of the credit loop sends a packet, delivers one, takes a message, or
\* does not concern the delivery.
LEMMA NextDelivery ==
  ASSUME IInv, CutInv, PartsInv, [Next]_vars
  PROVE  PartsInv' /\ [Delivery!Next]_(Delivery!deliveryVars)
<1>1. TypeOK
  BY DEF IInv
<1>2. ASSUME NEW m \in Msgs, Submit(m) PROVE PartsInv' /\ Delivery!Next
  <2>1. UNCHANGED <<unsent, net, up>> /\ m \notin created /\ created' = created \cup {m}
    BY <1>2 DEF Submit, receiverVars
  <2>2. PartsInv' /\ SentParts' = SentParts /\ ArrivedParts' = ArrivedParts
    BY <1>1, <2>1, DeliveryFrame
  <2>3. Delivery!Give(m)
    BY <2>1, <2>2 DEF Delivery!Give
  <2> QED
    BY <2>2, <2>3 DEF Delivery!Next
<1>3. ASSUME UNCHANGED <<created, unsent, up>>,
             \A p : p.kind = "DATA" => (p \in net' <=> p \in net)
      PROVE  PartsInv' /\ UNCHANGED Delivery!deliveryVars
  BY <1>1, <1>3, DeliveryFrame DEF Delivery!deliveryVars
<1>4. ASSUME NEW m \in Msgs, Grant(m) \/ Reap(m)
      PROVE  PartsInv' /\ UNCHANGED Delivery!deliveryVars
  <2>1. UNCHANGED <<created, unsent, up>>
    BY <1>4 DEF Grant, Reap, senderVars
  <2>2. \A p : p.kind = "DATA" => (p \in net' <=> p \in net)
    BY <1>4 DEF Grant, Reap, GrantPkt
  <2> QED
    BY <1>3, <2>1, <2>2
<1>5. ASSUME NEW s \in Senders, Activate(s)
      PROVE  PartsInv' /\ UNCHANGED Delivery!deliveryVars
  <2>1. UNCHANGED <<created, unsent, up>>
    BY <1>5 DEF Activate, receiverVars
  <2>2. \A p : p.kind = "DATA" => (p \in net' <=> p \in net)
    BY <1>5 DEF Activate, GrantReqPkt
  <2> QED
    BY <1>3, <2>1, <2>2
<1>6. ASSUME NEW s \in Senders, SendPacket(s) PROVE PartsInv' /\ Delivery!Next
  BY <1>6, SendDelivery DEF Delivery!Next
<1>7. ASSUME NEW p \in net, ReceiveGrant(p) \/ ReceiveGrantReq(p)
      PROVE  PartsInv' /\ UNCHANGED Delivery!deliveryVars
  <2>1. UNCHANGED <<created, unsent, up>>
    BY <1>7 DEF ReceiveGrant, ReceiveGrantReq, senderVars, receiverVars
  <2>2. \A q : q.kind = "DATA" => (q \in net' <=> q \in net)
    BY <1>7 DEF ReceiveGrant, ReceiveGrantReq
  <2> QED
    BY <1>3, <2>1, <2>2
<1>8. ASSUME NEW p \in net, ReceiveData(p) \/ ReceiveReply(p) PROVE PartsInv' /\ Delivery!Next
  <2>1. p.kind = "DATA" /\ net' = net \ {p} /\ HandUp(p) /\ UNCHANGED <<created, unsent>>
    BY <1>8 DEF ReceiveData, ReceiveReply, senderVars
  <2> QED
    BY <1>1, <2>1, ArriveDelivery DEF Delivery!Next
<1>9. CASE UNCHANGED vars
  BY <1>3, <1>9 DEF vars, senderVars, receiverVars
<1> QED
  BY <1>2, <1>4, <1>5, <1>6, <1>7, <1>8, <1>9 DEF Next, Receive

\* Whatever credit does, the credit loop is a transport that sends every packet of a
\* message it was given once and in order, and delivers each once, in any order.
THEOREM LoopDelivers == Spec => Delivers
<1>1. Init => CutInv /\ PartsInv /\ Delivery!Init
  <2> SUFFICES ASSUME Init PROVE CutInv /\ PartsInv /\ Delivery!Init
    OBVIOUS
  <2>1. net = {} /\ created = {} /\ unsent = Size /\ up = [m \in Msgs |-> 0]
    BY DEF Init
  <2>2. PartsInv
    BY <2>1 DEF PartsInv
  <2>3. CutInv
    <3> SUFFICES ASSUME NEW m \in Msgs PROVE \E j \in Nat : Size[m] - unsent[m] = j * MaxPayload
      BY DEF CutInv
    <3>1. Size[m] - unsent[m] = 0 /\ 0 * MaxPayload = 0
      BY <2>1, SizeType, FramesAssumption
    <3> QED
      BY <3>1
  <2>4. ASSUME NEW m \in Msgs PROVE SentParts[m] = {}
    <3>1. SentParts[m] = {x \in DataSeqs(m) : x <= 0}
      BY <2>1, SizeType DEF SentParts
    <3>2. ASSUME NEW x \in DataSeqs(m) PROVE x > 0
      <4>1. CASE x = Size[m]
        BY <4>1, SizeType
      <4>2. ASSUME NEW k \in 1 .. Size[m] \div MaxPayload, x = k * MaxPayload PROVE x > 0
        <5>1. 1 \in Nat /\ k \in Nat /\ 1 <= k /\ MaxPayload \in Nat /\ MaxPayload > 0
          BY FramesAssumption
        <5>2. 1 * MaxPayload <= k * MaxPayload /\ k * MaxPayload \in Nat /\ 1 * MaxPayload = MaxPayload
          BY <5>1, TimesMono, TimesType
        <5> QED
          BY <4>2, <5>1, <5>2
      <4> QED
        BY <4>1, <4>2 DEF DataSeqs
    <3> QED
      BY <3>1, <3>2, DataSeqsType
  <2>5. SentParts = [m \in Msgs |-> {}]
    <3>1. SentParts = [m \in Msgs |-> SentParts[m]]
      BY DEF SentParts
    <3> HIDE DEF SentParts
    <3> QED
      BY <2>4, <3>1
  <2>6. ArrivedParts = [m \in Msgs |-> {}]
    BY <2>4 DEF ArrivedParts
  <2> QED
    BY <2>1, <2>2, <2>3, <2>5, <2>6 DEF Delivery!Init
<1>2. IInv /\ CutInv /\ [Next]_vars => CutInv'
  BY CutNext
<1>3. IInv /\ CutInv /\ PartsInv /\ [Next]_vars
        => PartsInv' /\ [Delivery!Next]_(Delivery!deliveryVars)
  BY NextDelivery
<1> QED
  BY <1>1, <1>2, <1>3, Invariant, PTL DEF Spec, Delivers, Delivery!Spec
=============================================================================
