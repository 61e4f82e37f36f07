----------------------------- MODULE HybridCredit -----------------------------
(***************************************************************************)
(* The credit loop of R2p2CCHybrid (r2p2-cc-hybrid.cc), the end-host       *)
(* transport PhantomPass runs on: senders announce messages, one receiver  *)
(* hands out byte credit from a global budget and from one bucket per      *)
(* sender (srpb), every sender spends the credit from a pool that all its  *)
(* messages to that receiver share, and arriving data replenishes the      *)
(* receiver.  Small messages carry self-allocated ("unsolicited") credit,  *)
(* which the receiver learns of from the packets themselves.  The network  *)
(* may deliver the packets in any order and loses none.                    *)
(*                                                                         *)
(* A poll() of a host is a sequence of the steps Grant, Reap, Activate and *)
(* SendPacket below.  The two pacers may end a poll before any of them, so *)
(* a poll that takes several steps leaves the same state as several polls  *)
(* that take one each, and the steps are the actions.                      *)
(***************************************************************************)
EXTENDS Integers, Sequences, FiniteSets, Totals, Frames

CONSTANTS
  Senders,      \* the hosts that send to the receiver
  Msgs,         \* the messages the applications may submit
  Replies,      \* those that are single-packet REPLYs; the others are REQUESTs
  Src,          \* Src[m]: the sender of message m
  Size,         \* Size[m]: its application bytes (req0 included)
  Budget,       \* budget_bytes_ as configured: max_budget_bytes_
  UnsolThresh,  \* unsolicited_thresh_bytes_; -1 means every message
  Windows       \* the values congestion control may give max_srpb_bytes_

ASSUME SetsAssumption ==
  /\ IsFiniteSet(Senders)
  /\ IsFiniteSet(Msgs)
  /\ Replies \subseteq Msgs
  /\ Src \in [Msgs -> Senders]
  /\ Size \in [Msgs -> Nat \ {0}]
  /\ \A m \in Replies : Size[m] < MaxPayload
ASSUME BytesAssumption ==
  /\ Budget \in Nat
  /\ UnsolThresh \in Nat \cup {-1}
  /\ Windows \subseteq 0 .. MaxSrpb /\ MaxSrpb \in Windows

VARIABLES
  \* sender side
  created,      \* messages handed to the transport so far
  inactive,     \* inactive[s]: outbound_inactive_ of s, oldest first
  active,       \* active[s]: the receiver's out_msgs_ at s
  unsent,       \* unsent_bytes_
  announced,    \* messages with sent_anouncement_
  scheduled,    \* messages with is_scheduled_
  selfAlloc,    \* self_alloc_credit_ (wire bytes)
  selfAllocData,\* self_alloc_credit_data_ (application bytes)
  avail,        \* avail[s]: avail_credit_bytes_ of s for the receiver
  \* receiver side
  inbound,      \* messages that have an InboundMsgState
  info,         \* received_msg_info_
  received,     \* data_bytes_received_
  granted,      \* data_bytes_granted_
  grantSeq,     \* seq_ of the InboundMsgState
  budget,       \* budget_bytes_
  srpb,         \* srpb[s]: srpb_bytes_ of the SenderState of s
  window,       \* window[s]: max_srpb_bytes_ of the SenderState of s
  up,           \* up[m]: bytes of m handed to the R2P2 layer
  net           \* the packets in flight

senderVars   == <<inactive, active, unsent, announced, scheduled, selfAlloc, selfAllocData>>
inboundVars  == <<inbound, info, received, granted, grantSeq>>
receiverVars == <<inboundVars, budget, srpb, window, up>>
vars == <<created, senderVars, avail, receiverVars, net>>

-----------------------------------------------------------------------------
(* Packets.  bytes is the credit of a GRANT and the payload of a DATA      *)
(* packet; creditReq stands for credit_req() > 0, which always carries the *)
(* size of the message.                                                    *)
Packet == [kind : {"GRANT_REQ", "GRANT", "DATA"}, msg : Msgs, seq : Nat, bytes : Nat,
           creditReq : BOOLEAN, unsol : Nat, unsolData : Nat]

GrantReqPkt(m) ==
  [kind |-> "GRANT_REQ", msg |-> m, seq |-> 0, bytes |-> 0,
   creditReq |-> TRUE, unsol |-> 0, unsolData |-> 0]

GrantPkt(m, seq, credit) ==
  [kind |-> "GRANT", msg |-> m, seq |-> seq, bytes |-> credit,
   creditReq |-> FALSE, unsol |-> 0, unsolData |-> 0]

\* Mutant of DataPkt: the self-allocated credit is announced without headers.
DataPktBareCredit(m, payload) ==
  [kind |-> "DATA", msg |-> m, bytes |-> payload,
   seq |-> IF m \in Replies THEN 0 ELSE Size[m] - unsent[m] + payload,
   creditReq |-> m \notin scheduled,
   unsol |-> IF m \in scheduled THEN 0 ELSE selfAllocData[m],
   unsolData |-> IF m \in scheduled THEN 0 ELSE selfAllocData[m]]

DataPkt(m, payload) ==
  [kind |-> "DATA", msg |-> m, bytes |-> payload,
   seq |-> IF m \in Replies THEN 0 ELSE Size[m] - unsent[m] + payload,
   creditReq |-> m \notin scheduled,
   unsol |-> IF m \in scheduled THEN 0 ELSE selfAlloc[m],
   unsolData |-> IF m \in scheduled THEN 0 ELSE selfAllocData[m]]
-----------------------------------------------------------------------------
Init ==
  /\ created = {}
  /\ inactive = [s \in Senders |-> <<>>]
  /\ active = [s \in Senders |-> {}]
  /\ unsent = Size
  /\ announced = {}
  /\ scheduled = Msgs
  /\ selfAlloc = [m \in Msgs |-> 0]
  /\ selfAllocData = [m \in Msgs |-> 0]
  /\ avail = [s \in Senders |-> 0]
  /\ inbound = {}
  /\ info = [m \in Msgs |-> FALSE]
  /\ received = [m \in Msgs |-> 0]
  /\ granted = [m \in Msgs |-> 0]
  /\ grantSeq = [m \in Msgs |-> 0]
  /\ budget = Budget
  /\ srpb = [s \in Senders |-> MaxSrpb]
  /\ window = [s \in Senders |-> MaxSrpb]
  /\ up = [m \in Msgs |-> 0]
  /\ net = {}

\* prep_msg_send, sending_request and sending_reply: a new message joins the end
\* of outbound_inactive_ with all its bytes.
PrepMsgSend(m) == inactive' = [inactive EXCEPT ![Src[m]] = Append(@, m)]

\* send_to_transport: the layer above hands over a message.  For a request of
\* several packets the transport answers req0 itself and has the whole message
\* before the call returns.
Submit(m) ==
  /\ m \notin created
  /\ created' = created \cup {m}
  /\ PrepMsgSend(m)
  /\ UNCHANGED <<active, unsent, announced, scheduled, selfAlloc, selfAllocData,
                 avail, receiverVars, net>>

-----------------------------------------------------------------------------
(* Sender: the loops over outbound_inactive_ in send_data() *)

Unsolicited(m) ==
  UnsolThresh = -1 \/ AddHeaderOverhead(Size[m]) <= UnsolThresh

\* The oldest inactive message becomes active: it is given its own credit, or
\* it is announced with a GRANT_REQ.
Activate(s) ==
  LET m == Head(inactive[s]) IN
  /\ inactive[s] # <<>>
  /\ inactive' = [inactive EXCEPT ![s] = Tail(@)]
  /\ active' = [active EXCEPT ![s] = @ \cup {m}]
  /\ IF Unsolicited(m)
       THEN /\ selfAlloc' = [selfAlloc EXCEPT ![m] = SelfCredit(Size[m], avail[s])]
            /\ selfAllocData' = [selfAllocData EXCEPT ![m] = SelfCreditData(Size[m], avail[s])]
            /\ avail' = [avail EXCEPT ![s] = @ + SelfCredit(Size[m], avail[s])]
            /\ scheduled' = scheduled \ {m}
            /\ UNCHANGED <<announced, net>>
       ELSE /\ net' = net \cup {GrantReqPkt(m)}
            /\ announced' = announced \cup {m}
            /\ UNCHANGED <<selfAlloc, selfAllocData, avail, scheduled>>
  /\ UNCHANGED <<created, unsent, receiverVars>>

\* Mutant of Choice: the pool is compared with the payload, without headers.
ChoiceByPayload(s) ==
  {m \in active[s] : avail[s] >= NextPayload(unsent[m]) /\ avail[s] > 0}

\* want_to_send: shortest remaining first among the messages whose next packet
\* the pool can pay for, except that the longest such message that the receiver
\* has not heard of goes before all of them.
Choice(s) ==
  LET fits   == {m \in active[s] : avail[s] >= Wire(NextPayload(unsent[m]))}
      silent == fits \ announced
  IN  IF silent # {} THEN {m \in silent : \A k \in silent : unsent[k] <= unsent[m]}
                     ELSE {m \in fits : \A k \in fits : unsent[m] <= unsent[k]}

SendPacket(s) ==
  /\ inactive[s] = <<>>
  /\ \E m \in Choice(s) :
       LET payload == NextPayload(unsent[m]) IN
       /\ net' = net \cup {DataPkt(m, payload)}
       /\ unsent' = [unsent EXCEPT ![m] = @ - payload]
       /\ avail' = [avail EXCEPT ![s] = @ - Wire(payload)]
       /\ announced' = announced \cup {m}
       /\ active' = [active EXCEPT ![s] = IF unsent[m] = payload THEN @ \ {m} ELSE @]
  /\ UNCHANGED <<created, inactive, scheduled, selfAlloc, selfAllocData, receiverVars>>

\* received_credit
ReceiveGrant(p) ==
  /\ p.kind = "GRANT"
  /\ avail' = [avail EXCEPT ![Src[p.msg]] = @ + p.bytes]
  /\ net' = net \ {p}
  /\ UNCHANGED <<created, senderVars, receiverVars>>

-----------------------------------------------------------------------------
(* Receiver: recv() and received_data() *)

\* The per-message state, created by the first packet that has none.
ReceivedSoFar(m) == IF m \in inbound THEN received[m] ELSE 0
GrantedSoFar(m)  == IF m \in inbound THEN granted[m] ELSE 0
GrantSeqSoFar(m) == IF m \in inbound THEN grantSeq[m] ELSE 0
Informed(m)      == m \in inbound /\ info[m]

\* update_sender_state: every packet of a sender may move its window.
MoveWindow(s) == \E w \in Windows : window' = [window EXCEPT ![s] = w]

ReceiveGrantReq(p) ==
  LET m == p.msg IN
  /\ p.kind = "GRANT_REQ"
  /\ inbound' = inbound \cup {m}
  /\ info' = [info EXCEPT ![m] = TRUE]
  /\ received' = [received EXCEPT ![m] = ReceivedSoFar(m)]
  /\ granted' = [granted EXCEPT ![m] = GrantedSoFar(m)]
  /\ grantSeq' = [grantSeq EXCEPT ![m] = GrantSeqSoFar(m)]
  /\ MoveWindow(Src[m])
  /\ net' = net \ {p}
  /\ UNCHANGED <<created, senderVars, avail, budget, srpb, up>>

\* Mutants of Over: one of the two conditions is missing.
OverWhenGranted(m, rcvd, grnt)  == grnt = Size[m]
OverWhenReceived(m, rcvd, grnt) == rcvd = Size[m]

\* A message is over when it is received whole and granted whole: its grants
\* may have paid for other messages of the sender, its data may have been paid
\* for by their grants.
Over(m, rcvd, grnt) == rcvd = Size[m] /\ grnt = Size[m]

\* Mutant of Settle: self-allocated credit is charged to the budget and not to the
\* bucket.
SettleBudgetOnly(s, charge, payload) ==
  /\ budget' = budget - charge + Wire(payload)
  /\ srpb' = [srpb EXCEPT ![s] = @ + Wire(payload)]

\* A data packet of s gives back what it cost; the first one of a message with
\* credit of its own is charged for all of that credit.
Settle(s, charge, payload) ==
  /\ budget' = budget - charge + Wire(payload)
  /\ srpb' = [srpb EXCEPT ![s] = @ - charge + Wire(payload)]

\* Mutant of HandUp: bytes are counted up to the highest seq seen.
HandUpToSeq(p) ==
  up' = [up EXCEPT ![p.msg] = IF p.seq > @ THEN p.seq ELSE @]

HandUp(p) == up' = [up EXCEPT ![p.msg] = @ + p.bytes]

ReceiveData(p) ==
  LET m      == p.msg
      learns == p.creditReq /\ ~Informed(m)
      knows  == learns \/ Informed(m)
      rcvd   == ReceivedSoFar(m) + p.bytes
      grnt   == IF learns THEN p.unsolData ELSE GrantedSoFar(m)
  IN
  /\ p.kind = "DATA" /\ m \notin Replies
  /\ inbound' = IF knows /\ Over(m, rcvd, grnt) THEN inbound \ {m} ELSE inbound \cup {m}
  /\ info' = [info EXCEPT ![m] = knows]
  /\ received' = [received EXCEPT ![m] = rcvd]
  /\ granted' = [granted EXCEPT ![m] = grnt]
  /\ grantSeq' = [grantSeq EXCEPT ![m] = GrantSeqSoFar(m)]
  /\ Settle(Src[m], IF learns THEN p.unsol ELSE 0, p.bytes)
  /\ MoveWindow(Src[m])
  /\ HandUp(p)
  /\ net' = net \ {p}
  /\ UNCHANGED <<created, senderVars, avail>>

\* A single-packet reply goes straight up, past the credit accounting.
ReceiveReply(p) ==
  /\ p.kind = "DATA" /\ p.msg \in Replies
  /\ HandUp(p)
  /\ MoveWindow(Src[p.msg])
  /\ net' = net \ {p}
  /\ UNCHANGED <<created, senderVars, avail, inboundVars, budget, srpb>>

Receive(p) ==
  ReceiveGrant(p) \/ ReceiveGrantReq(p) \/ ReceiveData(p) \/ ReceiveReply(p)

-----------------------------------------------------------------------------
(* Receiver: send_credit_policy_common() for a message send_grants() visits. *)
(* The policies only differ in the order of the visits.                      *)

\* Mutant of GrantData: what has been granted is not subtracted.
GrantDataOfSize(m) == NextPayload(Size[m])

\* The application bytes of the next grant: those of the next data packet.
GrantData(m) == NextPayload(Size[m] - granted[m])

Grant(m) ==
  LET s    == Src[m]
      data == GrantData(m)
      need == Wire(data)
  IN
  /\ m \in inbound /\ info[m]
  /\ granted[m] < Size[m]
  /\ budget >= need /\ srpb[s] >= need
  /\ MaxSrpb - srpb[s] <= window[s]
  /\ budget' = budget - need
  /\ srpb' = [srpb EXCEPT ![s] = @ - need]
  /\ granted' = [granted EXCEPT ![m] = @ + data]
  /\ grantSeq' = [grantSeq EXCEPT ![m] = @ + data]
  /\ net' = net \cup {GrantPkt(m, grantSeq[m] + data, need)}
  /\ UNCHANGED <<created, senderVars, avail, inbound, info, received, window, up>>

\* Mutant of Reap: state is only deleted when data arrives.
ReapNever(m) == FALSE

\* The last grant went out after the last byte had come in.
Reap(m) ==
  /\ m \in inbound /\ info[m]
  /\ Over(m, received[m], granted[m])
  /\ inbound' = inbound \ {m}
  /\ UNCHANGED <<created, senderVars, avail, info, received, granted, grantSeq,
                 budget, srpb, window, up, net>>

-----------------------------------------------------------------------------
Next ==
  \/ \E m \in Msgs : Submit(m) \/ Grant(m) \/ Reap(m)
  \/ \E s \in Senders : Activate(s) \/ SendPacket(s)
  \/ \E p \in net : Receive(p)

Spec == Init /\ [][Next]_vars

(* Every host polls at a fixed interval for as long as the simulation runs *)
(* and the network delivers every packet; applications need not submit.    *)
Fairness ==
  /\ \A m \in Msgs : WF_vars(Grant(m)) /\ WF_vars(Reap(m))
  /\ \A s \in Senders : WF_vars(Activate(s)) /\ WF_vars(SendPacket(s))
  /\ WF_vars(\E p \in net : Receive(p))

FairSpec == Spec /\ Fairness
-----------------------------------------------------------------------------
(* What the credit loop must keep *)

\* Every variable has its type.  Budget and buckets are plain ints in the code
\* and may be overdrawn by unsolicited data.
TypeOK ==
  /\ created \subseteq Msgs
  /\ inactive \in [Senders -> Seq(Msgs)]
  /\ active \in [Senders -> SUBSET Msgs]
  /\ unsent \in [Msgs -> Nat] /\ \A m \in Msgs : unsent[m] <= Size[m]
  /\ announced \subseteq Msgs
  /\ scheduled \subseteq Msgs
  /\ selfAlloc \in [Msgs -> Nat]
  /\ selfAllocData \in [Msgs -> Nat]
  /\ avail \in [Senders -> Nat]
  /\ inbound \subseteq Msgs
  /\ info \in [Msgs -> BOOLEAN]
  /\ received \in [Msgs -> Nat]
  /\ granted \in [Msgs -> Nat]
  /\ grantSeq \in [Msgs -> Nat]
  /\ budget \in Int
  /\ srpb \in [Senders -> Int]
  /\ window \in [Senders -> Windows]
  /\ up \in [Msgs -> Nat]
  /\ net \subseteq Packet /\ IsFiniteSet(net)

\* The credit of s a packet holds, in wire bytes: a grant's credit, or the
\* credit spent on a data packet that will replenish the receiver.
Load(s) ==
  [p \in Packet |->
     IF Src[p.msg] # s THEN 0
     ELSE IF p.kind = "GRANT" THEN p.bytes
     ELSE IF p.kind = "DATA" /\ p.msg \notin Replies THEN Wire(p.bytes)
     ELSE 0]

\* The self-allocated credit of s the receiver has not accounted for: it hears
\* of a request's with the first data packet, and never of a reply's.
Unaccounted(s) ==
  [m \in Msgs |->
     IF /\ Src[m] = s
        /\ IF m \in Replies THEN unsent[m] > 0 ELSE ~info[m]
       THEN selfAlloc[m] ELSE 0]

\* A single-packet reply is below any threshold that is in use.
RepliesUnsolicited == \A m \in Replies : Unsolicited(m)

\* For every sender, what the receiver's bucket has lent out is exactly what is
\* in flight or in the sender's pool, except for the self-allocated credit the
\* receiver has yet to learn of (r2p2-cc-hybrid.cc:506-508,1135-1136,1757-1759).
\* No interleaving of grants, announcements and data loses or mints a byte.
CreditConserved ==
  RepliesUnsolicited =>
    \A s \in Senders :
      srpb[s] + avail[s] + Total(Load(s), net) = MaxSrpb + Total(Unaccounted(s), Msgs)

\* The payload a DATA packet of m carries.
PayloadOf(m) == [p \in Packet |-> IF p.kind = "DATA" /\ p.msg = m THEN p.bytes ELSE 0]

\* Every byte of a message is unsent, in flight or handed up, once: packets
\* are cut and reassembled without loss or duplication whatever their order
\* (send_data 953-962,1058; received_data 1130).
PayloadConserved ==
  \A m \in Msgs : up[m] + Total(PayloadOf(m), net) + unsent[m] = Size[m]

\* The assertions credit_replenished_ <= credit_granted_ and budget_bytes_ <=
\* max_budget_bytes_ (r2p2-cc-hybrid.cc:1158,1166): the receiver never gets
\* back more credit than it knows to be out.
BudgetWithinMax == budget <= Budget

\* The seq of the data packets a message is cut into, and the payload of the
\* packet that ends at seq.
DataSeqs(m) == {k * MaxPayload : k \in 1 .. Size[m] \div MaxPayload} \cup {Size[m]}
PayloadEndingAt(m, seq) == IF seq % MaxPayload = 0 THEN MaxPayload ELSE seq % MaxPayload

(* The credit loop as a transport.  A packet is known by the byte it ends at; *)
(* the seq of a reply, which is one packet, is left at 0.                     *)
EndOf(p) == IF p.msg \in Replies THEN Size[p.msg] ELSE p.seq

SentParts ==
  [m \in Msgs |-> {x \in DataSeqs(m) : x <= Size[m] - unsent[m]}]

ArrivedParts ==
  [m \in Msgs |-> SentParts[m] \ {EndOf(p) : p \in {q \in net : q.kind = "DATA" /\ q.msg = m}}]

Delivery ==
  INSTANCE MessageDelivery WITH
    Messages <- Msgs,
    Parts    <- [m \in Msgs |-> DataSeqs(m)],
    Bytes    <- [m \in Msgs |-> [x \in DataSeqs(m) |-> PayloadEndingAt(m, x)]],
    given    <- created,
    sent     <- SentParts,
    arrived  <- ArrivedParts,
    handed   <- up

\* Whatever happens to the credit, every packet of a message is sent once and
\* arrives once, in any order (send_data 945-1058, recv 541-547): this is all that
\* the layer above relies on, and credit only says when.
Delivers == Delivery!Spec

\* A grant carries the seq of a data packet of its message and exactly that
\* packet's wire cost ("seq is the data byte seq number",
\* r2p2-cc-hybrid.cc:1800), so that the multipath hash sends the data packet
\* back over the path, and the phantom queues, its grant was charged on.
GrantsMatchData ==
  \A p \in net : p.kind = "GRANT" =>
    /\ p.seq \in DataSeqs(p.msg)
    /\ p.bytes = Wire(PayloadEndingAt(p.msg, p.seq))

\* The receiver deletes the state of a message only when no packet of the
\* message can arrive any more: a message whose state was deleted is never
\* opened again (the double condition at r2p2-cc-hybrid.cc:1182 and 1703; a late
\* packet would start from zero and never complete).
NoRevival == [][\A m \in Msgs : m \notin inbound /\ info[m] => m \notin inbound']_vars

\* Every message that is submitted is delivered whole.  Credit is fungible
\* among the messages of a sender, so fragments too small for any packet may be
\* stranded in the pools; with room for two frames less a byte in each bucket
\* and for one frame next to such a fragment of every sender in the budget,
\* they never are.
Completion == \A m \in Msgs : m \in created ~> up[m] = Size[m]

\* When the traffic stops, all credit is back at the receiver and no state is
\* left behind at either side.
AtRest ==
  /\ budget = Budget
  /\ \A s \in Senders : srpb[s] = MaxSrpb /\ avail[s] = 0 /\ active[s] = {}
  /\ inbound = {}
CreditReturns == <>[]AtRest
=============================================================================
