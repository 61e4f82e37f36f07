------------------------------ MODULE PhantomPath ------------------------------
(***************************************************************************)
(* The credit loop over a leaf-spine fabric with phantom queues.  The leaf *)
(* switches spread the packets over the spines: MultiPathForwarder         *)
(* (classifier-mpath.cc) sends a grant and the data packet with the same   *)
(* seq over the same spine, so that the phantom queues that a grant was    *)
(* counted in (ppass_ingress) are those of the ports its data goes through.*)
(* Credit is shared by the messages of a sender, so a data packet need not *)
(* be the one its credit was granted for; this module asks whether the     *)
(* counts come right in the end.                                           *)
(***************************************************************************)
EXTENDS HybridCredit

CONSTANTS
  Spines,       \* the paths between the leaf of the receiver and that of a sender
  Receiver,     \* the address of the receiver
  Crc(_)        \* the path the checksum of a key selects

ASSUME PathAssumption ==
  \A src, dst \in Senders \cup {Receiver}, seq \in 0 .. Total(Size, Msgs) :
    Crc(<<src, dst, seq>>) \in Spines

VARIABLE
  owed          \* owed[s][k]: the bytes counted on the path of s over spine k when
                \* grants came by, less the granted bytes that went over it

pathVars == <<vars, owed>>

-----------------------------------------------------------------------------
\* Mutant of Key: source and destination are not swapped.
KeyOneWay(kind, src, dst, seq) == <<src, dst, seq>>

\* What the hash is taken over: the way a grant goes, for both kinds of packet.
Key(kind, src, dst, seq) ==
  IF kind = "REQUEST" THEN <<dst, src, seq>> ELSE <<src, dst, seq>>

GrantSpine(p) == Crc(Key("GRANT", Receiver, Src[p.msg], p.seq))
DataSpine(p)  == Crc(Key("REQUEST", Src[p.msg], Receiver, p.seq))

\* The packets of an unsolicited message are counted when they go out, and so
\* are the control packets and the replies: they owe nothing.
Unpaid(p) == p.unsol > 0 \/ p.msg \in Replies

\* A grant is counted on its way to the sender.
GrantPasses(p) ==
  /\ ReceiveGrant(p)
  /\ owed' = [owed EXCEPT ![Src[p.msg]][GrantSpine(p)] = @ + p.bytes]

DataPasses(s) ==
  /\ SendPacket(s)
  /\ \E p \in net' \ net :
       owed' = IF Unpaid(p) THEN owed
               ELSE [owed EXCEPT ![s][DataSpine(p)] = @ - Wire(p.bytes)]

PathInit == Init /\ owed = [s \in Senders |-> [k \in Spines |-> 0]]

\* The steps that move neither grants nor data over the paths.
OtherStep ==
  \/ \E m \in Msgs : Submit(m) \/ Grant(m) \/ Reap(m)
  \/ \E s \in Senders : Activate(s)
  \/ \E p \in net : ReceiveGrantReq(p) \/ ReceiveData(p) \/ ReceiveReply(p)

PathNext ==
  \/ \E p \in net : GrantPasses(p)
  \/ \E s \in Senders : DataPasses(s)
  \/ OtherStep /\ UNCHANGED owed

PathSpec == PathInit /\ [][PathNext]_pathVars

FairPathSpec == PathSpec /\ Fairness
-----------------------------------------------------------------------------
\* The messages handed over so far are sent, delivered and granted whole.
AllDelivered ==
  /\ net = {}
  /\ \A m \in created : unsent[m] = 0 /\ up[m] = Size[m]
  /\ inbound = {}

\* Whenever the traffic comes to rest, every path has carried exactly the granted
\* bytes that its phantom queues counted, whichever messages spent the credit
\* ("symmetric hash for GRANT and REQUEST packets", classifier-mpath.cc:219).
PathsBalance == AllDelivered => \A s \in Senders, k \in Spines : owed[s][k] = 0
=============================================================================
