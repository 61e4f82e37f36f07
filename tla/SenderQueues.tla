----------------------------- MODULE SenderQueues -----------------------------
(***************************************************************************)
(* The messages behind the policy of SenderPolicy: which message a sender  *)
(* offers for each receiver, which receiver that makes the preferred one,  *)
(* and the credit the packets use up.  A message is offered if the credit  *)
(* of its receiver covers its next packet: the shortest one, unless one    *)
(* that still has to be announced can go.                                  *)
(*                                                                         *)
(* The receiver is left out but for the credit it sends: it grants every   *)
(* packet it knows of that the message did not bring the credit for.       *)
(***************************************************************************)
EXTENDS SenderPolicy, Totals, Frames

CONSTANTS
  Msgs,
  Dst,                \* Dst[m]: the receiver of m
  Size,               \* Size[m]: total_bytes_
  Unsolicited         \* the messages that start with credit of their own

ASSUME QueuesAssumption ==
  /\ IsFiniteSet(Msgs)
  /\ Dst \in [Msgs -> Receivers] /\ Size \in [Msgs -> Nat \ {0}]
  /\ Unsolicited \subseteq Msgs

VARIABLES
  left,               \* left[m]: unsent_bytes_
  active,             \* the messages in the out_msgs_ of their receivers
  told,               \* those with sent_anouncement_
  own,                \* own[m]: self_alloc_credit_data_
  owed,               \* owed[m]: the packets of m whose grant has yet to come
  credit,             \* credit[r]: avail_credit_bytes_
  dataCredit          \* dataCredit[r]: avail_credit_data_bytes_

queueVars == <<left, active, told, own, owed, credit, dataCredit>>

-----------------------------------------------------------------------------
\* The packets of m, and the payload of the i-th.
Packets(m) == 1 .. (Size[m] + MaxPayload - 1) \div MaxPayload

Piece(m, i) == IF i * MaxPayload <= Size[m] THEN MaxPayload ELSE Size[m] % MaxPayload

NextPiece(m) == NextPayload(left[m])

\* The packets m brought credit for, and the others, for which the receiver sends it.
Covered(m) == {i \in Packets(m) : (i - 1) * MaxPayload < own[m]}
Granted(m) == Packets(m) \ Covered(m)

\* What the packets in P, pairs of a message and a number, use up.
Cost(P) == Total([p \in P |-> Wire(Piece(p[1], p[2]))], P)

To(r) == {m \in active : Dst[m] = r}

\* Mutant of Fits: any credit will do.
FitsAny(r) == {m \in To(r) : credit[r] > 0}

\* Mutant of Fits: credit that is just enough is not.
FitsStrictly(r) == {m \in To(r) : Wire(NextPiece(m)) < credit[r]}

\* The messages whose next packet the credit for r covers.
Fits(r) == {m \in To(r) : Wire(NextPiece(m)) <= credit[r]}

Ready == {r \in Receivers : Fits(r) # {}}

Shortest(S) == {m \in S : \A n \in S : left[m] <= left[n]}
Longest(S)  == {m \in S : \A n \in S : left[n] <= left[m]}

\* Mutant of Offered: the shortest message, announced or not.
OfferedShortest(r) == Shortest(Fits(r))

\* The loop over the messages to r, shortest first, takes the first that fits and
\* then every one still to be announced: the last of them stays.
Offered(r) ==
  LET untold == Fits(r) \ told
  IN  IF untold = {} THEN Shortest(Fits(r)) ELSE Longest(untold)

\* The receivers of highest priority under sender_policy_ 0 and 1, when offer[r] is
\* the message offered for r: that message counts, even if it is there only to be
\* announced and a shorter one could go.
Preferred(offer) == {r \in Ready : \A q \in Ready : left[offer[r]] <= left[offer[q]]}

Offers == {offer \in [Ready -> active] : \A r \in Ready : offer[r] \in Offered(r)}

QInit ==
  /\ Init
  /\ left = Size
  /\ active = {}
  /\ told = {}
  /\ own = [m \in Msgs |-> 0]
  /\ owed = [m \in Msgs |-> {}]
  /\ credit = [r \in Receivers |-> 0]
  /\ dataCredit = [r \in Receivers |-> 0]

\* The first part of send_data: a message becomes active, with credit of its own for
\* all of its packets or for the first of them, or with an announcement that asks for it.
Activate(m) ==
  LET r    == Dst[m]
      data == SelfCreditData(Size[m], credit[r])
  IN
  /\ m \notin active /\ left[m] = Size[m]
  /\ active' = active \cup {m}
  /\ IF m \in Unsolicited
       THEN /\ credit' = [credit EXCEPT ![r] = @ + SelfCredit(Size[m], @)]
            /\ dataCredit' = [dataCredit EXCEPT ![r] = @ + data]
            /\ own' = [own EXCEPT ![m] = data]
            /\ UNCHANGED <<told, owed>>
       ELSE /\ told' = told \cup {m}
            /\ owed' = [owed EXCEPT ![m] = Packets(m)]
            /\ UNCHANGED <<credit, dataCredit, own>>
  /\ UNCHANGED <<left, vars>>

\* A grant arrives; those for different packets may overtake each other.
Grant(m, i) ==
  /\ i \in owed[m]
  /\ owed' = [owed EXCEPT ![m] = @ \ {i}]
  /\ credit' = [credit EXCEPT ![Dst[m]] = @ + Wire(Piece(m, i))]
  /\ dataCredit' = [dataCredit EXCEPT ![Dst[m]] = @ + Piece(m, i)]
  /\ UNCHANGED <<left, active, told, own, vars>>

\* Mutant of Transmit: headers and padding are not paid for.
TransmitUnpadded(m) ==
  /\ left' = [left EXCEPT ![m] = @ - NextPiece(m)]
  /\ told' = told \cup {m}
  /\ active' = IF left[m] <= MaxPayload THEN active \ {m} ELSE active
  /\ credit' = [credit EXCEPT ![Dst[m]] = @ - NextPiece(m)]
  /\ dataCredit' = [dataCredit EXCEPT ![Dst[m]] = @ - NextPiece(m)]
  /\ owed' = IF m \in told THEN owed ELSE [owed EXCEPT ![m] = Granted(m)]
  /\ UNCHANGED own

\* The next packet of m leaves, and m is removed with its last.  The first one tells the
\* receiver of m and of the credit m gave itself, and the receiver grants the rest.
Transmit(m) ==
  /\ left' = [left EXCEPT ![m] = @ - NextPiece(m)]
  /\ told' = told \cup {m}
  /\ active' = IF left[m] <= MaxPayload THEN active \ {m} ELSE active
  /\ credit' = [credit EXCEPT ![Dst[m]] = @ - Wire(NextPiece(m))]
  /\ dataCredit' = [dataCredit EXCEPT ![Dst[m]] = @ - NextPiece(m)]
  /\ owed' = IF m \in told THEN owed ELSE [owed EXCEPT ![m] = Granted(m)]
  /\ UNCHANGED own

\* Mutant of SendData: deficits are kept over times without messages.
SendDataIdle ==
  \/ \E offer \in Offers : \E top \in Preferred(offer) :
        /\ SendPacket(Ready, top)
        /\ Transmit(offer[served'])
  \/ Ready = {} /\ canSend' = {} /\ served' = None /\ UNCHANGED <<quantum, deficit, queueVars>>

\* The rest of send_data, for one packet.
SendData ==
  \/ \E offer \in Offers : \E top \in Preferred(offer) :
        /\ SendPacket(Ready, top)
        /\ Transmit(offer[served'])
  \/ Ready = {} /\ SendNothing /\ UNCHANGED queueVars

QNext ==
  \/ \E m \in Msgs : Activate(m) \/ \E i \in owed[m] : Grant(m, i)
  \/ SendData

QSpec == QInit /\ [][QNext]_<<vars, queueVars>>

(* Messages are activated and packets sent as long as the poll timer runs, and *)
(* the receiver grants every packet it was asked for.                          *)
FairQSpec ==
  /\ QSpec
  /\ WF_<<vars, queueVars>>(SendData)
  /\ \A m \in Msgs : /\ WF_<<vars, queueVars>>(Activate(m))
                     /\ WF_<<vars, queueVars>>(\E i \in owed[m] : Grant(m, i))
-----------------------------------------------------------------------------
\* No packet overdraws the credit of its receiver.
QTypeOK ==
  /\ TypeOK
  /\ left \in [Msgs -> Nat]
  /\ active \subseteq Msgs /\ told \subseteq Msgs
  /\ \A m \in Msgs : owed[m] \subseteq Packets(m)
  /\ credit \in [Receivers -> Nat]

\* "REMEMBER: PROBLEM when sender self-allocates credit but doesn't tell receiver"
\* (r2p2-cc-hybrid.cc:924): the credit a message brought along, be it for all or for a
\* part of it, is not spent on others before its first packet has told the receiver.
UntoldCovered ==
  \A r \in Receivers : credit[r] >= Cost(UNION {{m} \X Covered(m) : m \in To(r) \ told})

\* "Limit available credit per pipe to 1xBDP" (r2p2-cc-hybrid.cc:807): above max_srpb_
\* the pool of a receiver holds at most a frame for every message that it has yet to
\* hear of, which is the floor at line 809, and what the receiver has sent.
PoolLimited ==
  \A r \in Receivers :
     credit[r] <= MaxSrpb
                    + Cost(UNION {{m} \X {1} : m \in To(r) \ told})
                    + Cost(UNION {{m} \X (Granted(m) \ owed[m]) : m \in {k \in told : Dst[k] = r}})

\* However the messages took turns and whoever's grants they used, nothing is left
\* of the credit when all is sent ("credit is not always aligned",
\* r2p2-cc-hybrid.cc:1053).
CreditUsedUp ==
  \A r \in Receivers :
     To(r) = {} /\ (\A m \in Msgs : Dst[m] = r => owed[m] = {})
        => credit[r] = 0 /\ dataCredit[r] = 0

\* The messages take turns as SenderPolicy says.
Implements == Spec

\* Neither shorter messages nor a preferred receiver hold a message up for ever.
AllSent == <>(\A m \in Msgs : left[m] = 0)
=============================================================================
