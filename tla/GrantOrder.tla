------------------------------ MODULE GrantOrder ------------------------------
(***************************************************************************)
(* The order in which the receiver of HybridCredit hands out its credit:   *)
(* the loop of send_grants over the array of inbound messages, one visit a *)
(* step, for the three policies.  The policies sort the array or keep a    *)
(* place in it, and a visit may delete the message it visits.  The handlers *)
(* of packets add to the array and remove from it between two polls, never *)
(* during one.                                                             *)
(***************************************************************************)
EXTENDS HybridCredit, SequencesExt

CONSTANT Policies     \* values of receiver_policy_: "TS", "SRPT", "BIF"

ASSUME PoliciesAssumption == Policies \subseteq {"TS", "SRPT", "BIF"}

VARIABLES
  policy,             \* receiver_policy_
  order,              \* inbound_: msgs_
  current,            \* its current_
  polling,            \* send_grants is running
  visits,             \* i of its loop
  fed,                \* those it has granted: what fills grant_pacer_backlog_
  failed              \* an exception has ended the simulation

orderVars == <<policy, order, current, polling, visits, fed, failed>>
allVars   == <<vars, orderVars>>

-----------------------------------------------------------------------------
(* The array of inbound messages *)

\* Mutants of PlaceAfter: the place is left alone, or only kept within the array.
PlaceAfterAlone(place, pos, n)  == place
PlaceAfterWithin(place, pos, n) == IF n = 0 THEN 0 ELSE place % n

\* current_, after the message at pos was removed and n are left.
PlaceAfter(place, pos, n) ==
  IF n = 0 THEN 0
  ELSE IF place > pos THEN place - 1
  ELSE IF place = pos THEN place % n
  ELSE place

Position(m) == CHOOSE pos \in 0 .. Len(order) - 1 : order[pos + 1] = m

\* remove(), with the place at which it finds current_.
RemoveMsg(m, place) ==
  /\ order' = RemoveAt(order, Position(m) + 1)
  /\ current' = PlaceAfter(place, Position(m), Len(order) - 1)

\* A handler opens the state of a message at the end of the array, or deletes one.
Keep ==
  IF inbound' \ inbound # {}
    THEN /\ order' = order \o SetToSeq(inbound' \ inbound)
         /\ UNCHANGED current
    ELSE IF inbound \ inbound' # {}
           THEN \E m \in inbound \ inbound' : RemoveMsg(m, current)
           ELSE UNCHANGED <<order, current>>

\* data_bytes_expected_ - data_bytes_received_.  They are unsigned, and the first is 0
\* until the size of the message is known: the difference wraps around and is
\* larger than any other.
Remaining(m) == (IF info[m] THEN Size[m] ELSE 2 * Total(Size, Msgs) + 1) - received[m]

\* What the two sorting policies compare.
Before(m, n) ==
  CASE policy = "SRPT" -> Remaining(m) < Remaining(n)
    [] policy = "BIF"  -> srpb[Src[m]] > srpb[Src[n]]

Sorted(seq) == \A i, j \in 1 .. Len(seq) : i < j => ~Before(seq[j], seq[i])
-----------------------------------------------------------------------------
(* A poll *)

\* The two policies that sort do so once a poll, and equals come in any order.
Start ==
  /\ ~polling /\ ~failed
  /\ polling' = TRUE
  /\ IF policy = "TS"
       THEN UNCHANGED <<order, current>>
       ELSE /\ order' \in {seq \in SetToSeqs(inbound) : Sorted(seq)}
            /\ current' = 0
  /\ UNCHANGED <<policy, visits, fed, failed, vars>>

\* A poll is over: what it counted is forgotten.
End == polling' = FALSE /\ visits' = 0 /\ fed' = {}

GoOn == polling' = TRUE /\ visits' = visits + 1

\* The message to visit next, and where next() goes from there.
Visitee == order[current + 1]
NextPlace == (current + 1) % Len(order)

Settled(m) == Over(m, received[m], granted[m])

\* m could be granted, if there were credit.
Wants(m) == info[m] /\ granted[m] < Size[m]

Affordable(m) ==
  LET need == Wire(GrantData(m)) IN
  /\ budget >= need /\ srpb[Src[m]] >= need
  /\ MaxSrpb - srpb[Src[m]] <= window[Src[m]]

GrantVisit ==
  /\ Grant(Visitee)
  /\ fed' = fed \cup {Visitee}
  /\ current' = NextPlace
  /\ GoOn
  /\ UNCHANGED <<order, failed>>

\* The policies that sort call next() before the message may go.
ReapSorted ==
  /\ policy # "TS"
  /\ Reap(Visitee)
  /\ RemoveMsg(Visitee, NextPlace)
  /\ GoOn
  /\ UNCHANGED <<fed, failed>>

\* Time sharing calls it afterwards: the message that has moved up to the place is
\* passed over, and if there is none next() throws.
ReapShared ==
  /\ policy = "TS"
  /\ Reap(Visitee)
  /\ order' = RemoveAt(order, current + 1)
  /\ failed' = (order' = <<>>)
  /\ IF failed' THEN current' = 0 /\ End
                ELSE /\ current' = (PlaceAfter(current, current, Len(order')) + 1) % Len(order')
                     /\ GoOn
                     /\ UNCHANGED fed

\* Mutant of Breaks: the policies that sort stop at a message they cannot grant.
BreaksWhenSorted(m) == policy # "TS" \/ (Wants(m) /\ budget < Wire(GrantData(m)))

\* Time sharing stops at a message the budget does not do for, and the next poll
\* starts there.
Breaks(m) == policy = "TS" /\ Wants(m) /\ budget < Wire(GrantData(m))

NothingToGrant ==
  /\ ~(Wants(Visitee) /\ Affordable(Visitee))
  /\ ~(info[Visitee] /\ Settled(Visitee))
  /\ IF Breaks(Visitee) THEN End /\ UNCHANGED current
                        ELSE GoOn /\ current' = NextPlace /\ UNCHANGED fed
  /\ UNCHANGED <<vars, order, failed>>

Visit ==
  /\ polling /\ visits < Len(order)
  /\ GrantVisit \/ ReapSorted \/ ReapShared \/ NothingToGrant
  /\ UNCHANGED policy

\* The loop ends, or the pacer ends it once enough has been granted.
Stop ==
  /\ polling
  /\ visits >= Len(order) \/ fed # {}
  /\ End
  /\ UNCHANGED <<policy, order, current, failed, vars>>

-----------------------------------------------------------------------------
\* Everything else happens between two polls.
Between(step) ==
  /\ ~polling /\ ~failed
  /\ step
  /\ Keep
  /\ UNCHANGED <<policy, polling, visits, fed, failed>>

Transfer ==
  \/ \E s \in Senders : Activate(s) \/ SendPacket(s)
  \/ \E p \in net : Receive(p)

OrderInit ==
  /\ Init
  /\ policy \in Policies
  /\ order = <<>>
  /\ current = 0
  /\ polling = FALSE
  /\ visits = 0
  /\ fed = {}
  /\ failed = FALSE

Poll == Start \/ Visit \/ Stop

OrderNext ==
  \/ Poll
  \/ \E m \in Msgs : Between(Submit(m))
  \/ Between(Transfer)

OrderSpec == OrderInit /\ [][OrderNext]_allVars

(* The poll timer sets itself again for ever, and a poll ends.  Polls interrupt   *)
(* the other steps, which get their turn in between; there are finitely many of   *)
(* them, so that fairness to all is fairness to each.  Unlike HybridCredit this   *)
(* assumes nothing of a single message: if it is granted is up to the policy.     *)
FairOrderSpec == OrderSpec /\ WF_allVars(Poll) /\ SF_allVars(Between(Transfer))
-----------------------------------------------------------------------------
\* The array has every inbound message once, and current_ is a place in it: none is
\* lost or passed twice when messages come and go below the place, and at()
\* never throws (r2p2-hybrid-support.cc:745-767,826-834).
OrderKept ==
  /\ ToSet(order) = inbound /\ Len(order) = Cardinality(inbound)
  /\ current < Len(order) \/ current = 0

\* A poll that sorts grants a message only if no shorter one, as yet without a grant
\* in this poll, could have the credit ("srpt", r2p2-cc-hybrid.cc:1628); messages
\* that are deleted in the middle of the loop make it skip none.
GrantsShortest ==
  \A m \in fed' \ fed : policy = "SRPT" =>
    ~\E n \in inbound \ fed : Wants(n) /\ Affordable(n) /\ Remaining(n) < Remaining(m)
ShortestFirst == [][GrantsShortest]_vars

\* Whatever the policy, every message that is submitted is delivered whole, unless
\* the loop has failed ("w/o this, messages can starve", r2p2-cc-hybrid.cc:1607).
Completes == \A m \in Msgs : m \in created ~> (up[m] = Size[m] \/ failed)

\* next() always finds a message: "there is no next() because the array is empty"
\* (r2p2-hybrid-support.cc:841) is never thrown, although the visit before it may
\* have deleted the last one (r2p2-cc-hybrid.cc:1603).
NextFound == ~failed
=============================================================================
