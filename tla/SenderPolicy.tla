----------------------------- MODULE SenderPolicy -----------------------------
(***************************************************************************)
(* How a sending host divides its uplink among the receivers it has data   *)
(* and credit for: a deficit round robin that is evaluated anew for every  *)
(* packet.  Each packet shares out one unit of deficit, a fair part among  *)
(* all who can send and the rest to the one that is preferred; the largest *)
(* deficit goes first and pays one unit.                                   *)
(***************************************************************************)
EXTENDS Naturals, FiniteSets

CONSTANTS
  Receivers,          \* the destinations of one sender
  None,               \* a null pointer to one
  Unit,               \* a deficit of 1.0: deficits are in units of 1/Unit
  FsWeight            \* fs_weight_; srpt_weight_ is the rest of the Unit

\* The shares of a fair part are whole.
ASSUME PolicyAssumption ==
  /\ IsFiniteSet(Receivers) /\ Receivers # {} /\ None \notin Receivers
  /\ Unit \in Nat \ {0} /\ FsWeight \in 0 .. Unit
  /\ \A n \in 1 .. Cardinality(Receivers) : n * (FsWeight \div n) = FsWeight

VARIABLES
  canSend,            \* the receivers with can_send_, as of the last round
  quantum,            \* quantum_
  deficit,            \* deficit_
  served              \* whose packet select_msg_to_send chose last

vars == <<canSend, quantum, deficit, served>>

-----------------------------------------------------------------------------
\* A new receiver has no deficit and, until the first round, no quantum.
Init ==
  /\ canSend = {}
  /\ quantum = [r \in Receivers |-> 0]
  /\ deficit = [r \in Receivers |-> 0]
  /\ served = None

\* The share of r in a unit, when the receivers ready can send and top is preferred.
Quantum(r, ready, top) ==
  IF r \in ready
    THEN FsWeight \div Cardinality(ready) + (IF r = top THEN Unit - FsWeight ELSE 0)
    ELSE 0

\* The deficits after so many shares; who cannot send loses what it had.
Credited(times, ready, top) ==
  [r \in Receivers |-> IF r \in ready THEN deficit[r] + times * Quantum(r, ready, top) ELSE 0]

Enough(d, ready) == \E r \in ready : d[r] >= Unit

\* The shares are repeated only as long as nobody has a unit to pay.
Shares(times, ready, top) ==
  /\ Enough(Credited(times, ready, top), ready)
  /\ times > 1 => ~Enough(Credited(times - 1, ready, top), ready)

\* Mutant of Largest: any receiver that can pay a unit.
AnyThatPays(d, ready) == {r \in ready : d[r] >= Unit}

Largest(d, ready) == {r \in ready : \A q \in ready : d[q] <= d[r]}

\* Mutant of Select: the receiver that is served pays nothing.
SelectForFree(ready, top) ==
  \E times \in 1 .. Unit :
     LET d == Credited(times, ready, top) IN
     /\ Shares(times, ready, top)
     /\ served' \in Largest(d, ready)
     /\ deficit' = d

\* select_msg_to_send.
Select(ready, top) ==
  \E times \in 1 .. Unit :
     LET d == Credited(times, ready, top) IN
     /\ Shares(times, ready, top)
     /\ served' \in Largest(d, ready)
     /\ deficit' = [d EXCEPT ![served'] = @ - Unit]

\* update_policy_state and select_msg_to_send, as send_data calls them for every
\* packet: ready can send, and top is the one of them with the highest priority.
SendPacket(ready, top) ==
  /\ canSend' = ready
  /\ quantum' = [r \in Receivers |-> Quantum(r, ready, top)]
  /\ Select(ready, top)

\* Nobody can send: all lose their deficits.
SendNothing ==
  /\ canSend' = {}
  /\ quantum' = [r \in Receivers |-> 0]
  /\ deficit' = [r \in Receivers |-> 0]
  /\ served' = None

Next ==
  \/ \E ready \in (SUBSET Receivers) \ {{}} : \E top \in ready : SendPacket(ready, top)
  \/ SendNothing

Spec == Init /\ [][Next]_vars
-----------------------------------------------------------------------------
TypeOK ==
  /\ canSend \subseteq Receivers
  /\ quantum \in [Receivers -> 0 .. Unit]
  /\ deficit \in [Receivers -> Nat]
  /\ served \in canSend \cup {None}

\* "INVARIANT: IF RECEIVER GETS DEFICIT ALLOCATED, IT MUST BE ABLE TO SEND"
\* (r2p2-cc-hybrid.cc:922, asserted at r2p2-hybrid-support.cc:193,275,315): deficits
\* are never hoarded for later.
NoIdleDeficit == \A r \in Receivers \ canSend : deficit[r] = 0

\* Everybody who can send gets a share, as select_msg_to_send asserts of any
\* candidate (r2p2-hybrid-support.cc:306-307); so a preferred receiver cannot
\* take the uplink for itself, whatever the weights ("Both for SRPT and other
\* policies that do part policy part FS", r2p2-cc-hybrid.cc:101).
EverybodyShares == \A r \in canSend : quantum[r] > 0
=============================================================================
