---------------------------- MODULE MessageDelivery ----------------------------
(***************************************************************************)
(* What a transport promises the layer above: of every message it is given *)
(* it sends each packet once, in order, and each packet that was sent      *)
(* arrives once, in any order, and hands up the bytes it carries.  Nothing *)
(* is said of when, that is what credit is for.                            *)
(***************************************************************************)
EXTENDS Naturals

CONSTANTS
  Messages,
  Parts,        \* Parts[m]: the packets of message m, by the byte they end at
  Bytes         \* Bytes[m][x]: what packet x of m carries

VARIABLES
  given,        \* the messages given to the transport so far
  sent,         \* sent[m]: the packets of m that have been sent
  arrived,      \* arrived[m]: those of them that have arrived
  handed        \* handed[m]: the bytes of m handed up

deliveryVars == <<given, sent, arrived, handed>>

Init ==
  /\ given = {}
  /\ sent = [m \in Messages |-> {}]
  /\ arrived = [m \in Messages |-> {}]
  /\ handed = [m \in Messages |-> 0]

Give(m) ==
  /\ m \notin given
  /\ given' = given \cup {m}
  /\ UNCHANGED <<sent, arrived, handed>>

Send(m, x) ==
  /\ m \in given
  /\ sent[m] = {y \in Parts[m] : y < x}
  /\ sent' = [sent EXCEPT ![m] = @ \cup {x}]
  /\ UNCHANGED <<given, arrived, handed>>

Arrive(m, x) ==
  /\ x \in sent[m] \ arrived[m]
  /\ arrived' = [arrived EXCEPT ![m] = @ \cup {x}]
  /\ handed' = [handed EXCEPT ![m] = @ + Bytes[m][x]]
  /\ UNCHANGED <<given, sent>>

Next ==
  \E m \in Messages :
    \/ Give(m)
    \/ \E x \in Parts[m] : Send(m, x) \/ Arrive(m, x)

Spec == Init /\ [][Next]_deliveryVars
=============================================================================
