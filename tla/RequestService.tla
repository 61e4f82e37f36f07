----------------------------- MODULE RequestService -----------------------------
(***************************************************************************)
(* What the R2P2 layer promises the applications: a request reaches the    *)
(* application it is meant for once and whole, that application answers    *)
(* the requests in the order it got them, and the answer completes the     *)
(* request of the client that asked, once.                                 *)
(***************************************************************************)
EXTENDS Naturals, Sequences

CONSTANTS Clients, Servers, Payloads

VARIABLES
  asked,        \* asked[c]: the requests of client c, in order
  handed,       \* handed[s]: the requests the application of s was given, in order
  answered,     \* answered[s]: how many of these it has answered
  done          \* done[c]: the ids of the requests of c completed, in order

serviceVars == <<asked, handed, answered, done>>

Ids(c) == 0 .. Len(asked[c]) - 1
Request(c, id) == asked[c][id + 1]

Init ==
  /\ asked = [c \in Clients |-> <<>>]
  /\ handed = [s \in Servers |-> <<>>]
  /\ answered = [s \in Servers |-> 0]
  /\ done = [c \in Clients |-> <<>>]

Ask(c, s, payload) ==
  /\ asked' = [asked EXCEPT
       ![c] = Append(@, [client |-> c, id |-> Len(@), server |-> s, payload |-> payload])]
  /\ UNCHANGED <<handed, answered, done>>

Hand(c, id) ==
  LET r == Request(c, id) IN
  /\ \A i \in 1 .. Len(handed[r.server]) : handed[r.server][i] # r
  /\ handed' = [handed EXCEPT ![r.server] = Append(@, r)]
  /\ UNCHANGED <<asked, answered, done>>

Answer(s) ==
  /\ answered[s] < Len(handed[s])
  /\ answered' = [answered EXCEPT ![s] = @ + 1]
  /\ UNCHANGED <<asked, handed, done>>

Complete(c, id) ==
  LET s == Request(c, id).server IN
  /\ \E i \in 1 .. answered[s] : handed[s][i] = Request(c, id)
  /\ \A i \in 1 .. Len(done[c]) : done[c][i] # id
  /\ done' = [done EXCEPT ![c] = Append(@, id)]
  /\ UNCHANGED <<asked, handed, answered>>

Next ==
  \/ \E c \in Clients, s \in Servers, payload \in Payloads : Ask(c, s, payload)
  \/ \E c \in Clients : \E id \in Ids(c) : Hand(c, id) \/ Complete(c, id)
  \/ \E s \in Servers : Answer(s)

Spec == Init /\ [][Next]_serviceVars
=============================================================================
