---------------------------- MODULE R2p2Layer_proofs ----------------------------
(***************************************************************************)
(* Proofs about the R2P2 layer, for any number of clients, servers and     *)
(* requests of any sizes.  The properties are about single requests, and   *)
(* none is inductive: that the answer finds the state of its request, or   *)
(* that a late packet does not open one again, takes where the request is  *)
(* on its way from client to server and back, and that takes a count of    *)
(* the packets of it which have not arrived.                               *)
(***************************************************************************)
EXTENDS R2p2Layer, Totals_proofs

\* The packets of request k under way, and those of them that bring it to a server.
PacketsOf(k) == {p \in net : p.key = k}
Coming(k)    == {p \in PacketsOf(k) : p.type = "REQUEST"}
Answers(k)   == {p \in PacketsOf(k) : p.type = "REPLY"}

\* The bytes of a packet, to be added up.
PayloadOf(P) == [p \in P |-> p.payload]

Waiting(s, k) == \E i \in 1 .. Len(tasks[s]) : tasks[s][i] = k
Handed(s, k)  == \E i \in 1 .. Len(handed[s]) : <<handed[s][i].client, handed[s][i].id>> = k

\* The server has never had anything of the request.
Unknown(s, k) == k \notin DOMAIN serving[s] /\ ~Waiting(s, k) /\ ~Handed(s, k)

\* The four stages of a request k of n packets to server s.
Arriving(k, s, n) ==
  /\ Coming(k) # {} /\ Answers(k) = {}
  /\ IsFiniteSet(Coming(k))
  /\ \A p \in Coming(k) : p.server = s /\ p.pkt_id = n - 1
  /\ \A p, q \in Coming(k) : p.first /\ q.first => p = q
  /\ IF k \in DOMAIN serving[s]
       THEN /\ serving[s][k].received + Cardinality(Coming(k)) = n
            /\ serving[s][k].expected = IF \E p \in Coming(k) : p.first THEN -1 ELSE n
            /\ ~serving[s][k].replied
       ELSE /\ Cardinality(Coming(k)) = n
            /\ \E p \in Coming(k) : p.first
  /\ ~Waiting(s, k) /\ ~Handed(s, k)
  /\ pending[k].live

Queued(k, s) ==
  /\ PacketsOf(k) = {}
  /\ Waiting(s, k)
  /\ k \in DOMAIN serving[s]
  /\ serving[s][k].received = serving[s][k].expected
  /\ ~serving[s][k].replied
  /\ pending[k].live

Answered(k, s) ==
  /\ PacketsOf(k) = {ReplyPacket(k, s)}
  /\ ~Waiting(s, k)
  /\ k \in DOMAIN serving[s] => serving[s][k].replied
  /\ pending[k].live

Completed(k, s) ==
  /\ PacketsOf(k) = {}
  /\ ~Waiting(s, k)
  /\ k \in DOMAIN serving[s] => serving[s][k].replied

Journey(k, s, n) ==
  /\ Arriving(k, s, n) \/ Queued(k, s) \/ Answered(k, s) \/ Completed(k, s)
  /\ \A t \in Servers \ {s} : Unknown(t, k)

\* The request ids a client has yet to use.
Unused(k) == PacketsOf(k) = {} /\ \A t \in Servers : Unknown(t, k)

RequestInv ==
  /\ DOMAIN pending = {k \in Keys : k[2] < nextId[k[1]]}
  /\ \A k \in Keys \ DOMAIN pending : Unused(k)
  /\ \A k \in DOMAIN pending : \E s \in Servers, n \in Nat \ {0} : Journey(k, s, n)

\* A request waits once.
QueueInv ==
  /\ TimerCoversQueue
  /\ \A s \in Servers : \A i, j \in 1 .. Len(tasks[s]) : tasks[s][i] = tasks[s][j] => i = j

\* The parts of the types that TypeOK takes for granted.
ShapeInv ==
  /\ nextId \in [Clients -> Nat]
  /\ DOMAIN serving = Servers
  /\ tasks \in [Servers -> Seq(Keys)]
  /\ handed \in [Servers -> Seq([client : Clients, id : Nat, server : Servers, payload : Nat])]
  /\ \A p \in net : p.payload \in Nat /\ p.pkt_id \in Nat /\ p.first \in BOOLEAN
  /\ \A p \in net : p.type = "REPLY" => p = ReplyPacket(p.key, p.server)

\* The inductive invariant.
LayerInv == TypeOK /\ ShapeInv /\ QueueInv /\ RequestInv

-----------------------------------------------------------------------------
(* Packets *)

LEMMA Constants ==
  /\ Chunk \in Nat /\ Req0 \in Nat /\ 0 < Req0 /\ Req0 < Chunk
  /\ ReplySize \in 1 .. Chunk
  /\ \A payload \in Payloads : payload \in Nat /\ payload > 0
  /\ \A c \in Clients : MaxRequests[c] \in Nat
  BY SizesAssumption

\* The packets hold the bytes, and all but the last do not.
LEMMA CountOfPackets ==
  ASSUME NEW b \in Nat, b > 0
  PROVE  /\ PacketCount(b) \in Nat /\ PacketCount(b) > 0
         /\ b <= PacketCount(b) * Chunk
         /\ (PacketCount(b) - 1) * Chunk < b
         /\ b <= Chunk => PacketCount(b) = 1
<1> DEFINE x == b + Chunk - 1
           q == x \div Chunk
           r == x % Chunk
<1>1. x \in Nat /\ Chunk \in Nat /\ Chunk > 0 /\ b = x - Chunk + 1
  BY Constants
<1> HIDE DEF x
<1>2. q \in Nat /\ r \in 0 .. Chunk - 1 /\ x = q * Chunk + r
  BY <1>1, Quotient
<1>3. PacketCount(b) = q
  BY DEF PacketCount, x
<1> HIDE DEF q, r
<1>4. q * Chunk \in Nat /\ (q - 1) * Chunk = q * Chunk - Chunk
  BY <1>1, <1>2, Z3
<1>5. b <= q * Chunk /\ (q - 1) * Chunk < b
  BY <1>1, <1>2, <1>4
<1>6. q > 0
  <2> SUFFICES ASSUME q = 0 PROVE FALSE
    BY <1>2
  <2>1. 0 * Chunk = 0
    BY <1>1
  <2> QED
    BY <1>5, <2>1
<1>7. ASSUME b <= Chunk PROVE q = 1
  <2> SUFFICES ASSUME q > 1 PROVE FALSE
    BY <1>2, <1>6
  <2>1. (q - 2) * Chunk \in Nat /\ (q - 2) * Chunk = (q - 1) * Chunk - Chunk
    BY <1>1, <1>2, Z3
  <2> QED
    BY <1>1, <1>4, <1>5, <1>7, <2>1
<1> QED
  BY <1>2, <1>3, <1>5, <1>6, <1>7

\* A request has bytes to send, and what REQRDY asks for is not negative.
LEMMA BytesOfRequest ==
  ASSUME NEW payload \in Payloads
  PROVE  BytesLeft(payload) \in Nat /\ MessageBytes(payload) = payload
<1>1. CASE Single(payload)
  BY <1>1, Constants DEF BytesLeft, MessageBytes
<1>2. CASE ~Single(payload)
  <2>1. payload > Chunk
    BY <1>2, Constants, CountOfPackets DEF Single
  <2> QED
    BY <1>2, <2>1, Constants DEF BytesLeft, MessageBytes
<1> QED
  BY <1>1, <1>2

\* The i-th packet, and where it ends.
RequestPacket(k, s, b, i) ==
  [type |-> "REQUEST", key |-> k, server |-> s, first |-> i = 1,
   pkt_id |-> PacketCount(b) - 1,
   payload |-> IF i * Chunk <= b THEN Chunk ELSE b % Chunk,
   seq |-> IF i * Chunk <= b THEN i * Chunk ELSE b]

LEMMA EndOfPacket ==
  ASSUME NEW b \in Nat, b > 0, NEW i \in 1 .. PacketCount(b)
  PROVE  /\ (IF i * Chunk <= b THEN i * Chunk ELSE b) = IF i < PacketCount(b) THEN i * Chunk ELSE b
         /\ i < PacketCount(b) => i * Chunk < b
<1> DEFINE n == PacketCount(b)
<1>1. n \in Nat /\ b <= n * Chunk /\ (n - 1) * Chunk < b /\ Chunk \in Nat
  BY CountOfPackets, Constants
<1>2. i * Chunk \in Nat /\ n * Chunk \in Nat
  BY <1>1
<1> HIDE DEF n
<1>3. CASE i < n
  <2>1. i \in Nat /\ (n - 1 - i) * Chunk \in Nat
    BY <1>1, <1>3 DEF n
  <2>2. (n - 1 - i) * Chunk = (n - 1) * Chunk - i * Chunk /\ (n - 1) * Chunk \in Nat
    BY <1>1, <1>3, <2>1, Z3
  <2>3. i * Chunk < b
    BY <1>1, <1>2, <2>1, <2>2
  <2> QED
    BY <1>2, <1>3, <2>3 DEF n
<1>4. CASE i = n
  BY <1>1, <1>2, <1>4 DEF n
<1> QED
  BY <1>1, <1>3, <1>4 DEF n

\* Packets of a message that differ in their place differ.
LEMMA PacketsDiffer ==
  ASSUME NEW b \in Nat, b > 0, NEW k, NEW s,
         NEW i \in 1 .. PacketCount(b), NEW j \in 1 .. PacketCount(b),
         RequestPacket(k, s, b, i) = RequestPacket(k, s, b, j)
  PROVE  i = j
<1> DEFINE n == PacketCount(b)
<1>1. n \in Nat /\ n > 0 /\ Chunk \in Nat /\ Chunk > 0
  BY CountOfPackets, Constants
<1>2. \A m \in 1 .. n : /\ RequestPacket(k, s, b, m).seq = IF m < n THEN m * Chunk ELSE b
                        /\ m < n => m * Chunk < b
  BY EndOfPacket DEF RequestPacket
<1>3. ASSUME NEW l \in 1 .. n, NEW m \in 1 .. n, l < m
      PROVE  RequestPacket(k, s, b, l) # RequestPacket(k, s, b, m)
  <2> HIDE DEF n
  <2>1. RequestPacket(k, s, b, l).seq = l * Chunk /\ l * Chunk < b /\ l * Chunk \in Nat
    BY <1>1, <1>2, <1>3, Times
  <2>2. CASE m < n
    <3>1. RequestPacket(k, s, b, m).seq = m * Chunk
      BY <1>1, <1>2, <2>2
    <3>2. (l + 1) * Chunk <= m * Chunk
      BY <1>1, <1>3, TimesMono
    <3>3. (l + 1) * Chunk = l * Chunk + Chunk /\ m * Chunk \in Nat
      BY <1>1, OneMore, Times
    <3> QED
      BY <1>1, <2>1, <3>1, <3>2, <3>3
  <2>3. CASE m = n
    <3>1. RequestPacket(k, s, b, m).seq = b
      BY <1>1, <1>2, <2>3
    <3> QED
      BY <2>1, <3>1
  <2> QED
    BY <1>1, <2>2, <2>3
<1> QED
  BY <1>1, <1>3

LEMMA PacketsOfRequest ==
  ASSUME NEW b \in Nat, b > 0, NEW k, NEW s
  PROVE  LET P == RequestPackets(k, s, b)
             n == PacketCount(b)
         IN  /\ IsFiniteSet(P) /\ Cardinality(P) = n
             /\ \A p \in P : /\ p.type = "REQUEST" /\ p.key = k /\ p.server = s /\ p.pkt_id = n - 1
                             /\ p.first \in BOOLEAN /\ p.payload \in Nat
             /\ \E p \in P : p.first
             /\ \A p, q \in P : p.first /\ q.first => p = q
<1> DEFINE P == RequestPackets(k, s, b)
           n == PacketCount(b)
           f == [i \in 1 .. n |-> RequestPacket(k, s, b, i)]
<1>1. n \in Nat /\ n > 0 /\ Chunk \in Nat /\ Chunk > 0 /\ 1 \in 1 .. n
  BY CountOfPackets, Constants
<1>2. P = {RequestPacket(k, s, b, i) : i \in 1 .. n}
  BY DEF RequestPackets, RequestPacket
<1>3. \A i, j \in 1 .. n : RequestPacket(k, s, b, i) = RequestPacket(k, s, b, j) => i = j
  BY PacketsDiffer
<1> HIDE DEF n
<1>5. f \in Surjection(1 .. n, P)
  BY <1>2 DEF Surjection
<1>6. f \in Injection(1 .. n, P)
  <2>1. f \in [1 .. n -> P]
    BY <1>2
  <2>2. ASSUME NEW i \in 1 .. n, NEW j \in 1 .. n, f[i] = f[j] PROVE i = j
    BY <1>3, <2>2
  <2> QED
    BY <2>1, <2>2 DEF Injection, IsInjective
<1>7. IsFiniteSet(1 .. n) /\ Cardinality(1 .. n) = n
  BY <1>1, FS_Interval
<1>8. IsFiniteSet(P) /\ Cardinality(P) = n
  BY <1>5, <1>6, <1>7, FS_Surjection
<1>9. \A p \in P : /\ p.type = "REQUEST" /\ p.key = k /\ p.server = s /\ p.pkt_id = n - 1
                   /\ p.first \in BOOLEAN
  <2>1. ASSUME NEW i \in 1 .. n
        PROVE  LET p == RequestPacket(k, s, b, i)
               IN  /\ p.type = "REQUEST" /\ p.key = k /\ p.server = s /\ p.pkt_id = n - 1
                   /\ p.first \in BOOLEAN
    BY DEF RequestPacket, n
  <2> QED
    BY <1>2, <2>1
<1>10. \A p \in P : p.payload \in Nat
  <2>1. b % Chunk \in Nat
    BY <1>1
  <2>2. \A i \in 1 .. n : RequestPacket(k, s, b, i).payload \in Nat
    BY <1>1, <2>1 DEF RequestPacket
  <2> QED
    BY <1>2, <2>2
<1>11. RequestPacket(k, s, b, 1) \in P /\ RequestPacket(k, s, b, 1).first
  BY <1>1, <1>2 DEF RequestPacket
<1>12. \A p \in P : p.first => p = RequestPacket(k, s, b, 1)
  <2>1. \A i \in 1 .. n : RequestPacket(k, s, b, i).first => i = 1
    BY DEF RequestPacket
  <2> QED
    BY <1>2, <2>1
<1> QED
  BY <1>8, <1>9, <1>10, <1>11, <1>12 DEF n

\* All packets are full but the last, which holds the rest.
LEMMA PayloadOfPacket ==
  ASSUME NEW b \in Nat, b > 0, NEW k, NEW s, NEW i \in 1 .. PacketCount(b)
  PROVE  /\ RequestPacket(k, s, b, i).payload
              = IF i < PacketCount(b) THEN Chunk ELSE b - (i - 1) * Chunk
         /\ RequestPacket(k, s, b, i).payload \in 1 .. Chunk
         /\ (i - 1) * Chunk \in Nat
<1> DEFINE n == PacketCount(b)
<1>1. /\ n \in Nat /\ n > 0 /\ b <= n * Chunk /\ (n - 1) * Chunk < b
      /\ Chunk \in Nat /\ Chunk >= 1 /\ i \in 1 .. n
  BY CountOfPackets, Constants
<1>2. i < n => i * Chunk < b
  BY EndOfPacket
<1>3. RequestPacket(k, s, b, i).payload = IF i * Chunk <= b THEN Chunk ELSE b % Chunk
  BY DEF RequestPacket
<1> HIDE DEF n
<1>4. (i - 1) * Chunk \in Nat /\ i * Chunk = (i - 1) * Chunk + Chunk
  <2>1. PICK l \in Nat : l = i - 1
    BY <1>1
  <2>2. l * Chunk \in Nat /\ (l + 1) * Chunk = l * Chunk + Chunk /\ l + 1 = i
    BY <1>1, <2>1, OneMore
  <2> QED
    BY <2>1, <2>2
<1>5. CASE i < n
  BY <1>1, <1>2, <1>3, <1>4, <1>5 DEF n
<1>6. CASE i = n /\ i * Chunk <= b
  BY <1>1, <1>3, <1>4, <1>6 DEF n
<1>7. CASE i = n /\ ~(i * Chunk <= b)
  <2> DEFINE l == i - 1
             rest == b - l * Chunk
             q == b \div Chunk
             m == b % Chunk
  <2>1. l \in Nat /\ rest \in 0 .. Chunk - 1 /\ rest > 0 /\ l * Chunk + rest = b
    BY <1>1, <1>4, <1>7
  <2>2. q \in Nat /\ m \in 0 .. Chunk - 1 /\ b = q * Chunk + m
    BY <1>1, Quotient
  <2> HIDE DEF l, rest, q, m
  <2>3. l * Chunk + rest = q * Chunk + m
    BY <2>1, <2>2
  <2>4. rest = m
    <3>1. /\ Chunk \in Nat /\ l \in Nat /\ q \in Nat
          /\ rest \in 0 .. Chunk - 1 /\ m \in 0 .. Chunk - 1
      BY <1>1, <2>1, <2>2
    <3> QED
      BY <2>3, <3>1, QuotientIs
  <2>5. RequestPacket(k, s, b, i).payload = rest
    BY <1>3, <1>7, <2>4 DEF m
  <2>6. rest = b - (i - 1) * Chunk
    BY DEF rest, l
  <2> QED
    BY <1>1, <1>4, <1>7, <2>1, <2>5, <2>6 DEF n
<1> QED
  BY <1>1, <1>5, <1>6, <1>7

\* The packets of a message carry all of its bytes: byte x is in packet
\* (x - 1) \div Chunk + 1.
LEMMA BytesOfPackets ==
  ASSUME NEW b \in Nat, b > 0, NEW k, NEW s
  PROVE  Total(PayloadOf(RequestPackets(k, s, b)), RequestPackets(k, s, b)) = b
<1> DEFINE P == RequestPackets(k, s, b)
           n == PacketCount(b)
           pk(i) == RequestPacket(k, s, b, i)
           U == Units(PayloadOf(P), P)
           q(x) == (x - 1) \div Chunk
           r(x) == (x - 1) % Chunk
           f == [x \in 1 .. b |-> <<pk(q(x) + 1), r(x) + 1>>]
<1>1. /\ n \in Nat /\ n > 0 /\ b <= n * Chunk /\ (n - 1) * Chunk < b
      /\ Chunk \in Nat /\ Chunk >= 1
  BY CountOfPackets, Constants
<1>2. \A p : p \in P <=> \E i \in 1 .. n : p = pk(i)
  BY DEF RequestPackets, RequestPacket
<1>3. \A i \in 1 .. n : /\ pk(i).payload = IF i < n THEN Chunk ELSE b - (i - 1) * Chunk
                        /\ pk(i).payload \in 1 .. Chunk
                        /\ (i - 1) * Chunk \in Nat
  BY PayloadOfPacket
<1>4. \A i, j \in 1 .. n : pk(i) = pk(j) => i = j
  BY PacketsDiffer
<1> HIDE DEF P, n, pk
<1>5. \A u : u \in U <=> \E i \in 1 .. n : \E j \in 1 .. pk(i).payload : u = <<pk(i), j>>
  <2> SUFFICES ASSUME NEW u
               PROVE  u \in U <=> \E i \in 1 .. n : \E j \in 1 .. pk(i).payload : u = <<pk(i), j>>
    OBVIOUS
  <2>1. u \in U <=> \E p \in P : \E j \in 1 .. PayloadOf(P)[p] : u = <<p, j>>
    BY UnitOf
  <2>2. \A p \in P : PayloadOf(P)[p] = p.payload
    BY DEF PayloadOf
  <2> QED
    BY <1>2, <2>1, <2>2
<1> HIDE DEF U
<1>6. ASSUME NEW x \in 1 .. b
      PROVE  q(x) \in Nat /\ r(x) \in 0 .. Chunk - 1 /\ x - 1 = q(x) * Chunk + r(x)
             /\ q(x) * Chunk \in Nat
  <2>1. x - 1 \in Nat
    BY <1>1
  <2> QED
    BY <1>1, <2>1, Quotient, Times
<1> HIDE DEF q, r
<1>7. ASSUME NEW x \in 1 .. b PROVE f[x] \in U /\ q(x) + 1 \in 1 .. n
  <2>1. q(x) + 1 <= n
    <3> SUFFICES ASSUME q(x) >= n PROVE FALSE
      BY <1>1, <1>6
    <3>1. n * Chunk <= q(x) * Chunk /\ n * Chunk \in Nat
      BY <1>1, <1>6, TimesMono, Times
    <3> QED
      BY <1>1, <1>6, <3>1
  <2>2. PICK i \in 1 .. n : i = q(x) + 1
    BY <1>1, <1>6, <2>1
  <2>3. r(x) + 1 \in 1 .. pk(i).payload
    <3>1. PICK l \in Nat, m \in 0 .. Chunk - 1 : l = q(x) /\ m = r(x)
      BY <1>6
    <3>2. x - 1 = l * Chunk + m /\ l * Chunk \in Nat /\ i = l + 1 /\ i - 1 = l
      BY <1>6, <2>2, <3>1
    <3>3. PICK y : y = pk(i).payload
      OBVIOUS
    <3>4. y = IF i < n THEN Chunk ELSE b - l * Chunk
      BY <1>3, <3>2, <3>3
    <3>5. m + 1 \in 1 .. y
      BY <1>1, <3>1, <3>2, <3>4
    <3> QED
      BY <3>1, <3>3, <3>5
  <2>4. f[x] = <<pk(i), r(x) + 1>>
    BY <2>2
  <2> QED
    BY <1>5, <2>2, <2>3, <2>4
<1>8. ASSUME NEW x \in 1 .. b, NEW y \in 1 .. b, f[x] = f[y] PROVE x = y
  <2>1. pk(q(x) + 1) = pk(q(y) + 1) /\ r(x) + 1 = r(y) + 1
    BY <1>8
  <2>2. q(x) + 1 = q(y) + 1
    BY <1>4, <1>7, <2>1
  <2>3. q(x) = q(y) /\ r(x) = r(y)
    <3>1. PICK a, c, d, e : a = q(x) /\ c = q(y) /\ d = r(x) /\ e = r(y)
      OBVIOUS
    <3>2. a \in Nat /\ c \in Nat /\ d \in Nat /\ e \in Nat
      BY <1>1, <1>6, <3>1
    <3>3. a + 1 = c + 1 /\ d + 1 = e + 1
      BY <2>1, <2>2, <3>1
    <3> QED
      BY <3>1, <3>2, <3>3
  <2>4. x - 1 = y - 1
    BY <1>6, <2>3
  <2> QED
    BY <2>4
<1>9. ASSUME NEW u \in U PROVE \E x \in 1 .. b : f[x] = u
  <2>1. PICK i \in 1 .. n : \E j \in 1 .. pk(i).payload : u = <<pk(i), j>>
    BY <1>5
  <2>2. PICK j \in 1 .. pk(i).payload : u = <<pk(i), j>>
    BY <2>1
  <2>3. PICK l, m : l = i - 1 /\ m = j - 1
    OBVIOUS
  <2>4. /\ l \in Nat /\ i = l + 1 /\ m \in 0 .. Chunk - 1 /\ j = m + 1 /\ l * Chunk \in Nat
        /\ pk(i).payload = (IF i < n THEN Chunk ELSE b - l * Chunk) /\ j <= pk(i).payload
    BY <1>1, <1>3, <2>2, <2>3
  <2>5. PICK x : x = l * Chunk + m + 1
    OBVIOUS
  <2>6. x <= b
    <3>1. CASE i < n
      <4>1. i * Chunk <= (n - 1) * Chunk
        BY <1>1, <2>4, <3>1, TimesMono
      <4>2. i * Chunk = l * Chunk + Chunk /\ (n - 1) * Chunk \in Nat
        BY <1>1, <2>4, OneMore, Times
      <4> QED
        BY <1>1, <2>4, <2>5, <4>1, <4>2
    <3>2. CASE i = n
      BY <1>1, <2>4, <2>5, <3>2
    <3> QED
      BY <1>1, <3>1, <3>2
  <2>7. x \in 1 .. b /\ x - 1 = l * Chunk + m
    BY <2>4, <2>5, <2>6
  <2>8. q(x) \in Nat /\ r(x) \in 0 .. Chunk - 1 /\ l * Chunk + m = q(x) * Chunk + r(x)
    BY <1>6, <2>7
  <2>9. l = q(x) /\ m = r(x)
    BY <1>1, <2>4, <2>8, QuotientIs
  <2>10. f[x] = u
    BY <2>2, <2>4, <2>7, <2>9
  <2> QED
    BY <2>7, <2>10
<1>10. f \in Surjection(1 .. b, U) /\ f \in Injection(1 .. b, U)
  <2>1. f \in [1 .. b -> U]
    BY <1>7
  <2> HIDE DEF f
  <2>2. f \in Surjection(1 .. b, U)
    BY <1>9, <2>1 DEF Surjection
  <2>3. f \in Injection(1 .. b, U)
    BY <1>8, <2>1 DEF Injection, IsInjective
  <2> QED
    BY <2>2, <2>3
<1>11. IsFiniteSet(1 .. b) /\ Cardinality(1 .. b) = b
  BY FS_Interval
<1>12. Cardinality(U) = b
  BY <1>10, <1>11, FS_Surjection
<1> QED
  BY <1>12 DEF U, P, Total

-----------------------------------------------------------------------------
(* Requests a step does not touch *)

LEMMA KeyType ==
  /\ \A k \in Keys : /\ k[1] \in Clients /\ k[2] \in Nat /\ k = <<k[1], k[2]>>
                     /\ k[2] < MaxRequests[k[1]]
  /\ \A c \in Clients, i \in Nat : i < MaxRequests[c] => <<c, i>> \in Keys
  BY Constants DEF Keys, Ids

\* All that the stage of request k depends on is as before.
SameFor(k) ==
  /\ PacketsOf(k)' = PacketsOf(k)
  /\ k \in DOMAIN pending => pending'[k].live = pending[k].live
  /\ \A t \in Servers :
       /\ Waiting(t, k)' = Waiting(t, k)
       /\ Handed(t, k)' = Handed(t, k)
       /\ k \in DOMAIN serving'[t] =>
            /\ k \in DOMAIN serving[t]
            /\ serving'[t][k].received = serving[t][k].received
            /\ serving'[t][k].expected = serving[t][k].expected
            /\ serving'[t][k].replied = serving[t][k].replied
       /\ k \in DOMAIN serving[t] /\ ~serving[t][k].replied => k \in DOMAIN serving'[t]

LEMMA UnusedFrame ==
  ASSUME NEW k, Unused(k), SameFor(k)
  PROVE  Unused(k)'
  BY DEF Unused, SameFor, Unknown

LEMMA JourneyFrame ==
  ASSUME NEW k \in DOMAIN pending, NEW s \in Servers, NEW n, Journey(k, s, n), SameFor(k)
  PROVE  Journey(k, s, n)'
<1>1. Coming(k)' = Coming(k) /\ Answers(k)' = Answers(k) /\ PacketsOf(k)' = PacketsOf(k)
  BY DEF SameFor, Coming, Answers
<1>2. \A t \in Servers \ {s} : Unknown(t, k)'
  BY DEF Journey, SameFor, Unknown
<1>3. ASSUME Arriving(k, s, n) PROVE Arriving(k, s, n)'
  <2>1. k \in DOMAIN serving[s] <=> k \in DOMAIN serving'[s]
    BY <1>3 DEF Arriving, SameFor
  <2>2. ~Waiting(s, k)' /\ ~Handed(s, k)' /\ pending'[k].live
    BY <1>3 DEF Arriving, SameFor
  <2>3. CASE k \in DOMAIN serving[s]
    <3>1. /\ serving'[s][k].received + Cardinality(Coming(k)) = n
          /\ serving'[s][k].expected = IF \E p \in Coming(k) : p.first THEN -1 ELSE n
          /\ ~serving'[s][k].replied
      BY <1>3, <2>1, <2>3 DEF Arriving, SameFor
    <3> QED
      BY <1>1, <1>3, <2>1, <2>2, <2>3, <3>1 DEF Arriving
  <2>4. CASE k \notin DOMAIN serving[s]
    BY <1>1, <1>3, <2>1, <2>2, <2>4 DEF Arriving
  <2> QED
    BY <2>3, <2>4
<1>4. ASSUME Queued(k, s) PROVE Queued(k, s)'
  BY <1>1, <1>4 DEF Queued, SameFor
<1>5. ASSUME Answered(k, s) PROVE Answered(k, s)'
  BY <1>1, <1>5 DEF Answered, SameFor, ReplyPacket
<1>6. ASSUME Completed(k, s) PROVE Completed(k, s)'
  BY <1>1, <1>6 DEF Completed, SameFor
<1> QED
  BY <1>2, <1>3, <1>4, <1>5, <1>6 DEF Journey

\* A step that concerns one request.
LEMMA OneRequest ==
  ASSUME RequestInv, UNCHANGED nextId, DOMAIN pending' = DOMAIN pending,
         NEW k \in DOMAIN pending,
         \E s \in Servers, n \in Nat \ {0} : Journey(k, s, n)',
         \A j \in Keys \ {k} : SameFor(j)
  PROVE  RequestInv'
<1>1. DOMAIN pending' = {j \in Keys : j[2] < nextId'[j[1]]}
  BY DEF RequestInv
<1>2. \A j \in Keys \ DOMAIN pending' : Unused(j)'
  BY UnusedFrame DEF RequestInv
<1>3. ASSUME NEW j \in DOMAIN pending', j # k
      PROVE  \E s \in Servers, n \in Nat \ {0} : Journey(j, s, n)'
  <2>1. j \in DOMAIN pending /\ SameFor(j)
    BY <1>3 DEF RequestInv
  <2>2. PICK s \in Servers, n \in Nat \ {0} : Journey(j, s, n)
    BY <2>1 DEF RequestInv
  <2>3. Journey(j, s, n)'
    BY <2>1, <2>2, JourneyFrame
  <2> QED
    BY <2>3
<1> QED
  BY <1>1, <1>2, <1>3 DEF RequestInv

\* Every packet under way is one of a request that has been sent.
LEMMA PacketIsOfRequest ==
  ASSUME LayerInv, NEW p \in net
  PROVE  /\ p.key \in DOMAIN pending /\ p.key \in Keys
         /\ p \in PacketsOf(p.key)
         /\ p.type = "REQUEST" => p \in Coming(p.key)
         /\ p.type = "REPLY" => p \in Answers(p.key)
<1>1. p.key \in Keys /\ p \in PacketsOf(p.key)
  BY DEF LayerInv, TypeOK, PacketsOf
<1>2. p.key \in DOMAIN pending
  BY <1>1 DEF LayerInv, RequestInv, Unused
<1> QED
  BY <1>1, <1>2 DEF Coming, Answers

-----------------------------------------------------------------------------
(* Each action *)

LEMMA InitLayerInv == Init => LayerInv
<1> SUFFICES ASSUME Init PROVE LayerInv
  OBVIOUS
<1>1. TypeOK
  BY Constants DEF Init, TypeOK
<1>2. ShapeInv
  BY DEF Init, ShapeInv
<1>3. QueueInv
  BY DEF Init, QueueInv, TimerCoversQueue
<1>4. RequestInv
  <2>1. DOMAIN pending = {} /\ \A s \in Servers : DOMAIN serving[s] = {}
    BY DEF Init
  <2>2. \A k \in Keys : Unused(k)
    BY <2>1 DEF Init, Unused, PacketsOf, Unknown, Waiting, Handed
  <2>3. DOMAIN pending = {k \in Keys : k[2] < nextId[k[1]]}
    BY <2>1, KeyType DEF Init
  <2> QED
    BY <2>1, <2>2, <2>3 DEF RequestInv
<1> QED
  BY <1>1, <1>2, <1>3, <1>4 DEF LayerInv

LEMMA CollectGarbageInv ==
  ASSUME LayerInv, NEW s \in Servers, CollectGarbage(s)
  PROVE  LayerInv'
<1> DEFINE kept == {k \in DOMAIN serving[s] : ~Garbage(serving[s][k])}
<1>1. /\ serving' = [serving EXCEPT ![s] =
           [k \in kept |-> [serving[s][k] EXCEPT !.old = serving[s][k].old \/ serving[s][k].replied]]]
      /\ UNCHANGED <<nextId, pending, tasks, armed, net, handed>>
  BY DEF CollectGarbage, AfterPass
<1>2. TypeOK /\ ShapeInv /\ QueueInv /\ RequestInv
  BY DEF LayerInv
<1>3. /\ DOMAIN serving' = Servers
      /\ \A t \in Servers \ {s} : serving'[t] = serving[t]
      /\ DOMAIN serving'[s] = kept
      /\ \A k \in kept : serving'[s][k] =
           [serving[s][k] EXCEPT !.old = serving[s][k].old \/ serving[s][k].replied]
  BY <1>1, <1>2 DEF ShapeInv
<1>4. ASSUME NEW k \in kept
      PROVE  /\ serving'[s][k] \in [expected : {-1} \cup (Nat \ {0}), received : Nat \ {0},
                                    bytes : Nat, replied : BOOLEAN, old : BOOLEAN]
             /\ serving'[s][k].received = serving[s][k].received
             /\ serving'[s][k].expected = serving[s][k].expected
             /\ serving'[s][k].replied = serving[s][k].replied
  <2>1. serving[s][k] \in [expected : {-1} \cup (Nat \ {0}), received : Nat \ {0},
                           bytes : Nat, replied : BOOLEAN, old : BOOLEAN]
    BY <1>2 DEF TypeOK
  <2> QED
    BY <1>3, <2>1
<1> HIDE DEF kept
<1>5. kept \subseteq DOMAIN serving[s] /\ \A k \in DOMAIN serving[s] : ~serving[s][k].replied => k \in kept
  BY DEF kept, Garbage
<1>6. TypeOK'
  BY <1>1, <1>2, <1>3, <1>4, <1>5 DEF TypeOK
<1>7. ShapeInv' /\ QueueInv'
  BY <1>1, <1>2, <1>3 DEF ShapeInv, QueueInv, TimerCoversQueue, ReplyPacket
<1>8. \A k \in Keys : SameFor(k)
  BY <1>1, <1>3, <1>4, <1>5 DEF SameFor, PacketsOf, Waiting, Handed
<1>9. RequestInv'
  <2>1. CASE DOMAIN pending = {}
    BY <1>1, <1>2, <1>8, <2>1, UnusedFrame DEF RequestInv
  <2>2. CASE DOMAIN pending # {}
    <3>1. PICK k \in DOMAIN pending : TRUE
      BY <2>2
    <3>2. k \in Keys
      BY <1>2, <3>1 DEF RequestInv
    <3>3. PICK t \in Servers, n \in Nat \ {0} : Journey(k, t, n)
      BY <1>2, <3>1 DEF RequestInv
    <3>4. Journey(k, t, n)'
      BY <1>8, <3>1, <3>2, <3>3, JourneyFrame
    <3> QED
      BY <1>1, <1>2, <1>8, <3>1, <3>4, OneRequest
  <2> QED
    BY <2>1, <2>2
<1> QED
  BY <1>6, <1>7, <1>9 DEF LayerInv

\* A new request is at its first stage.
LEMMA SendRequestInv ==
  ASSUME LayerInv, NEW c \in Clients, NEW s \in Servers, NEW payload \in Payloads,
         SendRequest(c, s, payload)
  PROVE  LayerInv'
<1>0. PICK k : k = <<c, nextId[c]>>
  OBVIOUS
<1> DEFINE n == PacketCount(payload)
           P == RequestPackets(k, s, payload)
<1>1. /\ nextId[c] < MaxRequests[c]
      /\ nextId' = [nextId EXCEPT ![c] = nextId[c] + 1]
      /\ pending' = Put(pending, k, NewClientState(payload))
      /\ net' = net \cup P
      /\ UNCHANGED <<serving, tasks, armed, handed>>
  BY <1>0, BytesOfRequest DEF SendRequest, RequestId
<1>2. TypeOK /\ ShapeInv /\ QueueInv /\ RequestInv
  BY DEF LayerInv
<1>3. payload \in Nat /\ payload > 0 /\ nextId[c] \in Nat /\ nextId \in [Clients -> Nat]
  BY <1>2, Constants DEF ShapeInv
<1>4. k \in Keys /\ k[1] = c /\ k[2] = nextId[c]
  BY <1>0, <1>1, <1>3, KeyType
<1>5. k \notin DOMAIN pending /\ Unused(k)
  BY <1>2, <1>3, <1>4 DEF RequestInv
<1>6. /\ IsFiniteSet(P) /\ Cardinality(P) = n
      /\ \A p \in P : /\ p.type = "REQUEST" /\ p.key = k /\ p.server = s /\ p.pkt_id = n - 1
                      /\ p.first \in BOOLEAN /\ p.payload \in Nat
      /\ \E p \in P : p.first
      /\ \A p, q \in P : p.first /\ q.first => p = q
  BY <1>3, PacketsOfRequest
<1>7. n \in Nat /\ n > 0
  BY <1>3, CountOfPackets
<1>8. /\ DOMAIN pending' = DOMAIN pending \cup {k}
      /\ pending'[k] = NewClientState(payload)
      /\ \A j \in DOMAIN pending : j # k => pending'[j] = pending[j]
  BY <1>1 DEF Put
<1> HIDE DEF n, P
<1>9. TypeOK'
  <2>1. NewClientState(payload) \in
          [left : Nat, expected : Nat, received : Nat, bytes : Nat, live : BOOLEAN]
    BY BytesOfRequest DEF NewClientState
  <2>2. \A j \in DOMAIN pending' :
          /\ j \in Keys
          /\ pending'[j] \in
               [left : Nat, expected : Nat, received : Nat, bytes : Nat, live : BOOLEAN]
    BY <1>2, <1>4, <1>5, <1>8, <2>1 DEF TypeOK
  <2>3. \A i \in Clients : nextId'[i] \in 0 .. MaxRequests[i]
    BY <1>1, <1>2, <1>3, Constants DEF TypeOK
  <2>4. \A p \in net' : p.type \in {"REQUEST", "REPLY"} /\ p.key \in Keys /\ p.server \in Servers
    BY <1>1, <1>2, <1>4, <1>6 DEF TypeOK
  <2> QED
    BY <1>1, <1>2, <2>2, <2>3, <2>4 DEF TypeOK
<1>10. ShapeInv'
  <2>1. nextId' \in [Clients -> Nat]
    BY <1>1, <1>3
  <2>2. \A p \in net' : p.payload \in Nat /\ p.pkt_id \in Nat /\ p.first \in BOOLEAN
    BY <1>1, <1>2, <1>6, <1>7 DEF ShapeInv
  <2>3. \A p \in net' : p.type = "REPLY" => p = ReplyPacket(p.key, p.server)
    BY <1>1, <1>2, <1>6 DEF ShapeInv
  <2> QED
    BY <1>1, <1>2, <2>1, <2>2, <2>3 DEF ShapeInv, ReplyPacket
<1>11. QueueInv'
  BY <1>1, <1>2 DEF QueueInv, TimerCoversQueue
<1>12. RequestInv'
  <2>1. DOMAIN pending' = {j \in Keys : j[2] < nextId'[j[1]]}
    <3>1. ASSUME NEW j \in Keys
          PROVE  j[2] < nextId'[j[1]] <=> j[2] < nextId[j[1]] \/ j = k
      <4>1. j[1] \in Clients /\ j[2] \in Nat /\ j = <<j[1], j[2]>>
        BY KeyType
      <4>2. CASE j[1] = c
        BY <1>0, <1>1, <1>3, <4>1, <4>2
      <4>3. CASE j[1] # c
        BY <1>1, <1>3, <1>4, <4>1, <4>3
      <4> QED
        BY <4>2, <4>3
    <3> QED
      BY <1>2, <1>4, <1>8, <3>1 DEF RequestInv
  <2>2. \A j \in Keys \ {k} : SameFor(j)
    <3>1. ASSUME NEW j \in Keys \ {k} PROVE PacketsOf(j)' = PacketsOf(j)
      BY <1>1, <1>6 DEF PacketsOf
    <3> QED
      BY <1>1, <1>8, <3>1 DEF SameFor, Waiting, Handed
  <2>3. \A j \in Keys \ DOMAIN pending' : Unused(j)'
    BY <1>2, <1>8, <2>2, UnusedFrame DEF RequestInv
  <2>4. ASSUME NEW j \in DOMAIN pending
        PROVE  \E t \in Servers, i \in Nat \ {0} : Journey(j, t, i)'
    <3>1. PICK t \in Servers, i \in Nat \ {0} : Journey(j, t, i)
      BY <1>2 DEF RequestInv
    <3>2. j \in Keys \ {k}
      BY <1>2, <1>5 DEF RequestInv
    <3> QED
      BY <2>2, <3>1, <3>2, JourneyFrame
  <2>5. Journey(k, s, n)'
    <3>1. PacketsOf(k)' = P /\ Coming(k)' = P /\ Answers(k)' = {}
      <4>1. PacketsOf(k)' = P
        BY <1>1, <1>5, <1>6 DEF PacketsOf, Unused
      <4> QED
        BY <1>6, <4>1 DEF Coming, Answers
    <3>2. \A t \in Servers : Unknown(t, k)'
      BY <1>1, <1>5 DEF Unused, Unknown, Waiting, Handed
    <3>3. pending'[k].live
      BY <1>8 DEF NewClientState
    <3>4. Arriving(k, s, n)'
      BY <1>6, <3>1, <3>2, <3>3 DEF Arriving, Unknown
    <3> QED
      BY <3>2, <3>4 DEF Journey
  <2> QED
    BY <1>7, <1>8, <2>1, <2>3, <2>4, <2>5 DEF RequestInv
<1> QED
  BY <1>9, <1>10, <1>11, <1>12 DEF LayerInv

\* The end of the queue.
LEMMA AppendWaits ==
  ASSUME NEW S, NEW q \in Seq(S), NEW e \in S
  PROVE  /\ Append(q, e) \in Seq(S) /\ Append(q, e) # <<>>
         /\ Len(Append(q, e)) = Len(q) + 1
         /\ \A i \in 1 .. Len(q) : Append(q, e)[i] = q[i]
         /\ Append(q, e)[Len(q) + 1] = e
  OBVIOUS

\* What a server remembers after a packet.
LEMMA WithPacketType ==
  ASSUME LayerInv, NEW p \in net, p.type = "REQUEST"
  PROVE  LET st == WithPacket(StateOf(p.server, p.key), p)
             old == StateOf(p.server, p.key)
         IN  /\ st \in [expected : {-1} \cup (Nat \ {0}), received : Nat \ {0},
                        bytes : Nat, replied : BOOLEAN, old : BOOLEAN]
             /\ st.received = old.received + 1
             /\ st.expected = IF p.first THEN p.pkt_id + 1 ELSE old.expected
             /\ st.replied = old.replied
             /\ old.received \in Nat
<1> DEFINE old == StateOf(p.server, p.key)
<1>1. old \in [expected : {-1} \cup (Nat \ {0}), received : Nat,
               bytes : Nat, replied : BOOLEAN, old : BOOLEAN]
  <2>1. p.server \in Servers
    BY DEF LayerInv, TypeOK
  <2>2. CASE p.key \in DOMAIN serving[p.server]
    BY <2>1, <2>2 DEF LayerInv, TypeOK, StateOf
  <2>3. CASE p.key \notin DOMAIN serving[p.server]
    BY <2>3 DEF StateOf, NewServerState
  <2> QED
    BY <2>2, <2>3
<1>2. p.payload \in Nat /\ p.pkt_id \in Nat /\ p.first \in BOOLEAN
  BY DEF LayerInv, ShapeInv
<1> HIDE DEF old
<1>3. p.pkt_id + 1 \in Nat \ {0} /\ old.received + 1 \in Nat \ {0} /\ old.bytes + p.payload \in Nat
  BY <1>1, <1>2
<1> QED
  BY <1>1, <1>2, <1>3 DEF WithPacket, old

\* What a server makes of packet p of an arriving request: it remembers state instead of
\* old, and the request is whole when nothing of it is left to come.
TakesIn(p, k, s, old, state) ==
  /\ k \in DOMAIN pending /\ k \in Keys /\ p \in Coming(k) /\ p \in PacketsOf(k)
  /\ k[1] \in Clients /\ k[2] \in Nat /\ k = <<k[1], k[2]>>
  /\ s \in Servers
  /\ \E n \in Nat \ {0} :
       /\ Journey(k, s, n) /\ Arriving(k, s, n) /\ p.pkt_id = n - 1
       /\ state.expected = (IF p.first THEN n ELSE old.expected)
       /\ state.received + Cardinality(Coming(k) \ {p}) = n /\ ~state.replied
       /\ state.expected = IF \E r \in Coming(k) \ {p} : r.first THEN -1 ELSE n
  /\ IsFiniteSet(Coming(k) \ {p})
  /\ state \in [expected : {-1} \cup (Nat \ {0}), received : Nat \ {0},
                bytes : Nat, replied : BOOLEAN, old : BOOLEAN]
  /\ state.expected = state.received <=> Coming(k) \ {p} = {}

\* A packet of a request finds it arriving, and it is whole once the last one is in.
LEMMA NextPacket ==
  ASSUME LayerInv, NEW p \in net, p.type = "REQUEST",
         NEW k, NEW s, NEW old, NEW state,
         k = p.key, s = p.server, old = StateOf(s, k), state = WithPacket(old, p)
  PROVE  TakesIn(p, k, s, old, state)
<1>1. p.type = "REQUEST"
  OBVIOUS
<1>2. TypeOK /\ ShapeInv /\ QueueInv /\ RequestInv
  BY DEF LayerInv
<1>3. k \in DOMAIN pending /\ k \in Keys /\ p \in Coming(k) /\ p \in PacketsOf(k)
      /\ k[1] \in Clients /\ k[2] \in Nat /\ k = <<k[1], k[2]>>
  BY <1>1, PacketIsOfRequest, KeyType
<1>4. PICK t \in Servers, n \in Nat \ {0} : Journey(k, t, n)
  BY <1>2, <1>3 DEF RequestInv
<1>5. Arriving(k, t, n) /\ t = s /\ p.pkt_id = n - 1 /\ s \in Servers
  <2>1. ~Queued(k, t) /\ ~Completed(k, t)
    BY <1>3 DEF Queued, Completed
  <2>2. ~Answered(k, t)
    BY <1>1, <1>3 DEF Answered, ReplyPacket
  <2> QED
    BY <1>3, <1>4, <2>1, <2>2 DEF Journey, Arriving
<1>6. /\ state \in [expected : {-1} \cup (Nat \ {0}), received : Nat \ {0},
                    bytes : Nat, replied : BOOLEAN, old : BOOLEAN]
      /\ state.received = old.received + 1
      /\ state.expected = IF p.first THEN n ELSE old.expected
      /\ state.replied = old.replied
      /\ old.received \in Nat
  <2>1. p.pkt_id + 1 = n
    BY <1>4, <1>5
  <2> QED
    BY <1>1, <2>1, WithPacketType
<1>9. /\ IsFiniteSet(Coming(k) \ {p})
      /\ Cardinality(Coming(k) \ {p}) = Cardinality(Coming(k)) - 1
      /\ Cardinality(Coming(k) \ {p}) \in Nat
  BY <1>3, <1>5, FS_RemoveElement, FS_CardinalityType DEF Arriving
<1>10. Cardinality(Coming(k) \ {p}) = 0 <=> Coming(k) \ {p} = {}
  BY <1>9, FS_EmptySet
<1>11. state.received + Cardinality(Coming(k) \ {p}) = n /\ ~state.replied
  <2>1. old.received + Cardinality(Coming(k)) = n /\ ~old.replied
    <3>1. CASE k \in DOMAIN serving[s]
      BY <1>5, <3>1 DEF Arriving, StateOf
    <3>2. CASE k \notin DOMAIN serving[s]
      <4>1. old.received = 0 /\ ~old.replied
        BY <3>2 DEF StateOf, NewServerState
      <4>2. Cardinality(Coming(k)) = n
        BY <1>5, <3>2 DEF Arriving
      <4> QED
        BY <1>4, <4>1, <4>2
    <3> QED
      BY <3>1, <3>2
  <2>2. Cardinality(Coming(k)) \in Nat
    BY <1>5, FS_CardinalityType DEF Arriving
  <2> QED
    BY <1>6, <1>9, <2>1, <2>2
<1>12. state.expected = IF \E r \in Coming(k) \ {p} : r.first THEN -1 ELSE n
  <2>1. CASE p.first
    <3>1. \A r \in Coming(k) \ {p} : ~r.first
      BY <1>3, <1>5, <2>1 DEF Arriving
    <3> QED
      BY <1>6, <2>1, <3>1
  <2>2. CASE ~p.first
    <3>1. (\E r \in Coming(k) \ {p} : r.first) <=> \E r \in Coming(k) : r.first
      BY <2>2
    <3>2. state.expected = old.expected
      BY <1>6, <2>2
    <3>3. old.expected = IF \E r \in Coming(k) : r.first THEN -1 ELSE n
      BY <1>5 DEF Arriving, StateOf, NewServerState
    <3> QED
      BY <3>1, <3>2, <3>3
  <2> QED
    BY <2>1, <2>2
<1>13. state.expected = state.received <=> Coming(k) \ {p} = {}
  <2>1. CASE Coming(k) \ {p} = {}
    <3>1. state.received = n
      BY <1>4, <1>6, <1>9, <1>10, <1>11, <2>1
    <3> QED
      BY <1>12, <2>1, <3>1
  <2>2. CASE Coming(k) \ {p} # {}
    <3>1. PICK c \in Nat : c = Cardinality(Coming(k) \ {p})
      BY <1>9
    <3>2. c > 0 /\ state.received + c = n /\ state.received \in Nat /\ n \in Nat
      BY <1>4, <1>6, <1>10, <1>11, <2>2, <3>1
    <3>3. state.received # n /\ state.received # -1
      BY <3>2
    <3> QED
      BY <1>12, <2>2, <3>3
  <2> QED
    BY <2>1, <2>2
<1> QED
  BY <1>3, <1>4, <1>5, <1>6, <1>9, <1>11, <1>12, <1>13 DEF TakesIn

\* The next packet of a request arrives; the last one queues it.
LEMMA ReceiveRequestInv ==
  ASSUME LayerInv, NEW p \in net, ReceiveRequest(p)
  PROVE  LayerInv'
<1>0. PICK k, s, old, state :
        k = p.key /\ s = p.server /\ old = StateOf(s, k) /\ state = WithPacket(old, p)
  OBVIOUS
<1> DEFINE Outcome ==
      /\ QueueInv' /\ tasks' \in [Servers -> Seq(Keys)] /\ armed' \in [Servers -> BOOLEAN]
      /\ handed' \in [Servers -> Seq([client : Clients, id : Nat, server : Servers, payload : Nat])]
      /\ \A j \in Keys \ {k} : Waiting(s, j)' = Waiting(s, j) /\ Handed(s, j)' = Handed(s, j)
<1>1. /\ p.type = "REQUEST"
      /\ net' = net \ {p}
      /\ serving' = [serving EXCEPT ![s] = Put(serving[s], k, state)]
      /\ IF state.expected = state.received
           THEN Enqueue(s, k, state.bytes)
           ELSE UNCHANGED <<tasks, armed, handed>>
      /\ UNCHANGED <<nextId, pending>>
  BY <1>0 DEF ReceiveRequest
<1>2. TypeOK /\ ShapeInv /\ QueueInv /\ RequestInv
  BY DEF LayerInv
<1>3. /\ k \in DOMAIN pending /\ k \in Keys /\ p \in Coming(k) /\ p \in PacketsOf(k)
      /\ k[1] \in Clients /\ k[2] \in Nat /\ k = <<k[1], k[2]>>
      /\ s \in Servers /\ TakesIn(p, k, s, old, state)
      /\ IsFiniteSet(Coming(k) \ {p})
      /\ state \in [expected : {-1} \cup (Nat \ {0}), received : Nat \ {0},
                    bytes : Nat, replied : BOOLEAN, old : BOOLEAN]
      /\ state.expected = state.received <=> Coming(k) \ {p} = {}
  <2>1. p.type = "REQUEST" /\ k = p.key /\ s = p.server /\ old = StateOf(s, k) /\ state = WithPacket(old, p)
    BY <1>0, <1>1
  <2>2. TakesIn(p, k, s, old, state)
    BY <2>1, NextPacket
  <2> QED
    BY <2>2 DEF TakesIn
<1>4. PICK n \in Nat \ {0} :
        /\ Journey(k, s, n) /\ Arriving(k, s, n)
        /\ state.received + Cardinality(Coming(k) \ {p}) = n /\ ~state.replied
        /\ state.expected = IF \E r \in Coming(k) \ {p} : r.first THEN -1 ELSE n
  BY <1>3 DEF TakesIn
<1>5. Arriving(k, s, n) /\ s \in Servers
  BY <1>3, <1>4
<1>7. /\ DOMAIN serving' = Servers
      /\ \A r \in Servers \ {s} : serving'[r] = serving[r]
      /\ DOMAIN serving'[s] = DOMAIN serving[s] \cup {k}
      /\ serving'[s][k] = state
      /\ \A j \in DOMAIN serving[s] : j # k => serving'[s][j] = serving[s][j]
  BY <1>1, <1>2, <1>5 DEF ShapeInv, Put
<1> HIDE DEF Outcome
<1>8. /\ Coming(k)' = Coming(k) \ {p} /\ Answers(k)' = {}
      /\ PacketsOf(k)' = Coming(k) \ {p}
  <2>1. PacketsOf(k)' = PacketsOf(k) \ {p} /\ p \in Coming(k)
    BY <1>1, <1>3 DEF PacketsOf
  <2>2. PacketsOf(k) = Coming(k)
    <3>1. \A r \in PacketsOf(k) : r.type \in {"REQUEST", "REPLY"} /\ r \notin Answers(k)
      BY <1>2, <1>5 DEF Arriving, PacketsOf, TypeOK
    <3> QED
      BY <3>1 DEF Coming, Answers
  <2>3. \A r \in Coming(k) : r.type = "REQUEST"
    BY DEF Coming
  <2> QED
    BY <2>1, <2>2, <2>3 DEF Coming, Answers
<1>14. /\ tasks[s] \in Seq(Keys) /\ ~Waiting(s, k) /\ ~Handed(s, k)
       /\ handed[s] \in Seq([client : Clients, id : Nat, server : Servers, payload : Nat])
  BY <1>2, <1>5 DEF ShapeInv, Arriving
<1>15. \A r \in Servers \ {s} : tasks'[r] = tasks[r] /\ handed'[r] = handed[r] /\ armed'[r] = armed[r]
  BY <1>1, <1>2, <1>5 DEF Enqueue, ShapeInv, TypeOK
<1>16. ASSUME state.expected = state.received PROVE Outcome /\ Queued(k, s)'
  <2> DEFINE record == [client |-> k[1], id |-> k[2], server |-> s, payload |-> state.bytes]
  <2>1. /\ tasks' = [tasks EXCEPT ![s] = Append(tasks[s], k)]
        /\ armed' = [armed EXCEPT ![s] = IF tasks[s] = <<>> THEN TRUE ELSE armed[s]]
        /\ handed' = [handed EXCEPT ![s] = Append(handed[s], record)]
    BY <1>1, <1>16 DEF Enqueue
  <2>2. record \in [client : Clients, id : Nat, server : Servers, payload : Nat]
        /\ <<record.client, record.id>> = k
    BY <1>3, <1>5
  <2> HIDE DEF record
  <2>3. /\ tasks'[s] = Append(tasks[s], k) /\ armed'[s] = TRUE
        /\ handed'[s] = Append(handed[s], record)
        /\ tasks' \in [Servers -> Seq(Keys)]
        /\ handed' \in [Servers -> Seq([client : Clients, id : Nat, server : Servers, payload : Nat])]
        /\ armed' \in [Servers -> BOOLEAN]
    <3>1. /\ Append(tasks[s], k) \in Seq(Keys)
          /\ Append(handed[s], record) \in
               Seq([client : Clients, id : Nat, server : Servers, payload : Nat])
      BY <1>3, <1>14, <2>2, AppendWaits
    <3>2. armed[s] <=> tasks[s] # <<>>
      BY <1>2, <1>5 DEF QueueInv, TimerCoversQueue
    <3>3. armed \in [Servers -> BOOLEAN]
      BY <1>2 DEF TypeOK
    <3>4. (IF tasks[s] = <<>> THEN TRUE ELSE armed[s]) = TRUE
      BY <1>5, <3>2, <3>3
    <3>5. armed' = [armed EXCEPT ![s] = TRUE]
      BY <2>1, <3>4
    <3> QED
      BY <1>2, <1>5, <2>1, <3>1, <3>5 DEF ShapeInv, TypeOK
  <2>4. /\ Len(tasks'[s]) = Len(tasks[s]) + 1 /\ Len(tasks[s]) \in Nat
        /\ \A i \in 1 .. Len(tasks[s]) : tasks'[s][i] = tasks[s][i]
        /\ tasks'[s][Len(tasks[s]) + 1] = k /\ tasks'[s] # <<>>
    <3>1. PICK q : q = tasks[s]
      OBVIOUS
    <3>2. q \in Seq(Keys) /\ tasks'[s] = Append(q, k) /\ Len(q) \in Nat
      BY <1>14, <2>3, <3>1
    <3> QED
      BY <1>3, <3>1, <3>2, AppendWaits
  <2>5. /\ Len(handed'[s]) = Len(handed[s]) + 1 /\ Len(handed[s]) \in Nat
        /\ \A i \in 1 .. Len(handed[s]) : handed'[s][i] = handed[s][i]
        /\ handed'[s][Len(handed[s]) + 1] = record
    <3>1. PICK q : q = handed[s]
      OBVIOUS
    <3>2. /\ q \in Seq([client : Clients, id : Nat, server : Servers, payload : Nat])
          /\ handed'[s] = Append(q, record) /\ Len(q) \in Nat
      BY <1>14, <2>3, <3>1
    <3> QED
      BY <2>2, <3>1, <3>2, AppendWaits
  <2>6. /\ Waiting(s, k)'
        /\ \A j \in Keys \ {k} : Waiting(s, j)' = Waiting(s, j) /\ Handed(s, j)' = Handed(s, j)
    <3>3. \A j \in Keys \ {k} : Waiting(s, j)' = Waiting(s, j)
      <4> SUFFICES ASSUME NEW j \in Keys \ {k} PROVE Waiting(s, j)' <=> Waiting(s, j)
        BY DEF Waiting
      <4>1. ASSUME NEW i \in 1 .. Len(tasks'[s]), tasks'[s][i] = j PROVE Waiting(s, j)
        <5>1. i \in 1 .. Len(tasks[s])
          BY <2>4, <4>1
        <5> QED
          BY <2>4, <4>1, <5>1 DEF Waiting
      <4>2. ASSUME NEW i \in 1 .. Len(tasks[s]), tasks[s][i] = j PROVE Waiting(s, j)'
        <5>1. i \in 1 .. Len(tasks'[s])
          BY <2>4, <4>2
        <5> QED
          BY <2>4, <4>2, <5>1 DEF Waiting
      <4> QED
        BY <4>1, <4>2 DEF Waiting
    <3>4. \A j \in Keys \ {k} : Handed(s, j)' = Handed(s, j)
      <4> SUFFICES ASSUME NEW j \in Keys \ {k} PROVE Handed(s, j)' <=> Handed(s, j)
        BY DEF Handed
      <4>1. ASSUME NEW i \in 1 .. Len(handed'[s]), <<handed'[s][i].client, handed'[s][i].id>> = j
            PROVE  Handed(s, j)
        <5>1. i \in 1 .. Len(handed[s])
          BY <2>2, <2>5, <4>1
        <5> QED
          BY <2>5, <4>1, <5>1 DEF Handed
      <4>2. ASSUME NEW i \in 1 .. Len(handed[s]), <<handed[s][i].client, handed[s][i].id>> = j
            PROVE  Handed(s, j)'
        <5>1. i \in 1 .. Len(handed'[s])
          BY <2>5, <4>2
        <5> QED
          BY <2>5, <4>2, <5>1 DEF Handed
      <4> QED
        BY <4>1, <4>2 DEF Handed
    <3>5. Waiting(s, k)'
      BY <2>4 DEF Waiting
    <3> QED
      BY <3>3, <3>4, <3>5
  <2>7. QueueInv'
    <3>1. TimerCoversQueue'
      <4>1. tasks'[s] # <<>>
        BY <2>4
      <4>2. \A r \in Servers \ {s} : armed'[r] <=> tasks'[r] # <<>>
        BY <1>2, <1>15 DEF QueueInv, TimerCoversQueue
      <4> QED
        BY <2>3, <4>1, <4>2 DEF TimerCoversQueue
    <3>2. \A i \in 1 .. Len(tasks[s]) : tasks[s][i] # k
      BY <1>14 DEF Waiting
    <3>3. \A i, j \in 1 .. Len(tasks'[s]) : tasks'[s][i] = tasks'[s][j] => i = j
      <4>2. \A i, j \in 1 .. Len(tasks[s]) : tasks[s][i] = tasks[s][j] => i = j
        BY <1>2, <1>5 DEF QueueInv
      <4> SUFFICES ASSUME NEW i \in 1 .. Len(tasks'[s]), NEW j \in 1 .. Len(tasks'[s]),
                          tasks'[s][i] = tasks'[s][j]
                   PROVE  i = j
        OBVIOUS
      <4>3. CASE i \in 1 .. Len(tasks[s]) /\ j \in 1 .. Len(tasks[s])
        BY <2>4, <4>2, <4>3
      <4>4. CASE i \in 1 .. Len(tasks[s]) /\ j \notin 1 .. Len(tasks[s])
        BY <2>4, <3>2, <4>4
      <4>5. CASE i \notin 1 .. Len(tasks[s]) /\ j \in 1 .. Len(tasks[s])
        BY <2>4, <3>2, <4>5
      <4>6. CASE i \notin 1 .. Len(tasks[s]) /\ j \notin 1 .. Len(tasks[s])
        BY <2>4, <4>6
      <4> QED
        BY <4>3, <4>4, <4>5, <4>6
    <3>4. \A r \in Servers : \A i, j \in 1 .. Len(tasks'[r]) : tasks'[r][i] = tasks'[r][j] => i = j
      BY <1>2, <1>15, <3>3 DEF QueueInv
    <3> QED
      BY <3>1, <3>4 DEF QueueInv
  <2>8. Queued(k, s)'
    <3>1. PacketsOf(k)' = {}
      BY <1>3, <1>8, <1>16
    <3> QED
      BY <1>1, <1>4, <1>5, <1>7, <1>16, <2>6, <3>1 DEF Queued, Arriving
  <2> QED
    BY <2>3, <2>6, <2>7, <2>8 DEF Outcome
<1>17. ASSUME state.expected # state.received PROVE Outcome /\ Arriving(k, s, n)'
  <2>1. UNCHANGED <<tasks, armed, handed>>
    BY <1>1, <1>17
  <2>2. QueueInv'
    BY <1>2, <2>1 DEF QueueInv, TimerCoversQueue
  <2>3. Arriving(k, s, n)'
    <3>1. Coming(k)' # {} /\ IsFiniteSet(Coming(k)')
      BY <1>3, <1>8, <1>17
    <3>2. \A r \in Coming(k)' : r.server = s /\ r.pkt_id = n - 1
      BY <1>5, <1>8 DEF Arriving
    <3>3. \A q, r \in Coming(k)' : q.first /\ r.first => q = r
      BY <1>5, <1>8 DEF Arriving
    <3>4. ~Waiting(s, k)' /\ ~Handed(s, k)' /\ pending'[k].live
      BY <1>1, <1>5, <2>1 DEF Arriving, Waiting, Handed
    <3>5. /\ k \in DOMAIN serving'[s]
          /\ serving'[s][k].received + Cardinality(Coming(k)') = n
          /\ serving'[s][k].expected = IF \E r \in Coming(k)' : r.first THEN -1 ELSE n
          /\ ~serving'[s][k].replied
      BY <1>4, <1>7, <1>8
    <3> QED
      BY <1>8, <3>1, <3>2, <3>3, <3>4, <3>5 DEF Arriving
  <2>4. \A j \in Keys \ {k} : Waiting(s, j)' = Waiting(s, j) /\ Handed(s, j)' = Handed(s, j)
    BY <2>1 DEF Waiting, Handed
  <2> QED
    BY <1>2, <2>1, <2>2, <2>3, <2>4 DEF Outcome, ShapeInv, TypeOK
<1>18. Outcome /\ (Arriving(k, s, n)' \/ Queued(k, s)')
  BY <1>16, <1>17
<1>19. TypeOK' /\ ShapeInv'
  <2>1. \A r \in Servers : \A j \in DOMAIN serving'[r] :
          /\ j \in Keys
          /\ serving'[r][j] \in [expected : {-1} \cup (Nat \ {0}), received : Nat \ {0},
                                 bytes : Nat, replied : BOOLEAN, old : BOOLEAN]
    <3> SUFFICES ASSUME NEW r \in Servers, NEW j \in DOMAIN serving'[r]
                 PROVE  /\ j \in Keys
                        /\ serving'[r][j] \in
                             [expected : {-1} \cup (Nat \ {0}), received : Nat \ {0},
                              bytes : Nat, replied : BOOLEAN, old : BOOLEAN]
      OBVIOUS
    <3>1. CASE r = s /\ j = k
      BY <1>3, <1>7, <3>1
    <3>2. CASE ~(r = s /\ j = k)
      <4>1. j \in DOMAIN serving[r] /\ serving'[r][j] = serving[r][j]
        BY <1>7, <3>2
      <4> QED
        BY <1>2, <4>1 DEF TypeOK
    <3> QED
      BY <3>1, <3>2
  <2>2. TypeOK'
    BY <1>1, <1>2, <1>18, <2>1 DEF TypeOK, Outcome
  <2>3. ShapeInv'
    BY <1>1, <1>2, <1>7, <1>18 DEF ShapeInv, ReplyPacket, Outcome
  <2> QED
    BY <2>2, <2>3
<1>20. RequestInv'
  <2>1. ASSUME NEW j \in Keys \ {k} PROVE SameFor(j)
    <3>1. PacketsOf(j)' = PacketsOf(j)
      BY <1>0, <1>1, <2>1 DEF PacketsOf
    <3>2. ASSUME NEW r \in Servers
          PROVE  Waiting(r, j)' = Waiting(r, j) /\ Handed(r, j)' = Handed(r, j)
      <4>1. CASE r = s
        BY <1>18, <4>1 DEF Outcome
      <4>2. CASE r # s
        BY <1>15, <4>2 DEF Waiting, Handed
      <4> QED
        BY <4>1, <4>2
    <3> QED
      BY <1>1, <1>7, <3>1, <3>2 DEF SameFor
  <2>2. \A r \in Servers \ {s} : Unknown(r, k)'
    BY <1>4, <1>5, <1>7, <1>15 DEF Journey, Unknown, Waiting, Handed
  <2>3. Journey(k, s, n)'
    BY <1>18, <2>2 DEF Journey
  <2>4. \E r \in Servers, i \in Nat \ {0} : Journey(k, r, i)'
    BY <1>4, <1>5, <2>3
  <2> QED
    BY <1>1, <1>2, <1>3, <2>1, <2>4, OneRequest
<1> QED
  BY <1>18, <1>19, <1>20 DEF LayerInv, Outcome

\* The front of the queue.
LEMMA TailWaits ==
  ASSUME NEW S, NEW q \in Seq(S), q # <<>>
  PROVE  /\ Head(q) \in S /\ Head(q) = q[1] /\ Len(q) \in Nat /\ Len(q) > 0
         /\ Tail(q) \in Seq(S) /\ Len(Tail(q)) = Len(q) - 1
         /\ \A i \in 1 .. Len(q) - 1 : Tail(q)[i] = q[i + 1]
  OBVIOUS

\* A request that is answered was at its second stage.
LEMMA RespondInv ==
  ASSUME LayerInv, NEW s \in Servers, Respond(s)
  PROVE  LayerInv'
<1>0. PICK k, q : k = Head(tasks[s]) /\ q = tasks[s]
  OBVIOUS
<1>1. /\ armed[s]
      /\ serving' = [serving EXCEPT ![s][k].replied = TRUE]
      /\ net' = net \cup {ReplyPacket(k, s)}
      /\ tasks' = [tasks EXCEPT ![s] = Tail(q)]
      /\ armed' = [armed EXCEPT ![s] = Tail(q) # <<>>]
      /\ UNCHANGED <<nextId, pending, handed>>
  BY <1>0 DEF Respond, Dequeue
<1>2. TypeOK /\ ShapeInv /\ QueueInv /\ RequestInv
  BY DEF LayerInv
<1>3. /\ q \in Seq(Keys) /\ q # <<>> /\ k = Head(q) /\ tasks[s] = q
      /\ \A i, j \in 1 .. Len(q) : q[i] = q[j] => i = j
  BY <1>0, <1>1, <1>2 DEF ShapeInv, QueueInv, TimerCoversQueue
<1>4. /\ k \in Keys /\ k = q[1] /\ Len(q) \in Nat /\ Len(q) > 0
      /\ Tail(q) \in Seq(Keys) /\ Len(Tail(q)) = Len(q) - 1
      /\ \A i \in 1 .. Len(q) - 1 : Tail(q)[i] = q[i + 1]
  BY <1>3, TailWaits
<1>5. Waiting(s, k)
  <2>1. 1 \in 1 .. Len(tasks[s]) /\ tasks[s][1] = k
    BY <1>3, <1>4
  <2> QED
    BY <2>1 DEF Waiting
<1>6. k \in DOMAIN pending
  BY <1>2, <1>4, <1>5 DEF RequestInv, Unused, Unknown
<1>7. PICK t \in Servers, n \in Nat \ {0} : Journey(k, t, n)
  BY <1>2, <1>6 DEF RequestInv
<1>8. t = s /\ Queued(k, s)
  BY <1>5, <1>7 DEF Journey, Unknown, Arriving, Queued, Answered, Completed
<1>9. /\ DOMAIN serving' = Servers
      /\ \A r \in Servers \ {s} : serving'[r] = serving[r]
      /\ DOMAIN serving'[s] = DOMAIN serving[s]
      /\ serving'[s][k] = [serving[s][k] EXCEPT !.replied = TRUE]
      /\ \A j \in DOMAIN serving[s] : j # k => serving'[s][j] = serving[s][j]
  BY <1>1, <1>2, <1>8 DEF ShapeInv, Queued
<1>10. /\ serving'[s][k] \in [expected : {-1} \cup (Nat \ {0}), received : Nat \ {0},
                              bytes : Nat, replied : BOOLEAN, old : BOOLEAN]
       /\ serving'[s][k].replied
  <2>1. serving[s][k] \in [expected : {-1} \cup (Nat \ {0}), received : Nat \ {0},
                           bytes : Nat, replied : BOOLEAN, old : BOOLEAN]
    BY <1>2, <1>8 DEF TypeOK, Queued
  <2> QED
    BY <1>9, <2>1
<1>11. /\ tasks' \in [Servers -> Seq(Keys)] /\ armed' \in [Servers -> BOOLEAN]
       /\ tasks'[s] = Tail(q) /\ (armed'[s] <=> Tail(q) # <<>>)
       /\ \A r \in Servers \ {s} : tasks'[r] = tasks[r] /\ armed'[r] = armed[r]
  BY <1>1, <1>2, <1>4 DEF ShapeInv, TypeOK
<1>12. LET p == ReplyPacket(k, s)
       IN  /\ p.type = "REPLY" /\ p.key = k /\ p.server = s
           /\ p.payload \in Nat /\ p.pkt_id \in Nat /\ p.first \in BOOLEAN
  BY Constants, CountOfPackets DEF ReplyPacket
<1>13. \A j \in Keys : Waiting(s, j)' <=> Waiting(s, j) /\ j # k
  <2> SUFFICES ASSUME NEW j \in Keys PROVE Waiting(s, j)' <=> Waiting(s, j) /\ j # k
    OBVIOUS
  <2>1. ASSUME NEW i \in 1 .. Len(tasks'[s]), tasks'[s][i] = j PROVE Waiting(s, j) /\ j # k
    <3>1. i \in 1 .. Len(q) - 1 /\ i + 1 \in 1 .. Len(q) /\ i + 1 # 1 /\ 1 \in 1 .. Len(q)
      BY <1>4, <1>11, <2>1
    <3>2. q[i + 1] = j
      BY <1>4, <1>11, <2>1, <3>1
    <3> QED
      BY <1>3, <1>4, <3>1, <3>2 DEF Waiting
  <2>2. ASSUME NEW i \in 1 .. Len(tasks[s]), tasks[s][i] = j, j # k PROVE Waiting(s, j)'
    <3>1. i # 1 /\ i \in Nat
      BY <1>3, <1>4, <2>2
    <3>2. i - 1 \in 1 .. Len(q) - 1 /\ (i - 1) + 1 = i
      BY <1>3, <1>4, <2>2, <3>1
    <3>3. tasks'[s][i - 1] = j /\ i - 1 \in 1 .. Len(tasks'[s])
      BY <1>3, <1>4, <1>11, <2>2, <3>2
    <3> QED
      BY <3>3 DEF Waiting
  <2> QED
    BY <2>1, <2>2 DEF Waiting
<1>14. TypeOK'
  <2>1. ASSUME NEW r \in Servers, NEW j \in DOMAIN serving'[r]
        PROVE  /\ j \in Keys
               /\ serving'[r][j] \in [expected : {-1} \cup (Nat \ {0}), received : Nat \ {0},
                                      bytes : Nat, replied : BOOLEAN, old : BOOLEAN]
    <3>1. CASE r = s /\ j = k
      BY <1>4, <1>10, <3>1
    <3>2. CASE ~(r = s /\ j = k)
      <4>1. j \in DOMAIN serving[r] /\ serving'[r][j] = serving[r][j]
        BY <1>9, <2>1, <3>2
      <4> QED
        BY <1>2, <4>1 DEF TypeOK
    <3> QED
      BY <3>1, <3>2
  <2>2. \A p \in net' : p.type \in {"REQUEST", "REPLY"} /\ p.key \in Keys /\ p.server \in Servers
    BY <1>1, <1>2, <1>4, <1>12 DEF TypeOK
  <2> QED
    BY <1>1, <1>2, <1>11, <2>1, <2>2 DEF TypeOK
<1>15. ShapeInv'
  <2>1. \A p \in net' : p.payload \in Nat /\ p.pkt_id \in Nat /\ p.first \in BOOLEAN
    BY <1>1, <1>2, <1>12 DEF ShapeInv
  <2>2. \A p \in net' : p.type = "REPLY" => p = ReplyPacket(p.key, p.server)
    BY <1>1, <1>2, <1>12 DEF ShapeInv
  <2> QED
    BY <1>1, <1>2, <1>9, <1>11, <2>1, <2>2 DEF ShapeInv, ReplyPacket
<1>16. QueueInv'
  <2>1. TimerCoversQueue'
    <3>1. \A r \in Servers \ {s} : armed'[r] <=> tasks'[r] # <<>>
      BY <1>2, <1>11 DEF QueueInv, TimerCoversQueue
    <3> QED
      BY <1>11, <3>1 DEF TimerCoversQueue
  <2>2. \A i, j \in 1 .. Len(tasks'[s]) : tasks'[s][i] = tasks'[s][j] => i = j
    <3> SUFFICES ASSUME NEW i \in 1 .. Len(q) - 1, NEW j \in 1 .. Len(q) - 1,
                        Tail(q)[i] = Tail(q)[j]
                 PROVE  i = j
      BY <1>4, <1>11
    <3>1. i + 1 \in 1 .. Len(q) /\ j + 1 \in 1 .. Len(q) /\ q[i + 1] = q[j + 1]
      BY <1>4
    <3>2. i + 1 = j + 1
      BY <1>3, <3>1
    <3> QED
      BY <1>4, <3>2
  <2>3. \A r \in Servers : \A i, j \in 1 .. Len(tasks'[r]) : tasks'[r][i] = tasks'[r][j] => i = j
    BY <1>2, <1>11, <2>2 DEF QueueInv
  <2> QED
    BY <2>1, <2>3 DEF QueueInv
<1>17. RequestInv'
  <2>1. ASSUME NEW j \in Keys \ {k} PROVE SameFor(j)
    <3>1. PacketsOf(j)' = PacketsOf(j)
      BY <1>1, <1>12 DEF PacketsOf
    <3>2. \A r \in Servers : Waiting(r, j)' = Waiting(r, j)
      <4>1. Waiting(s, j)' = Waiting(s, j)
        <5>1. Waiting(s, j)' <=> Waiting(s, j)
          BY <1>13
        <5> QED
          BY <5>1 DEF Waiting
      <4>2. \A r \in Servers \ {s} : Waiting(r, j)' = Waiting(r, j)
        BY <1>11 DEF Waiting
      <4> QED
        BY <4>1, <4>2
    <3>3. \A r \in Servers : Handed(r, j)' = Handed(r, j)
      BY <1>1 DEF Handed
    <3> QED
      BY <1>1, <1>9, <3>1, <3>2, <3>3 DEF SameFor
  <2>2. \A r \in Servers \ {s} : Unknown(r, k)'
    BY <1>1, <1>7, <1>8, <1>9, <1>11 DEF Journey, Unknown, Waiting, Handed
  <2>3. Answered(k, s)'
    <3>1. PacketsOf(k)' = {ReplyPacket(k, s)}
      BY <1>1, <1>8, <1>12 DEF PacketsOf, Queued
    <3> QED
      BY <1>1, <1>4, <1>8, <1>10, <1>13, <3>1 DEF Answered, Queued, ReplyPacket
  <2>4. \E r \in Servers, i \in Nat \ {0} : Journey(k, r, i)'
    BY <1>7, <2>2, <2>3 DEF Journey
  <2> QED
    BY <1>1, <1>2, <1>6, <2>1, <2>4, OneRequest
<1> QED
  BY <1>14, <1>15, <1>16, <1>17 DEF LayerInv

\* The reply arrives at a client that waits for it.
LEMMA ReceiveReplyInv ==
  ASSUME LayerInv, NEW p \in net, ReceiveReply(p)
  PROVE  LayerInv'
<1>0. PICK k, state :
        /\ k = p.key
        /\ state = [pending[k] EXCEPT !.received = pending[k].received + 1,
                       !.expected = IF p.first THEN p.pkt_id ELSE pending[k].expected,
                       !.bytes = pending[k].bytes + p.payload,
                       !.live = pending[k].live /\
                         ~(pending[k].received + 1 =
                             IF p.first THEN p.pkt_id ELSE pending[k].expected)]
  OBVIOUS
<1>1. /\ p.type = "REPLY"
      /\ net' = net \ {p}
      /\ pending' = [pending EXCEPT ![k] = state]
      /\ UNCHANGED <<nextId, serving, tasks, armed, handed>>
  BY <1>0 DEF ReceiveReply
<1>2. TypeOK /\ ShapeInv /\ QueueInv /\ RequestInv
  BY DEF LayerInv
<1>3. k \in DOMAIN pending /\ k \in Keys /\ p \in Answers(k) /\ p \in PacketsOf(k)
  BY <1>0, <1>1, PacketIsOfRequest
<1>4. PICK t \in Servers, n \in Nat \ {0} : Journey(k, t, n)
  BY <1>2, <1>3 DEF RequestInv
<1>5. Answered(k, t)
  BY <1>3, <1>4 DEF Journey, Arriving, Queued, Completed
<1>6. DOMAIN pending' = DOMAIN pending /\ \A j \in DOMAIN pending : j # k => pending'[j] = pending[j]
  BY <1>1
<1>7. TypeOK'
  <2>1. pending[k] \in [left : Nat, expected : Nat, received : Nat, bytes : Nat, live : BOOLEAN]
    BY <1>2, <1>3 DEF TypeOK
  <2>2. p.payload \in Nat /\ p.pkt_id \in Nat
    BY <1>2 DEF ShapeInv
  <2>3. state \in [left : Nat, expected : Nat, received : Nat, bytes : Nat, live : BOOLEAN]
    <3>1. PICK old, expected, live :
            /\ old = pending[k]
            /\ expected = IF p.first THEN p.pkt_id ELSE old.expected
            /\ live = (old.live /\ ~(old.received + 1 = expected))
      OBVIOUS
    <3>2. /\ old \in [left : Nat, expected : Nat, received : Nat, bytes : Nat, live : BOOLEAN]
          /\ expected \in Nat /\ old.received + 1 \in Nat /\ old.bytes + p.payload \in Nat
      BY <2>1, <2>2, <3>1
    <3>3. live \in BOOLEAN
      BY <3>1
    <3>4. state = [old EXCEPT !.received = old.received + 1, !.expected = expected,
                              !.bytes = old.bytes + p.payload, !.live = live]
      BY <1>0, <3>1
    <3> QED
      BY <3>2, <3>3, <3>4
  <2>4. \A j \in DOMAIN pending' :
          /\ j \in Keys
          /\ pending'[j] \in
               [left : Nat, expected : Nat, received : Nat, bytes : Nat, live : BOOLEAN]
    BY <1>1, <1>2, <1>3, <1>6, <2>3 DEF TypeOK
  <2> QED
    BY <1>1, <1>2, <2>4 DEF TypeOK
<1>8. ShapeInv' /\ QueueInv'
  BY <1>1, <1>2 DEF ShapeInv, QueueInv, TimerCoversQueue, ReplyPacket
<1>9. RequestInv'
  <2>1. ASSUME NEW j \in Keys \ {k} PROVE SameFor(j)
    <3>1. PacketsOf(j)' = PacketsOf(j)
      BY <1>0, <1>1 DEF PacketsOf
    <3> QED
      BY <1>1, <1>6, <3>1 DEF SameFor, Waiting, Handed
  <2>2. \A r \in Servers \ {t} : Unknown(r, k)'
    BY <1>1, <1>4 DEF Journey, Unknown, Waiting, Handed
  <2>3. Completed(k, t)'
    <3>1. PacketsOf(k)' = {}
      BY <1>1, <1>3, <1>5 DEF PacketsOf, Answered
    <3> QED
      BY <1>1, <1>5, <3>1 DEF Completed, Answered, Waiting
  <2>4. \E r \in Servers, i \in Nat \ {0} : Journey(k, r, i)'
    BY <1>4, <2>2, <2>3 DEF Journey
  <2> QED
    BY <1>1, <1>2, <1>3, <1>6, <2>1, <2>4, OneRequest
<1> QED
  BY <1>7, <1>8, <1>9 DEF LayerInv

LEMMA NextLayerInv == LayerInv /\ [Next]_vars => LayerInv'
<1> SUFFICES ASSUME LayerInv, [Next]_vars PROVE LayerInv'
  OBVIOUS
<1>1. CASE Next
  BY <1>1, SendRequestInv, ReceiveRequestInv, ReceiveReplyInv, RespondInv, CollectGarbageInv
     DEF Next
<1>2. CASE UNCHANGED vars
  <2>1. UNCHANGED <<nextId, pending, serving, tasks, armed, net, handed>>
    BY <1>2 DEF vars
  <2>2. TypeOK' /\ ShapeInv' /\ QueueInv'
    BY <2>1 DEF LayerInv, TypeOK, ShapeInv, QueueInv, TimerCoversQueue, ReplyPacket
  <2>3. \A k \in Keys : SameFor(k)
    BY <2>1 DEF SameFor, PacketsOf, Waiting, Handed
  <2>4. RequestInv'
    <3>1. \A j \in Keys \ DOMAIN pending' : Unused(j)'
      BY <2>1, <2>3, UnusedFrame DEF LayerInv, RequestInv
    <3>2. ASSUME NEW j \in DOMAIN pending'
          PROVE  \E s \in Servers, n \in Nat \ {0} : Journey(j, s, n)'
      <4>1. j \in DOMAIN pending /\ j \in Keys
        BY <2>1 DEF LayerInv, RequestInv
      <4>2. PICK s \in Servers, n \in Nat \ {0} : Journey(j, s, n)
        BY <4>1 DEF LayerInv, RequestInv
      <4> QED
        BY <2>3, <4>1, <4>2, JourneyFrame
    <3>3. DOMAIN pending' = {k \in Keys : k[2] < nextId'[k[1]]}
      BY <2>1 DEF LayerInv, RequestInv
    <3> QED
      BY <3>1, <3>2, <3>3 DEF RequestInv
  <2> QED
    BY <2>2, <2>4 DEF LayerInv
<1> QED
  BY <1>1, <1>2

LEMMA Invariant == Spec => []LayerInv
  BY InitLayerInv, NextLayerInv, PTL DEF Spec

-----------------------------------------------------------------------------
(* The service the layer offers *)

Requests == [client : Clients, id : Nat, server : Servers, payload : Payloads]

\* What was asked under a key, and the key of a request.
AskedOf(k) == asked[k[1]][k[2] + 1]
KeyOf(h) == <<h.client, h.id>>

\* How many requests an application has answered.
AnsweredBy(s) == Len(handed[s]) - Len(tasks[s])

\* The bytes of request r that its server has and those under way are all of it.
ArrivingBytes(k, r) ==
  /\ \A p \in Coming(k) : p.server = r.server
  /\ StateOf(r.server, k).bytes + Total(PayloadOf(Coming(k)), Coming(k)) = r.payload

LogTypes ==
  /\ asked \in [Clients -> Seq(Requests)]
  /\ done \in [Clients -> Seq(Nat)]

AskedInv ==
  \A c \in Clients : /\ Len(asked[c]) = nextId[c]
                     /\ \A i \in 1 .. Len(asked[c]) : KeyOf(asked[c][i]) = <<c, i - 1>>

\* The requests a server has been given were asked, of it, as they are.
WasAsked(h, s) == h.server = s /\ KeyOf(h) \in DOMAIN pending /\ h = AskedOf(KeyOf(h))

HandedInv == \A s \in Servers : \A i \in 1 .. Len(handed[s]) : WasAsked(handed[s][i], s)

\* Those that wait are the last ones it has been given.
TasksInv ==
  \A s \in Servers : /\ Len(tasks[s]) <= Len(handed[s])
                     /\ \A j \in 1 .. Len(tasks[s]) : tasks[s][j] = KeyOf(handed[s][AnsweredBy(s) + j])

ComingInv == \A k \in DOMAIN pending : Coming(k) # {} => ArrivingBytes(k, AskedOf(k))

\* A reply under way is to a request that its server has answered.
ReplyInv ==
  \A p \in net : p.type = "REPLY" =>
    \E i \in 1 .. AnsweredBy(p.server) : KeyOf(handed[p.server][i]) = p.key

\* Nothing of a completed request is left to happen.
DoneInv ==
  \A c \in Clients : \A i \in 1 .. Len(done[c]) :
    LET k == <<c, done[c][i]>> IN
    k \in DOMAIN pending /\ PacketsOf(k) = {} /\ \A s \in Servers : ~Waiting(s, k)

ServiceInv == LogTypes /\ AskedInv /\ HandedInv /\ TasksInv /\ ComingInv /\ ReplyInv /\ DoneInv

\* What is known of a request that has been sent.
LEMMA AskedIs ==
  ASSUME LayerInv, ServiceInv, NEW k \in DOMAIN pending
  PROVE  /\ k \in Keys /\ k[1] \in Clients /\ k[2] \in Nat /\ k = <<k[1], k[2]>>
         /\ k[2] \in 0 .. Len(asked[k[1]]) - 1
         /\ AskedOf(k) \in Requests /\ KeyOf(AskedOf(k)) = k
         /\ AskedOf(k) = [client |-> k[1], id |-> k[2],
                          server |-> AskedOf(k).server, payload |-> AskedOf(k).payload]
<1>1. /\ k \in Keys /\ k[1] \in Clients /\ k[2] \in Nat /\ k = <<k[1], k[2]>>
      /\ k[2] < nextId[k[1]]
  BY KeyType DEF LayerInv, RequestInv
<1>2. PICK q : q = asked[k[1]]
  OBVIOUS
<1>3. q \in Seq(Requests) /\ Len(q) = nextId[k[1]] /\ Len(q) \in Nat
  BY <1>1, <1>2 DEF ServiceInv, LogTypes, AskedInv
<1>4. k[2] + 1 \in 1 .. Len(q) /\ (k[2] + 1) - 1 = k[2]
  BY <1>1, <1>3
<1>5. AskedOf(k) = q[k[2] + 1] /\ q[k[2] + 1] \in Requests
  BY <1>2, <1>3, <1>4 DEF AskedOf
<1>6. KeyOf(q[k[2] + 1]) = <<k[1], k[2]>>
  <2>1. \A i \in 1 .. Len(q) : KeyOf(q[i]) = <<k[1], i - 1>>
    BY <1>1, <1>2 DEF ServiceInv, AskedInv
  <2>2. KeyOf(q[k[2] + 1]) = <<k[1], (k[2] + 1) - 1>>
    BY <1>4, <2>1
  <2> QED
    BY <1>4, <2>2
<1>7. PICK r : r = AskedOf(k)
  OBVIOUS
<1>8. r \in Requests /\ r.client = k[1] /\ r.id = k[2]
  BY <1>5, <1>6, <1>7 DEF KeyOf
<1>9. r = [client |-> k[1], id |-> k[2], server |-> r.server, payload |-> r.payload]
  BY <1>8 DEF Requests
<1> QED
  BY <1>1, <1>2, <1>3, <1>5, <1>6, <1>7, <1>9

LEMMA PayloadsWeigh ==
  ASSUME LayerInv, NEW k, NEW S \in SUBSET Coming(k)
  PROVE  /\ IsWeight(PayloadOf(S), S) /\ IsWeight(PayloadOf(Coming(k)), S)
         /\ \A p \in S : PayloadOf(S)[p] = PayloadOf(Coming(k))[p]
         /\ \A p \in S : p.payload \in Nat
  BY DEF LayerInv, ShapeInv, Coming, PacketsOf, PayloadOf, IsWeight

\* A packet brings its bytes, and the last one the rest of them.
AddsBytes(p, k, s, state) ==
  /\ k \in DOMAIN pending /\ s = AskedOf(k).server /\ s \in Servers
  /\ ~Handed(s, k) /\ ~Waiting(s, k)
  /\ \A q \in Coming(k) : q.server = s
  /\ state.bytes + Total(PayloadOf(Coming(k) \ {p}), Coming(k) \ {p}) = AskedOf(k).payload
  /\ state.expected = state.received =>
       [client |-> k[1], id |-> k[2], server |-> s, payload |-> state.bytes] = AskedOf(k)

LEMMA NextBytes ==
  ASSUME LayerInv, ServiceInv, NEW p \in net, p.type = "REQUEST",
         NEW k, NEW s, NEW old, NEW state,
         k = p.key, s = p.server, old = StateOf(s, k), state = WithPacket(old, p)
  PROVE  AddsBytes(p, k, s, state)
<1> DEFINE S == Coming(k) \ {p}
<1>1. /\ k \in DOMAIN pending /\ k \in Keys /\ p \in Coming(k) /\ s \in Servers
      /\ \E n \in Nat \ {0} : Arriving(k, s, n)
      /\ IsFiniteSet(S)
      /\ state \in [expected : {-1} \cup (Nat \ {0}), received : Nat \ {0},
                    bytes : Nat, replied : BOOLEAN, old : BOOLEAN]
      /\ state.expected = state.received <=> S = {}
  <2>1. TakesIn(p, k, s, old, state)
    BY NextPacket
  <2> QED
    BY <2>1 DEF TakesIn
<1>2. IsFiniteSet(Coming(k)) /\ ~Handed(s, k) /\ ~Waiting(s, k) /\ \A q \in Coming(k) : q.server = s
  BY <1>1 DEF Arriving
<1>3. PICK r : r = AskedOf(k)
  OBVIOUS
<1>4. ArrivingBytes(k, r)
  BY <1>1, <1>3 DEF ServiceInv, ComingInv
<1>5. s = r.server /\ old.bytes + Total(PayloadOf(Coming(k)), Coming(k)) = r.payload
  BY <1>1, <1>2, <1>4 DEF ArrivingBytes
<1>6. old.bytes \in Nat /\ state.bytes = old.bytes + p.payload /\ p.payload \in Nat
  <2>1. p.payload \in Nat
    BY DEF LayerInv, ShapeInv
  <2>2. old.bytes \in Nat
    BY <1>1 DEF LayerInv, TypeOK, StateOf, NewServerState
  <2>3. state.bytes = old.bytes + p.payload
    <3>1. old \in [expected : {-1} \cup (Nat \ {0}), received : Nat, bytes : Nat,
                   replied : BOOLEAN, old : BOOLEAN]
      BY <1>1 DEF LayerInv, TypeOK, StateOf, NewServerState
    <3> QED
      BY <3>1 DEF WithPacket
  <2> QED
    BY <2>1, <2>2, <2>3
<1>7. Total(PayloadOf(Coming(k)), Coming(k)) = Total(PayloadOf(S), S) + p.payload
  <2>1. IsWeight(PayloadOf(Coming(k)), Coming(k)) /\ \A q \in S : PayloadOf(S)[q] = PayloadOf(Coming(k))[q]
    BY PayloadsWeigh
  <2>2. Total(PayloadOf(Coming(k)), Coming(k))
          = Total(PayloadOf(Coming(k)), S) + PayloadOf(Coming(k))[p]
    BY <1>1, <1>2, <2>1, TotalRemove
  <2>3. Total(PayloadOf(S), S) = Total(PayloadOf(Coming(k)), S)
    <3> HIDE DEF S
    <3> QED
      BY <2>1, TotalSame
  <2>4. PayloadOf(Coming(k))[p] = p.payload
    BY <1>1 DEF PayloadOf
  <2> QED
    BY <2>2, <2>3, <2>4
<1>8. Total(PayloadOf(S), S) \in Nat
  BY <1>1, PayloadsWeigh, TotalNat
<1>9. state.bytes + Total(PayloadOf(S), S) = r.payload
  BY <1>5, <1>6, <1>7, <1>8
<1>10. ASSUME S = {} PROVE state.bytes = r.payload
  <2>1. Total(PayloadOf(S), S) = 0
    BY <1>10, TotalEmpty
  <2> QED
    BY <1>1, <1>9, <2>1
<1> QED
  BY <1>1, <1>2, <1>3, <1>5, <1>9, <1>10, AskedIs DEF AddsBytes

LEMMA ArrivingFrame ==
  ASSUME NEW k, NEW r, ArrivingBytes(k, r), Coming(k)' = Coming(k),
         StateOf(r.server, k).bytes' = StateOf(r.server, k).bytes
  PROVE  ArrivingBytes(k, r)'
  BY DEF ArrivingBytes

LEMMA WasAskedFrame ==
  ASSUME NEW h, NEW s, WasAsked(h, s), DOMAIN pending \subseteq DOMAIN pending',
         \A k \in DOMAIN pending : AskedOf(k)' = AskedOf(k)
  PROVE  WasAsked(h, s)'
<1>1. PICK k : k = KeyOf(h)
  OBVIOUS
<1>2. k \in DOMAIN pending' /\ h = AskedOf(k)'
  BY <1>1 DEF WasAsked
<1> QED
  BY <1>1, <1>2 DEF WasAsked, AskedOf, KeyOf

LEMMA SendRequestService ==
  ASSUME LayerInv, ServiceInv, NEW c \in Clients, NEW s \in Servers, NEW payload \in Payloads,
         SendRequest(c, s, payload)
  PROVE  ServiceInv'
<1>0. PICK k, r, q : /\ k = <<c, nextId[c]>> /\ q = asked[c]
                     /\ r = [client |-> c, id |-> nextId[c], server |-> s, payload |-> payload]
  OBVIOUS
<1> DEFINE P == RequestPackets(k, s, payload)
<1>1. /\ nextId[c] < MaxRequests[c]
      /\ nextId' = [nextId EXCEPT ![c] = nextId[c] + 1]
      /\ pending' = Put(pending, k, NewClientState(payload))
      /\ net' = net \cup P
      /\ asked' = [asked EXCEPT ![c] = Append(q, r)]
      /\ UNCHANGED <<serving, tasks, handed, done>>
  <2>1. MessageBytes(payload) = payload
    BY BytesOfRequest
  <2>2. k = <<c, RequestId(c)>> /\ k[2] = nextId[c]
    BY <1>0 DEF RequestId
  <2>3. /\ nextId[c] < MaxRequests[c]
        /\ nextId' = [nextId EXCEPT ![c] = nextId[c] + 1]
        /\ pending' = Put(pending, k, NewClientState(payload))
        /\ net' = net \cup RequestPackets(k, s, MessageBytes(payload))
        /\ asked' = [asked EXCEPT
             ![c] = Append(asked[c], [client |-> c, id |-> k[2], server |-> s, payload |-> payload])]
        /\ UNCHANGED <<serving, tasks, handed, done>>
    BY <2>2 DEF SendRequest
  <2> QED
    BY <1>0, <2>1, <2>2, <2>3
<1>2. payload \in Nat /\ payload > 0 /\ nextId[c] \in Nat /\ nextId \in [Clients -> Nat]
  BY Constants DEF LayerInv, ShapeInv
<1>3. k \in Keys /\ k[1] = c /\ k[2] = nextId[c]
  BY <1>0, <1>1, <1>2, KeyType
<1>4. k \notin DOMAIN pending /\ Unused(k)
  BY <1>2, <1>3 DEF LayerInv, RequestInv
<1>5. DOMAIN pending' = DOMAIN pending \cup {k}
  BY <1>1 DEF Put
<1>6. \A p \in P : p.type = "REQUEST" /\ p.key = k /\ p.server = s
  BY <1>2, PacketsOfRequest
<1>7. Total(PayloadOf(P), P) = payload
  BY <1>2, BytesOfPackets
<1> HIDE DEF P
<1>8. /\ q \in Seq(Requests) /\ r \in Requests /\ Len(q) = nextId[c] /\ Len(q) \in Nat
      /\ asked'[c] = Append(q, r) /\ \A d \in Clients \ {c} : asked'[d] = asked[d]
      /\ asked' \in [Clients -> Seq(Requests)]
  <2>1. q \in Seq(Requests) /\ r \in Requests /\ Len(q) = nextId[c]
    BY <1>0, <1>2 DEF ServiceInv, LogTypes, AskedInv, Requests
  <2>2. Append(q, r) \in Seq(Requests)
    BY <2>1
  <2> QED
    BY <1>1, <1>2, <2>1, <2>2 DEF ServiceInv, LogTypes
<1>9. /\ Len(asked'[c]) = Len(q) + 1 /\ asked'[c][Len(q) + 1] = r
      /\ \A i \in 1 .. Len(q) : asked'[c][i] = q[i]
  BY <1>8, AppendWaits
<1>10. \A j \in DOMAIN pending : AskedOf(j)' = AskedOf(j)
  <2> SUFFICES ASSUME NEW j \in DOMAIN pending PROVE AskedOf(j)' = AskedOf(j)
    OBVIOUS
  <2>1. j[1] \in Clients /\ j[2] \in Nat /\ j[2] \in 0 .. Len(asked[j[1]]) - 1
    BY AskedIs
  <2>2. CASE j[1] = c
    <3>1. j[2] + 1 \in 1 .. Len(q)
      BY <1>0, <1>8, <2>1, <2>2
    <3> QED
      BY <1>0, <1>9, <2>2, <3>1 DEF AskedOf
  <2>3. CASE j[1] # c
    BY <1>8, <2>1, <2>3 DEF AskedOf
  <2> QED
    BY <2>2, <2>3
<1>11. AskedOf(k)' = r
  BY <1>3, <1>8, <1>9 DEF AskedOf
<1>12. LogTypes'
  BY <1>1, <1>8 DEF ServiceInv, LogTypes
<1>13. AskedInv'
  <2> SUFFICES ASSUME NEW d \in Clients
               PROVE  /\ Len(asked'[d]) = nextId'[d]
                      /\ \A i \in 1 .. Len(asked'[d]) : KeyOf(asked'[d][i]) = <<d, i - 1>>
    BY DEF AskedInv, KeyOf
  <2>1. /\ Len(asked[d]) = nextId[d]
        /\ \A i \in 1 .. Len(asked[d]) : KeyOf(asked[d][i]) = <<d, i - 1>>
    BY DEF ServiceInv, AskedInv
  <2>2. CASE d # c
    BY <1>1, <1>2, <1>8, <2>1, <2>2
  <2>3. CASE d = c
    <3>1. Len(asked'[c]) = nextId'[c]
      BY <1>1, <1>2, <1>8, <1>9
    <3>2. \A i \in 1 .. Len(q) : KeyOf(asked'[c][i]) = <<c, i - 1>>
      BY <1>0, <1>9, <2>1, <2>3
    <3>3. KeyOf(asked'[c][Len(q) + 1]) = <<c, (Len(q) + 1) - 1>>
      BY <1>0, <1>8, <1>9 DEF KeyOf
    <3>4. \A i \in 1 .. Len(asked'[c]) : i \in 1 .. Len(q) \/ i = Len(q) + 1
      BY <1>8, <1>9
    <3> QED
      BY <2>3, <3>1, <3>2, <3>3, <3>4
  <2> QED
    BY <2>2, <2>3
<1>14. HandedInv'
  <2> SUFFICES ASSUME NEW t \in Servers, NEW i \in 1 .. Len(handed[t]), NEW h, h = handed[t][i]
               PROVE  WasAsked(h, t)'
    BY <1>1 DEF HandedInv
  <2>1. WasAsked(h, t)
    BY DEF ServiceInv, HandedInv
  <2> QED
    BY <1>5, <1>10, <2>1, WasAskedFrame
<1>15. TasksInv'
  BY <1>1 DEF ServiceInv, TasksInv, AnsweredBy, KeyOf
<1>16. ComingInv'
  <2> SUFFICES ASSUME NEW j \in DOMAIN pending', Coming(j)' # {}
               PROVE  ArrivingBytes(j, AskedOf(j))'
    BY DEF ComingInv
  <2>1. CASE j = k
    <3>1. Coming(k)' = P
      <4>1. PacketsOf(k)' = P
        BY <1>1, <1>4, <1>6 DEF Unused, PacketsOf
      <4> QED
        BY <1>6, <4>1 DEF Coming
    <3>2. StateOf(s, k)'.bytes = 0
      BY <1>1, <1>4 DEF Unused, Unknown, StateOf, NewServerState
    <3>3. ArrivingBytes(k, r)'
      <4>1. r.server = s /\ r.payload = payload
        BY <1>0
      <4>2. \A p \in Coming(k)' : p.server = r.server
        BY <1>6, <3>1, <4>1
      <4>3. StateOf(r.server, k)'.bytes + Total(PayloadOf(Coming(k)'), Coming(k)') = r.payload
        BY <1>2, <1>7, <3>1, <3>2, <4>1
      <4> QED
        BY <4>2, <4>3 DEF ArrivingBytes, PayloadOf
    <3> QED
      BY <1>11, <2>1, <3>3
  <2>2. CASE j # k
    <3>1. j \in DOMAIN pending /\ AskedOf(j)' = AskedOf(j)
      BY <1>5, <1>10, <2>2
    <3>2. PICK h : h = AskedOf(j)
      OBVIOUS
    <3>3. Coming(j)' = Coming(j)
      BY <1>1, <1>6, <2>2 DEF Coming, PacketsOf
    <3>4. ArrivingBytes(j, h)
      BY <3>1, <3>2, <3>3 DEF ServiceInv, ComingInv
    <3>5. StateOf(h.server, j)' = StateOf(h.server, j)
      BY <1>1 DEF StateOf, NewServerState
    <3>6. ArrivingBytes(j, h)'
      BY <3>3, <3>4, <3>5, ArrivingFrame
    <3> QED
      BY <3>1, <3>2, <3>6
  <2> QED
    BY <2>1, <2>2
<1>17. ReplyInv'
  BY <1>1, <1>6 DEF ServiceInv, ReplyInv, AnsweredBy, KeyOf
<1>18. DoneInv'
  <2> SUFFICES ASSUME NEW d \in Clients, NEW i \in 1 .. Len(done[d]), NEW j, j = <<d, done[d][i]>>
               PROVE  j \in DOMAIN pending' /\ PacketsOf(j)' = {} /\ \A t \in Servers : ~Waiting(t, j)'
    BY <1>1 DEF DoneInv, PacketsOf, Waiting
  <2>1. j \in DOMAIN pending /\ PacketsOf(j) = {} /\ \A t \in Servers : ~Waiting(t, j)
    BY DEF ServiceInv, DoneInv
  <2>2. PacketsOf(j)' = {}
    BY <1>1, <1>4, <1>6, <2>1 DEF PacketsOf
  <2> QED
    BY <1>1, <1>5, <2>1, <2>2 DEF Waiting
<1> QED
  BY <1>12, <1>13, <1>14, <1>15, <1>16, <1>17, <1>18 DEF ServiceInv

LEMMA AskedFrame ==
  ASSUME ServiceInv, UNCHANGED <<asked, nextId>>, DOMAIN pending' = DOMAIN pending
  PROVE  /\ AskedInv' /\ \A k : AskedOf(k)' = AskedOf(k)
         /\ UNCHANGED handed => HandedInv'
<1>1. AskedInv' /\ \A k : AskedOf(k)' = AskedOf(k)
  BY DEF ServiceInv, AskedInv, AskedOf, KeyOf
<1>2. ASSUME UNCHANGED handed PROVE HandedInv'
  <2> SUFFICES ASSUME NEW t \in Servers, NEW i \in 1 .. Len(handed[t]), NEW h, h = handed[t][i]
               PROVE  WasAsked(h, t)'
    BY <1>2 DEF HandedInv
  <2>1. WasAsked(h, t)
    BY DEF ServiceInv, HandedInv
  <2> QED
    BY <1>1, <2>1, WasAskedFrame
<1> QED
  BY <1>1, <1>2

\* What an application is given ends the log of it, and the queue.
LEMMA ReceiveRequestService ==
  ASSUME LayerInv, ServiceInv, NEW p \in net, ReceiveRequest(p)
  PROVE  ServiceInv'
<1>0. PICK k, s, old, state :
        k = p.key /\ s = p.server /\ old = StateOf(s, k) /\ state = WithPacket(old, p)
  OBVIOUS
<1>1. /\ p.type = "REQUEST"
      /\ net' = net \ {p}
      /\ serving' = [serving EXCEPT ![s] = Put(serving[s], k, state)]
      /\ IF state.expected = state.received
           THEN Enqueue(s, k, state.bytes)
           ELSE UNCHANGED <<tasks, armed, handed>>
      /\ UNCHANGED <<nextId, pending, asked, done>>
  BY <1>0 DEF ReceiveRequest
<1>2. /\ k \in DOMAIN pending /\ s = AskedOf(k).server /\ s \in Servers
      /\ ~Handed(s, k) /\ ~Waiting(s, k)
      /\ \A q \in Coming(k) : q.server = s
      /\ state.bytes + Total(PayloadOf(Coming(k) \ {p}), Coming(k) \ {p}) = AskedOf(k).payload
      /\ state.expected = state.received =>
           [client |-> k[1], id |-> k[2], server |-> s, payload |-> state.bytes] = AskedOf(k)
  <2>1. AddsBytes(p, k, s, state)
    BY <1>0, <1>1, NextBytes
  <2> QED
    BY <2>1 DEF AddsBytes
<1>3. /\ p \in PacketsOf(k)
      /\ \A j \in Keys : j # k => PacketsOf(j)' = PacketsOf(j)
      /\ Coming(k)' = Coming(k) \ {p}
  BY <1>0, <1>1 DEF PacketsOf, Coming
<1>4. AskedInv' /\ \A j : AskedOf(j)' = AskedOf(j)
  BY <1>1, AskedFrame
<1>5. LogTypes'
  BY <1>1 DEF ServiceInv, LogTypes
<1>6. PICK h : h = AskedOf(k)
  OBVIOUS
<1>7. ASSUME state.expected = state.received
      PROVE  /\ \A r \in Servers \ {s} : tasks'[r] = tasks[r] /\ handed'[r] = handed[r]
             /\ Len(tasks'[s]) = Len(tasks[s]) + 1 /\ Len(tasks[s]) \in Nat
             /\ \A i \in 1 .. Len(tasks[s]) : tasks'[s][i] = tasks[s][i]
             /\ tasks'[s][Len(tasks[s]) + 1] = k
             /\ Len(handed'[s]) = Len(handed[s]) + 1 /\ Len(handed[s]) \in Nat
             /\ \A i \in 1 .. Len(handed[s]) : handed'[s][i] = handed[s][i]
             /\ handed'[s][Len(handed[s]) + 1] = h
             /\ KeyOf(h) = k /\ h.server = s
  <2>1. h = [client |-> k[1], id |-> k[2], server |-> s, payload |-> state.bytes]
    BY <1>2, <1>6, <1>7
  <2>2. /\ tasks' = [tasks EXCEPT ![s] = Append(tasks[s], k)]
        /\ handed' = [handed EXCEPT ![s] = Append(handed[s], h)]
    BY <1>1, <1>7, <2>1 DEF Enqueue
  <2>3. k \in Keys /\ h \in Requests /\ KeyOf(h) = k
    BY <1>2, <1>6, AskedIs
  <2> DEFINE R == [client : Clients, id : Nat, server : Servers, payload : Nat]
  <2>4. h \in R
    BY <2>3, Constants DEF Requests
  <2>5. PICK q, g : q = tasks[s] /\ g = handed[s]
    OBVIOUS
  <2>6. /\ q \in Seq(Keys) /\ g \in Seq(R) /\ tasks'[s] = Append(q, k) /\ handed'[s] = Append(g, h)
        /\ \A r \in Servers \ {s} : tasks'[r] = tasks[r] /\ handed'[r] = handed[r]
    BY <1>2, <2>2, <2>5 DEF LayerInv, ShapeInv
  <2> HIDE DEF R
  <2>7. /\ Len(Append(q, k)) = Len(q) + 1 /\ Append(q, k)[Len(q) + 1] = k
        /\ \A i \in 1 .. Len(q) : Append(q, k)[i] = q[i]
    BY <2>3, <2>6, AppendWaits
  <2>8. /\ Len(Append(g, h)) = Len(g) + 1 /\ Append(g, h)[Len(g) + 1] = h
        /\ \A i \in 1 .. Len(g) : Append(g, h)[i] = g[i]
    BY <2>4, <2>6, AppendWaits
  <2>9. Len(q) \in Nat /\ Len(g) \in Nat
    BY <2>6
  <2> QED
    BY <2>1, <2>3, <2>5, <2>6, <2>7, <2>8, <2>9
<1>8. HandedInv'
  <2>1. CASE state.expected = state.received
    <3> SUFFICES ASSUME NEW t \in Servers, NEW i \in 1 .. Len(handed'[t]),
                        NEW g, g = handed'[t][i]
                 PROVE  WasAsked(g, t)'
      BY DEF HandedInv, WasAsked, AskedOf, KeyOf
    <3>2. WasAsked(g, t)
      <4>1. CASE t = s /\ i = Len(handed[s]) + 1
        BY <1>2, <1>6, <1>7, <2>1, <4>1 DEF WasAsked
      <4>2. CASE t = s /\ i # Len(handed[s]) + 1
        <5>1. i \in 1 .. Len(handed[s]) /\ g = handed[s][i]
          BY <1>7, <2>1, <4>2
        <5> QED
          BY <4>2, <5>1 DEF ServiceInv, HandedInv
      <4>3. CASE t # s
        BY <1>7, <2>1, <4>3 DEF ServiceInv, HandedInv
      <4> QED
        BY <4>1, <4>2, <4>3
    <3> QED
      BY <1>1, <1>4, <3>2, WasAskedFrame
  <2>2. CASE state.expected # state.received
    BY <1>1, <2>2, AskedFrame
  <2> QED
    BY <2>1, <2>2
<1>9. TasksInv' /\ ReplyInv'
  <2>1. CASE state.expected = state.received
    <3>1. \A r \in Servers : AnsweredBy(r)' = AnsweredBy(r)
      <4>1. AnsweredBy(s)' = AnsweredBy(s)
        <5>1. /\ Len(tasks'[s]) = Len(tasks[s]) + 1 /\ Len(tasks[s]) \in Nat
              /\ Len(handed'[s]) = Len(handed[s]) + 1 /\ Len(handed[s]) \in Nat
          BY <1>7, <2>1
        <5> QED
          BY <5>1 DEF AnsweredBy
      <4>2. \A r \in Servers \ {s} : AnsweredBy(r)' = AnsweredBy(r)
        BY <1>7, <2>1 DEF AnsweredBy
      <4> QED
        BY <4>1, <4>2
    <3>2. /\ Len(tasks[s]) <= Len(handed[s])
          /\ \A j \in 1 .. Len(tasks[s]) : tasks[s][j] = KeyOf(handed[s][AnsweredBy(s) + j])
      BY <1>2 DEF ServiceInv, TasksInv
    <3>3. ASSUME NEW j \in 1 .. Len(tasks'[s])
          PROVE  tasks'[s][j] = KeyOf(handed'[s][AnsweredBy(s) + j])
      <4>1. PICK a, m, n : a = AnsweredBy(s) /\ m = Len(tasks[s]) /\ n = Len(handed[s])
        OBVIOUS
      <4>2. a \in Nat /\ m \in Nat /\ n \in Nat /\ a = n - m
        BY <1>7, <2>1, <3>2, <4>1 DEF AnsweredBy
      <4>3. CASE j \in 1 .. m
        <5>1. a + j \in 1 .. n
          BY <4>2, <4>3
        <5> QED
          BY <1>7, <2>1, <3>2, <4>1, <4>3, <5>1
      <4>4. CASE j = m + 1
        <5>1. a + j = n + 1
          BY <4>2, <4>4
        <5> QED
          BY <1>7, <2>1, <4>1, <4>4, <5>1
      <4>5. j \in 1 .. m + 1
        BY <1>7, <2>1, <4>1
      <4> QED
        BY <4>2, <4>3, <4>4, <4>5
    <3>4. TasksInv'
      <4> SUFFICES ASSUME NEW r \in Servers
                   PROVE  /\ Len(tasks'[r]) <= Len(handed'[r])
                          /\ \A j \in 1 .. Len(tasks'[r]) :
                               tasks'[r][j] = KeyOf(handed'[r][AnsweredBy(r)' + j])
        BY DEF TasksInv, KeyOf
      <4>1. CASE r = s
        BY <1>7, <2>1, <3>1, <3>2, <3>3, <4>1
      <4>2. CASE r # s
        BY <1>7, <2>1, <3>1, <4>2 DEF ServiceInv, TasksInv
      <4> QED
        BY <4>1, <4>2
    <3>5. ReplyInv'
      <4> SUFFICES ASSUME NEW r \in net', r.type = "REPLY"
                   PROVE  \E i \in 1 .. AnsweredBy(r.server)' : KeyOf(handed'[r.server][i]) = r.key
        BY DEF ReplyInv, KeyOf
      <4>1. r \in net /\ r.server \in Servers
        BY <1>1 DEF LayerInv, TypeOK
      <4>2. PICK i \in 1 .. AnsweredBy(r.server) : KeyOf(handed[r.server][i]) = r.key
        BY <4>1 DEF ServiceInv, ReplyInv
      <4>3. handed'[r.server][i] = handed[r.server][i]
        <5>1. CASE r.server = s
          <6>1. i \in 1 .. Len(handed[s])
            <7>1. Len(tasks[s]) \in Nat /\ Len(handed[s]) \in Nat
              BY <1>7, <2>1
            <7>2. i \in 1 .. Len(handed[s]) - Len(tasks[s])
              BY <4>2, <5>1 DEF AnsweredBy
            <7> QED
              BY <7>1, <7>2
          <6> QED
            BY <1>7, <2>1, <5>1, <6>1
        <5>2. CASE r.server # s
          BY <1>7, <2>1, <4>1, <5>2
        <5> QED
          BY <5>1, <5>2
      <4> QED
        BY <3>1, <4>1, <4>2, <4>3
    <3> QED
      BY <3>4, <3>5
  <2>2. CASE state.expected # state.received
    <3>1. UNCHANGED <<tasks, handed>> /\ net' \subseteq net
      BY <1>1, <2>2
    <3> QED
      BY <3>1 DEF ServiceInv, TasksInv, ReplyInv, AnsweredBy, KeyOf
  <2> QED
    BY <2>1, <2>2
<1>10. \A j \in Keys : j # k => \A t \in Servers : Waiting(t, j)' => Waiting(t, j)
  <2> SUFFICES ASSUME NEW j \in Keys, j # k, NEW t \in Servers, NEW i \in 1 .. Len(tasks'[t]),
                      tasks'[t][i] = j
               PROVE  Waiting(t, j)
    BY DEF Waiting
  <2>1. CASE state.expected = state.received /\ t = s
    <3>1. i # Len(tasks[s]) + 1
      BY <1>7, <2>1
    <3>2. i \in 1 .. Len(tasks[s])
      BY <1>7, <2>1, <3>1
    <3> QED
      BY <1>7, <2>1, <3>2 DEF Waiting
  <2>2. CASE ~(state.expected = state.received /\ t = s)
    <3>1. tasks'[t] = tasks[t]
      BY <1>1, <1>7, <2>2
    <3> QED
      BY <3>1 DEF Waiting
  <2> QED
    BY <2>1, <2>2
<1>11. DoneInv'
  <2> SUFFICES ASSUME NEW d \in Clients, NEW i \in 1 .. Len(done[d]), NEW j, j = <<d, done[d][i]>>
               PROVE  j \in DOMAIN pending' /\ PacketsOf(j)' = {} /\ \A t \in Servers : ~Waiting(t, j)'
    BY <1>1 DEF DoneInv, PacketsOf, Waiting
  <2>1. j \in DOMAIN pending /\ PacketsOf(j) = {} /\ \A t \in Servers : ~Waiting(t, j)
    BY DEF ServiceInv, DoneInv
  <2>2. j \in Keys /\ j # k
    BY <1>3, <2>1, AskedIs
  <2> QED
    BY <1>1, <1>3, <1>10, <2>1, <2>2
<1>12. ComingInv'
  <2> SUFFICES ASSUME NEW j \in DOMAIN pending, Coming(j)' # {}
               PROVE  ArrivingBytes(j, AskedOf(j))'
    BY <1>1 DEF ComingInv
  <2>0. PICK r : r = AskedOf(j)
    OBVIOUS
  <2>1. DOMAIN serving = Servers
    BY DEF LayerInv, ShapeInv
  <2>2. ArrivingBytes(j, r)'
    <3>1. CASE j = k
      <4>1. StateOf(s, k)' = state
        BY <1>1, <1>2, <2>1 DEF StateOf, Put
      <4>2. r.server = s /\ r = AskedOf(k)
        BY <1>2, <2>0, <3>1
      <4>3. StateOf(r.server, k)'.bytes + Total(PayloadOf(Coming(k)'), Coming(k)') = r.payload
        BY <1>2, <1>3, <4>1, <4>2
      <4>4. \A q \in Coming(k)' : q.server = r.server
        BY <1>2, <1>3, <4>2
      <4> QED
        BY <3>1, <4>3, <4>4 DEF ArrivingBytes, PayloadOf
    <3>2. CASE j # k
      <4>1. Coming(j)' = Coming(j)
        BY <1>3, <3>2, AskedIs DEF Coming
      <4>2. ArrivingBytes(j, r)
        BY <2>0, <4>1 DEF ServiceInv, ComingInv
      <4>3. r.server \in Servers
        BY <2>0, AskedIs DEF Requests
      <4>4. StateOf(r.server, j)' = StateOf(r.server, j)
        BY <1>1, <1>2, <2>1, <3>2, <4>3 DEF StateOf, Put, NewServerState
      <4> QED
        BY <4>1, <4>2, <4>4, ArrivingFrame
    <3> QED
      BY <3>1, <3>2
  <2> QED
    BY <1>4, <2>0, <2>2
<1> QED
  BY <1>4, <1>5, <1>8, <1>9, <1>11, <1>12 DEF ServiceInv

\* What a packet that is no REQUEST leaves, or brings, does not change what is to come.
LEMMA ComingFrame ==
  ASSUME LayerInv, ServiceInv, UNCHANGED <<asked, nextId>>, DOMAIN pending' = DOMAIN pending,
         \A k \in DOMAIN pending : Coming(k)' = Coming(k),
         \A k \in DOMAIN pending, s \in Servers :
           Coming(k) # {} /\ s = AskedOf(k).server =>
             StateOf(s, k).bytes' = StateOf(s, k).bytes
  PROVE  ComingInv'
<1> SUFFICES ASSUME NEW k \in DOMAIN pending, Coming(k)' # {}
             PROVE  ArrivingBytes(k, AskedOf(k))'
  BY DEF ComingInv
<1>1. PICK r : r = AskedOf(k)
  OBVIOUS
<1>2. ArrivingBytes(k, r)
  BY <1>1 DEF ServiceInv, ComingInv
<1>3. r.server \in Servers
  BY <1>1, AskedIs DEF Requests
<1>4. StateOf(r.server, k).bytes' = StateOf(r.server, k).bytes
  BY <1>1, <1>3
<1>5. ArrivingBytes(k, r)'
  BY <1>2, <1>4, ArrivingFrame
<1>6. AskedOf(k)' = AskedOf(k)
  BY AskedFrame
<1> QED
  BY <1>1, <1>5, <1>6

\* The request answered is the first of those that wait.
LEMMA RespondService ==
  ASSUME LayerInv, ServiceInv, NEW s \in Servers, Respond(s)
  PROVE  /\ ServiceInv'
         /\ AnsweredBy(s) < Len(handed[s])
         /\ \A r \in Servers : AnsweredBy(r)' = IF r = s THEN AnsweredBy(s) + 1 ELSE AnsweredBy(r)
<1>0. PICK k, q : k = Head(tasks[s]) /\ q = tasks[s]
  OBVIOUS
<1>1. /\ armed[s]
      /\ serving' = [serving EXCEPT ![s][k].replied = TRUE]
      /\ net' = net \cup {ReplyPacket(k, s)}
      /\ tasks' = [tasks EXCEPT ![s] = Tail(q)]
      /\ UNCHANGED <<nextId, pending, asked, handed, done>>
  BY <1>0 DEF Respond, Dequeue
<1>2. q \in Seq(Keys) /\ q # <<>> /\ handed[s] \in Seq([client : Clients, id : Nat, server : Servers, payload : Nat])
  BY <1>0, <1>1 DEF LayerInv, ShapeInv, QueueInv, TimerCoversQueue
<1>3. /\ k \in Keys /\ k = q[1] /\ Len(q) \in Nat /\ Len(q) > 0
      /\ Len(Tail(q)) = Len(q) - 1
      /\ \A i \in 1 .. Len(q) - 1 : Tail(q)[i] = q[i + 1]
      /\ Len(handed[s]) \in Nat
  BY <1>0, <1>2, TailWaits
<1>4. tasks'[s] = Tail(q) /\ \A r \in Servers \ {s} : tasks'[r] = tasks[r]
  BY <1>1 DEF LayerInv, ShapeInv
<1>5. LET p == ReplyPacket(k, s) IN p.type = "REPLY" /\ p.key = k /\ p.server = s
  BY DEF ReplyPacket
<1>6. /\ Len(q) <= Len(handed[s])
      /\ \A j \in 1 .. Len(q) : q[j] = KeyOf(handed[s][AnsweredBy(s) + j])
  BY <1>0 DEF ServiceInv, TasksInv
<1>7. AnsweredBy(s) = Len(handed[s]) - Len(q) /\ AnsweredBy(s) \in Nat
  BY <1>0, <1>3, <1>6 DEF AnsweredBy
<1>8. \A r \in Servers : AnsweredBy(r)' = IF r = s THEN AnsweredBy(s) + 1 ELSE AnsweredBy(r)
  <2>1. AnsweredBy(s)' = AnsweredBy(s) + 1
    <3>1. AnsweredBy(s)' = Len(handed[s]) - (Len(q) - 1)
      BY <1>1, <1>3, <1>4 DEF AnsweredBy
    <3> QED
      BY <1>3, <1>7, <3>1
  <2>2. \A r \in Servers \ {s} : AnsweredBy(r)' = AnsweredBy(r)
    BY <1>1, <1>4 DEF AnsweredBy
  <2> QED
    BY <2>1, <2>2
<1>9. AskedInv' /\ HandedInv' /\ LogTypes'
  BY <1>1, AskedFrame DEF ServiceInv, LogTypes
<1>10. TasksInv'
  <2> SUFFICES ASSUME NEW r \in Servers
               PROVE  /\ Len(tasks'[r]) <= Len(handed[r])
                      /\ \A j \in 1 .. Len(tasks'[r]) :
                           tasks'[r][j] = KeyOf(handed[r][AnsweredBy(r)' + j])
    BY <1>1 DEF TasksInv, KeyOf
  <2>1. CASE r = s
    <3>1. Len(tasks'[s]) = Len(q) - 1 /\ Len(tasks'[s]) <= Len(handed[s])
      BY <1>3, <1>4, <1>6
    <3>2. ASSUME NEW j \in 1 .. Len(q) - 1
          PROVE  tasks'[s][j] = KeyOf(handed[s][AnsweredBy(s)' + j])
      <4>1. tasks'[s][j] = q[j + 1] /\ j + 1 \in 1 .. Len(q)
        BY <1>3, <1>4
      <4>2. q[j + 1] = KeyOf(handed[s][AnsweredBy(s) + (j + 1)])
        BY <1>6, <4>1
      <4>3. AnsweredBy(s) + (j + 1) = AnsweredBy(s)' + j
        <5>1. PICK a, b : a = AnsweredBy(s) /\ b = AnsweredBy(s)'
          OBVIOUS
        <5>2. a \in Nat /\ b = a + 1 /\ j \in Nat
          BY <1>3, <1>7, <1>8, <5>1
        <5>3. a + (j + 1) = b + j
          BY <5>2
        <5> QED
          BY <5>1, <5>3
      <4> QED
        BY <4>1, <4>2, <4>3
    <3> QED
      BY <2>1, <3>1, <3>2
  <2>2. CASE r # s
    BY <1>4, <1>8, <2>2 DEF ServiceInv, TasksInv
  <2> QED
    BY <2>1, <2>2
<1>11. ReplyInv'
  <2> SUFFICES ASSUME NEW p \in net', p.type = "REPLY"
               PROVE  \E i \in 1 .. AnsweredBy(p.server)' : KeyOf(handed[p.server][i]) = p.key
    BY <1>1 DEF ReplyInv, KeyOf
  <2>1. CASE p = ReplyPacket(k, s)
    <3>1. KeyOf(handed[s][AnsweredBy(s) + 1]) = k
      BY <1>3, <1>6
    <3>2. AnsweredBy(s) + 1 \in 1 .. AnsweredBy(s)'
      BY <1>7, <1>8
    <3> QED
      BY <1>5, <2>1, <3>1, <3>2
  <2>2. CASE p \in net
    <3>1. PICK i \in 1 .. AnsweredBy(p.server) : KeyOf(handed[p.server][i]) = p.key
      BY <2>2 DEF ServiceInv, ReplyInv
    <3>2. p.server \in Servers
      BY <2>2 DEF LayerInv, TypeOK
    <3>3. i \in 1 .. AnsweredBy(p.server)'
      BY <1>7, <1>8, <3>1, <3>2
    <3> QED
      BY <3>1, <3>3
  <2> QED
    BY <1>1, <2>1, <2>2
<1>12. Waiting(s, k)
  <2>1. 1 \in 1 .. Len(q)
    BY <1>3
  <2> QED
    BY <1>0, <1>3, <2>1 DEF Waiting
<1>13. DoneInv'
  <2> SUFFICES ASSUME NEW d \in Clients, NEW i \in 1 .. Len(done[d]), NEW j, j = <<d, done[d][i]>>
               PROVE  j \in DOMAIN pending' /\ PacketsOf(j)' = {} /\ \A t \in Servers : ~Waiting(t, j)'
    BY <1>1 DEF DoneInv, PacketsOf, Waiting
  <2>1. j \in DOMAIN pending /\ PacketsOf(j) = {} /\ \A t \in Servers : ~Waiting(t, j)
    BY DEF ServiceInv, DoneInv
  <2>2. PacketsOf(j)' = {}
    BY <1>1, <1>5, <1>12, <2>1 DEF PacketsOf
  <2>3. ASSUME NEW t \in Servers PROVE ~Waiting(t, j)'
    <3>1. CASE t # s
      BY <1>4, <2>1, <3>1 DEF Waiting
    <3>2. CASE t = s
      <4>1. \A m \in 1 .. Len(q) : q[m] # j
        BY <1>0, <2>1 DEF Waiting
      <4>2. \A m \in 1 .. Len(q) - 1 : Tail(q)[m] # j
        BY <1>3, <4>1
      <4> QED
        BY <1>3, <1>4, <3>2, <4>2 DEF Waiting
    <3> QED
      BY <3>1, <3>2
  <2> QED
    BY <1>1, <2>1, <2>2, <2>3
<1>14. ComingInv'
  <2>1. ASSUME NEW j \in DOMAIN pending PROVE Coming(j)' = Coming(j)
    BY <1>1, <1>5 DEF Coming, PacketsOf
  <2>2. ASSUME NEW j \in DOMAIN pending, NEW t \in Servers
        PROVE  StateOf(t, j).bytes' = StateOf(t, j).bytes
    <3>1. DOMAIN serving = Servers
      BY DEF LayerInv, ShapeInv
    <3>2. DOMAIN serving'[t] = DOMAIN serving[t]
      BY <1>1, <3>1
    <3>3. j \in DOMAIN serving[t] => serving'[t][j].bytes = serving[t][j].bytes
      <4>1. ASSUME j \in DOMAIN serving[t] PROVE serving'[t][j].bytes = serving[t][j].bytes
        <5>1. serving[t][j] \in [expected : {-1} \cup (Nat \ {0}), received : Nat \ {0},
                                 bytes : Nat, replied : BOOLEAN, old : BOOLEAN]
          BY <4>1 DEF LayerInv, TypeOK
        <5> QED
          BY <1>1, <3>1, <4>1, <5>1
      <4> QED
        BY <4>1
    <3> QED
      BY <3>2, <3>3 DEF StateOf, NewServerState
  <2> QED
    BY <1>1, <2>1, <2>2, ComingFrame
<1> QED
  BY <1>3, <1>7, <1>8, <1>9, <1>10, <1>11, <1>13, <1>14 DEF ServiceInv

\* A reply completes a request that was not completed before.
LEMMA ReceiveReplyService ==
  ASSUME LayerInv, ServiceInv, NEW p \in net, ReceiveReply(p)
  PROVE  /\ ServiceInv'
         /\ \/ UNCHANGED done
            \/ \E k \in DOMAIN pending :
                 /\ \E i \in 1 .. AnsweredBy(AskedOf(k).server) :
                      handed[AskedOf(k).server][i] = AskedOf(k)
                 /\ \A j \in 1 .. Len(done[k[1]]) : done[k[1]][j] # k[2]
                 /\ done' = [done EXCEPT ![k[1]] = Append(done[k[1]], k[2])]
<1>0. PICK k : k = p.key
  OBVIOUS
<1>1. /\ p.type = "REPLY"
      /\ net' = net \ {p}
      /\ DOMAIN pending' = DOMAIN pending
      /\ done' = [done EXCEPT ![k[1]] = Append(done[k[1]], k[2])] \/ done' = done
      /\ UNCHANGED <<nextId, serving, tasks, armed, asked, handed>>
  BY <1>0 DEF ReceiveReply
<1>2. /\ k \in DOMAIN pending /\ p \in Answers(k) /\ p \in PacketsOf(k)
      /\ k \in Keys /\ k[1] \in Clients /\ k[2] \in Nat /\ k = <<k[1], k[2]>>
      /\ p.server \in Servers
  BY <1>0, <1>1, PacketIsOfRequest, AskedIs DEF LayerInv, TypeOK
<1>3. PICK t \in Servers, n \in Nat \ {0} : Journey(k, t, n)
  BY <1>2 DEF LayerInv, RequestInv
<1>4. Answered(k, t)
  BY <1>2, <1>3 DEF Journey, Arriving, Queued, Completed
<1>5. PacketsOf(k) = {p} /\ \A r \in Servers : ~Waiting(r, k)
  BY <1>2, <1>3, <1>4 DEF Answered, Journey, Unknown
<1>6. AskedInv' /\ HandedInv'
  BY <1>1, AskedFrame
<1>7. TasksInv' /\ ReplyInv'
  BY <1>1 DEF ServiceInv, TasksInv, ReplyInv, AnsweredBy, KeyOf
<1>8. ComingInv'
  <2>1. \A j \in DOMAIN pending : Coming(j)' = Coming(j)
    BY <1>1 DEF Coming, PacketsOf
  <2>2. \A j, r : StateOf(r, j).bytes' = StateOf(r, j).bytes
    BY <1>1 DEF StateOf, NewServerState
  <2> QED
    BY <1>1, <2>1, <2>2, ComingFrame
<1>9. ASSUME NEW j \in DOMAIN pending,
             j = k \/ (PacketsOf(j) = {} /\ \A r \in Servers : ~Waiting(r, j))
      PROVE  j \in DOMAIN pending' /\ PacketsOf(j)' = {} /\ \A r \in Servers : ~Waiting(r, j)'
  BY <1>1, <1>5, <1>9 DEF PacketsOf, Waiting
<1>10. LogTypes /\ DoneInv
  BY DEF ServiceInv
<1>11. CASE done' = done
  <2>1. LogTypes'
    BY <1>1, <1>10, <1>11 DEF LogTypes
  <2>2. DoneInv'
    <3> SUFFICES ASSUME NEW d \in Clients, NEW i \in 1 .. Len(done[d]), NEW j, j = <<d, done[d][i]>>
                 PROVE  j \in DOMAIN pending' /\ PacketsOf(j)' = {} /\ \A r \in Servers : ~Waiting(r, j)'
      BY <1>11 DEF DoneInv, PacketsOf, Waiting
    <3> QED
      BY <1>9, <1>10 DEF DoneInv
  <2> QED
    BY <1>6, <1>7, <1>8, <1>11, <2>1, <2>2 DEF ServiceInv
<1>12. CASE done' = [done EXCEPT ![k[1]] = Append(done[k[1]], k[2])]
  <2>1. PICK q : q = done[k[1]]
    OBVIOUS
  <2>2. /\ q \in Seq(Nat) /\ Append(q, k[2]) \in Seq(Nat) /\ Len(Append(q, k[2])) = Len(q) + 1
        /\ \A i \in 1 .. Len(q) : Append(q, k[2])[i] = q[i]
        /\ Append(q, k[2])[Len(q) + 1] = k[2] /\ Len(q) \in Nat
    <3>1. q \in Seq(Nat) /\ Len(q) \in Nat
      BY <1>2, <1>10, <2>1 DEF LogTypes
    <3> QED
      BY <1>2, <3>1, AppendWaits
  <2>3. done'[k[1]] = Append(q, k[2]) /\ \A d \in Clients \ {k[1]} : done'[d] = done[d]
    BY <1>2, <1>10, <1>12, <2>1 DEF LogTypes
  <2>4. LogTypes'
    BY <1>1, <1>10, <1>12, <2>1, <2>2 DEF LogTypes
  <2>5. DoneInv'
    <3> SUFFICES ASSUME NEW d \in Clients, NEW i \in 1 .. Len(done'[d]), NEW j, j = <<d, done'[d][i]>>
                 PROVE  j \in DOMAIN pending' /\ PacketsOf(j)' = {} /\ \A r \in Servers : ~Waiting(r, j)'
      BY DEF DoneInv, PacketsOf, Waiting
    <3>1. CASE d = k[1] /\ i = Len(q) + 1
      <4>1. j = k
        BY <1>2, <2>2, <2>3, <3>1
      <4> QED
        BY <1>2, <1>9, <4>1
    <3>2. CASE ~(d = k[1] /\ i = Len(q) + 1)
      <4>1. i \in 1 .. Len(done[d]) /\ done'[d][i] = done[d][i]
        <5>1. CASE d = k[1]
          <6>1. i \in 1 .. Len(q)
            BY <2>2, <2>3, <3>2, <5>1
          <6> QED
            BY <2>1, <2>2, <2>3, <5>1, <6>1
        <5>2. CASE d # k[1]
          BY <2>3, <5>2
        <5> QED
          BY <5>1, <5>2
      <4> QED
        BY <1>9, <1>10, <4>1 DEF DoneInv
    <3> QED
      BY <3>1, <3>2
  <2>6. \A j \in 1 .. Len(done[k[1]]) : done[k[1]][j] # k[2]
    <3> SUFFICES ASSUME NEW j \in 1 .. Len(done[k[1]]), done[k[1]][j] = k[2] PROVE FALSE
      OBVIOUS
    <3>1. PacketsOf(<<k[1], k[2]>>) = {}
      BY <1>2, <1>10 DEF DoneInv
    <3> QED
      BY <1>2, <3>1
  <2>7. \E i \in 1 .. AnsweredBy(AskedOf(k).server) :
          handed[AskedOf(k).server][i] = AskedOf(k)
    <3>1. PICK i \in 1 .. AnsweredBy(p.server) : KeyOf(handed[p.server][i]) = k
      BY <1>0, <1>1 DEF ServiceInv, ReplyInv
    <3>2. i \in 1 .. Len(handed[p.server])
      <4>1. Len(handed[p.server]) \in Nat /\ Len(tasks[p.server]) \in Nat
        BY <1>2 DEF LayerInv, ShapeInv
      <4>2. i \in 1 .. Len(handed[p.server]) - Len(tasks[p.server])
        BY <3>1 DEF AnsweredBy
      <4> QED
        BY <4>1, <4>2
    <3>3. WasAsked(handed[p.server][i], p.server)
      BY <1>2, <3>2 DEF ServiceInv, HandedInv
    <3>4. handed[p.server][i] = AskedOf(k) /\ AskedOf(k).server = p.server
      BY <3>1, <3>3 DEF WasAsked
    <3> QED
      BY <3>1, <3>4
  <2> QED
    BY <1>2, <1>6, <1>7, <1>8, <1>12, <2>4, <2>5, <2>6, <2>7 DEF ServiceInv
<1> QED
  BY <1>1, <1>11, <1>12

\* The parts of the invariant that do not look at what the servers remember.
LEMMA LogsFrame ==
  ASSUME ServiceInv, UNCHANGED <<nextId, pending, tasks, net, asked, handed, done>>
  PROVE  LogTypes' /\ AskedInv' /\ HandedInv' /\ TasksInv' /\ ReplyInv' /\ DoneInv'
<1>1. AskedInv' /\ HandedInv'
  BY AskedFrame
<1>2. LogTypes'
  BY DEF ServiceInv, LogTypes
<1>3. TasksInv' /\ ReplyInv'
  BY DEF ServiceInv, TasksInv, ReplyInv, AnsweredBy, KeyOf
<1>4. DoneInv'
  <2> SUFFICES ASSUME NEW d \in Clients, NEW i \in 1 .. Len(done[d]), NEW j, j = <<d, done[d][i]>>
               PROVE  j \in DOMAIN pending' /\ PacketsOf(j)' = {} /\ \A t \in Servers : ~Waiting(t, j)'
    BY DEF DoneInv, PacketsOf, Waiting
  <2>1. j \in DOMAIN pending /\ PacketsOf(j) = {} /\ \A t \in Servers : ~Waiting(t, j)
    BY DEF ServiceInv, DoneInv
  <2> QED
    BY <2>1 DEF PacketsOf, Waiting
<1> QED
  BY <1>1, <1>2, <1>3, <1>4

\* The collector takes no state of a request that is still arriving.
LEMMA CollectGarbageService ==
  ASSUME LayerInv, ServiceInv, NEW s \in Servers, CollectGarbage(s)
  PROVE  ServiceInv'
<1>1. /\ serving' = [serving EXCEPT ![s] = AfterPass(serving[s])]
      /\ UNCHANGED <<nextId, pending, tasks, armed, net, asked, handed, done>>
  BY DEF CollectGarbage
<1>2. LogTypes' /\ AskedInv' /\ HandedInv' /\ TasksInv' /\ ReplyInv' /\ DoneInv'
  BY <1>1, LogsFrame
<1>3. ASSUME NEW k \in DOMAIN pending, Coming(k) # {}, NEW t, t = AskedOf(k).server
      PROVE  StateOf(t, k).bytes' = StateOf(t, k).bytes
  <2>1. PICK r \in Servers, n \in Nat \ {0} : Journey(k, r, n)
    BY DEF LayerInv, RequestInv
  <2>2. Arriving(k, r, n)
    BY <1>3, <2>1 DEF Journey, Queued, Answered, Completed, Coming, ReplyPacket
  <2>3. PICK h : h = AskedOf(k)
    OBVIOUS
  <2>4. ArrivingBytes(k, h)
    BY <1>3, <2>3 DEF ServiceInv, ComingInv
  <2>5. t = r
    BY <1>3, <2>2, <2>3, <2>4 DEF Arriving, ArrivingBytes
  <2>6. DOMAIN serving = Servers
    BY DEF LayerInv, ShapeInv
  <2>7. CASE t # s
    BY <1>1, <2>5, <2>6, <2>7 DEF StateOf, NewServerState
  <2>8. CASE t = s
    <3>1. serving'[s] = AfterPass(serving[s])
      BY <1>1, <2>6
    <3>2. CASE k \in DOMAIN serving[s]
      <4>1. ~Garbage(serving[s][k])
        BY <2>2, <2>5, <2>8, <3>2 DEF Arriving, Garbage
      <4>2. serving[s][k] \in [expected : {-1} \cup (Nat \ {0}), received : Nat \ {0},
                               bytes : Nat, replied : BOOLEAN, old : BOOLEAN]
        BY <3>2 DEF LayerInv, TypeOK
      <4>3. k \in DOMAIN serving'[s] /\ serving'[s][k].bytes = serving[s][k].bytes
        BY <3>1, <3>2, <4>1, <4>2 DEF AfterPass
      <4> QED
        BY <2>8, <3>2, <4>3 DEF StateOf
    <3>3. CASE k \notin DOMAIN serving[s]
      BY <2>8, <3>1, <3>3 DEF AfterPass, StateOf, NewServerState
    <3> QED
      BY <3>2, <3>3
  <2> QED
    BY <2>7, <2>8
<1>4. ComingInv'
  <2>1. \A k \in DOMAIN pending : Coming(k)' = Coming(k)
    BY <1>1 DEF Coming, PacketsOf
  <2> QED
    BY <1>1, <1>3, <2>1, ComingFrame
<1> QED
  BY <1>2, <1>4 DEF ServiceInv

LEMMA InitService == Init => ServiceInv /\ Service!Init
<1> SUFFICES ASSUME Init PROVE ServiceInv /\ Service!Init
  OBVIOUS
<1>1. LogTypes /\ AskedInv
  BY DEF Init, LogTypes, AskedInv
<1>2. HandedInv /\ TasksInv
  BY DEF Init, HandedInv, TasksInv
<1>3. ComingInv /\ ReplyInv /\ DoneInv
  BY DEF Init, ComingInv, ReplyInv, DoneInv
<1>4. Service!Init
  BY DEF Init, Service!Init
<1> QED
  BY <1>1, <1>2, <1>3, <1>4 DEF ServiceInv

LEMMA NextServiceInv == LayerInv /\ ServiceInv /\ [Next]_vars => ServiceInv'
<1> SUFFICES ASSUME LayerInv, ServiceInv, [Next]_vars PROVE ServiceInv'
  OBVIOUS
<1>1. CASE Next
  BY <1>1, SendRequestService, ReceiveRequestService, ReceiveReplyService, RespondService,
     CollectGarbageService DEF Next
<1>2. CASE UNCHANGED vars
  <2>1. UNCHANGED <<nextId, pending, serving, tasks, net, asked, handed, done>>
    BY <1>2 DEF vars
  <2>2. LogTypes' /\ AskedInv' /\ HandedInv' /\ TasksInv' /\ ReplyInv' /\ DoneInv'
    BY <2>1, LogsFrame
  <2>3. \A k \in DOMAIN pending : Coming(k)' = Coming(k)
    BY <2>1 DEF Coming, PacketsOf
  <2>4. \A k, s : StateOf(s, k).bytes' = StateOf(s, k).bytes
    BY <2>1 DEF StateOf, NewServerState
  <2>5. ComingInv'
    BY <2>1, <2>3, <2>4, ComingFrame
  <2> QED
    BY <2>2, <2>5 DEF ServiceInv
<1> QED
  BY <1>1, <1>2

\* How many each application has answered, as the service counts them.
AnsweredMap == [s \in Servers |-> Len(handed[s]) - Len(tasks[s])]

LEMMA AskStep ==
  ASSUME LayerInv, ServiceInv, NEW c \in Clients, NEW s \in Servers, NEW payload \in Payloads,
         SendRequest(c, s, payload)
  PROVE  Service!Ask(c, s, payload)
<1>1. /\ asked' = [asked EXCEPT ![c] = Append(asked[c],
                     [client |-> c, id |-> nextId[c], server |-> s, payload |-> payload])]
      /\ UNCHANGED <<tasks, handed, done>>
  BY DEF SendRequest, RequestId
<1>2. Len(asked[c]) = nextId[c] /\ asked \in [Clients -> Seq(Requests)]
  BY DEF ServiceInv, AskedInv, LogTypes
<1> QED
  BY <1>1, <1>2 DEF Service!Ask

\* The last packet of a request hands it over, whole, for the first time.
LEMMA HandStep ==
  ASSUME LayerInv, ServiceInv, NEW p \in net, ReceiveRequest(p)
  PROVE  UNCHANGED Service!serviceVars
         \/ \E c \in Clients : \E id \in Service!Ids(c) : Service!Hand(c, id)
<1>0. PICK k, s, old, state, r :
        /\ k = p.key /\ s = p.server /\ old = StateOf(s, k) /\ state = WithPacket(old, p)
        /\ r = AskedOf(k)
  OBVIOUS
<1>1. /\ p.type = "REQUEST"
      /\ IF state.expected = state.received
           THEN Enqueue(s, k, state.bytes)
           ELSE UNCHANGED <<tasks, armed, handed>>
      /\ UNCHANGED <<asked, done>>
  BY <1>0 DEF ReceiveRequest
<1>2. /\ k \in DOMAIN pending /\ s = r.server /\ s \in Servers /\ ~Handed(s, k)
      /\ state.expected = state.received =>
           [client |-> k[1], id |-> k[2], server |-> s, payload |-> state.bytes] = r
  <2>1. k = p.key /\ s = p.server /\ old = StateOf(s, k) /\ state = WithPacket(old, p)
    BY <1>0
  <2>2. AddsBytes(p, k, s, state)
    BY <1>1, <2>1, NextBytes
  <2> QED
    BY <1>0, <2>2 DEF AddsBytes
<1>3. k[1] \in Clients /\ k[2] \in Service!Ids(k[1]) /\ KeyOf(r) = k
  BY <1>0, <1>2, AskedIs DEF Service!Ids
<1>4. CASE state.expected # state.received
  BY <1>1, <1>4 DEF Service!serviceVars
<1>5. CASE state.expected = state.received
  <2>1. /\ tasks' = [tasks EXCEPT ![s] = Append(tasks[s], k)]
        /\ handed' = [handed EXCEPT ![s] = Append(handed[s], r)]
    BY <1>1, <1>2, <1>5 DEF Enqueue
  <2>2. \A i \in 1 .. Len(handed[s]) : handed[s][i] # r
    BY <1>2, <1>3 DEF Handed, KeyOf
  <2>3. r = Service!Request(k[1], k[2])
    BY <1>0 DEF AskedOf, Service!Request
  <2>4. AnsweredMap' = AnsweredMap
    <3>1. ASSUME NEW t \in Servers
          PROVE  Len(handed'[t]) - Len(tasks'[t]) = Len(handed[t]) - Len(tasks[t])
      <4>1. PICK g, q : g = handed[t] /\ q = tasks[t]
        OBVIOUS
      <4>2. /\ g \in Seq([client : Clients, id : Nat, server : Servers, payload : Nat])
            /\ q \in Seq(Keys)
        BY <4>1 DEF LayerInv, ShapeInv
      <4>5. Len(g) \in Nat /\ Len(q) \in Nat
        BY <4>2
      <4>3. CASE t = s
        <5>1. handed'[t] = Append(g, r) /\ tasks'[t] = Append(q, k)
          BY <2>1, <4>1, <4>3 DEF LayerInv, ShapeInv
        <5>2. Len(Append(g, r)) = Len(g) + 1 /\ Len(Append(q, k)) = Len(q) + 1
          BY <4>2
        <5> QED
          BY <4>1, <4>5, <5>1, <5>2
      <4>4. CASE t # s
        BY <2>1, <4>4 DEF LayerInv, ShapeInv
      <4> QED
        BY <4>3, <4>4
    <3> QED
      BY <3>1 DEF AnsweredMap
  <2>5. Service!Hand(k[1], k[2])
    BY <1>1, <1>2, <2>1, <2>2, <2>3, <2>4 DEF Service!Hand, AnsweredMap
  <2> QED
    BY <1>3, <2>5
<1> QED
  BY <1>4, <1>5

LEMMA AnswerStep ==
  ASSUME LayerInv, ServiceInv, NEW s \in Servers, Respond(s)
  PROVE  Service!Answer(s)
<1>1. /\ AnsweredBy(s) < Len(handed[s])
      /\ \A r \in Servers : AnsweredBy(r)' = IF r = s THEN AnsweredBy(s) + 1 ELSE AnsweredBy(r)
  BY RespondService
<1>2. UNCHANGED <<asked, handed, done>>
  BY DEF Respond
<1>3. AnsweredMap' = [AnsweredMap EXCEPT ![s] = AnsweredMap[s] + 1] /\ AnsweredMap[s] < Len(handed[s])
  BY <1>1 DEF AnsweredMap, AnsweredBy
<1> QED
  BY <1>2, <1>3 DEF Service!Answer, AnsweredMap

LEMMA CompleteStep ==
  ASSUME LayerInv, ServiceInv, NEW p \in net, ReceiveReply(p)
  PROVE  UNCHANGED Service!serviceVars
         \/ \E c \in Clients : \E id \in Service!Ids(c) : Service!Complete(c, id)
<1>1. UNCHANGED <<asked, handed, tasks>>
  BY DEF ReceiveReply
<1>2. UNCHANGED AnsweredMap
  BY <1>1 DEF AnsweredMap
<1>3. CASE UNCHANGED done
  BY <1>1, <1>2, <1>3 DEF Service!serviceVars, AnsweredMap
<1>4. CASE \E k \in DOMAIN pending :
             /\ \E i \in 1 .. AnsweredBy(AskedOf(k).server) :
                  handed[AskedOf(k).server][i] = AskedOf(k)
             /\ \A j \in 1 .. Len(done[k[1]]) : done[k[1]][j] # k[2]
             /\ done' = [done EXCEPT ![k[1]] = Append(done[k[1]], k[2])]
  <2>1. PICK k \in DOMAIN pending :
          /\ \E i \in 1 .. AnsweredBy(AskedOf(k).server) :
               handed[AskedOf(k).server][i] = AskedOf(k)
          /\ \A j \in 1 .. Len(done[k[1]]) : done[k[1]][j] # k[2]
          /\ done' = [done EXCEPT ![k[1]] = Append(done[k[1]], k[2])]
    BY <1>4
  <2>2. /\ k[1] \in Clients /\ k[2] \in Service!Ids(k[1]) /\ AskedOf(k).server \in Servers
        /\ AskedOf(k) = Service!Request(k[1], k[2])
    BY AskedIs DEF Service!Ids, Service!Request, AskedOf, Requests
  <2>3. AnsweredMap[AskedOf(k).server] = AnsweredBy(AskedOf(k).server)
    BY <2>2 DEF AnsweredMap, AnsweredBy
  <2>4. Service!Complete(k[1], k[2])
    BY <1>1, <1>2, <2>1, <2>2, <2>3 DEF Service!Complete, AnsweredMap
  <2> QED
    BY <2>2, <2>4
<1> QED
  BY <1>3, <1>4, ReceiveReplyService

LEMMA ServiceStep ==
  LayerInv /\ ServiceInv /\ [Next]_vars => [Service!Next]_(Service!serviceVars)
<1> SUFFICES ASSUME LayerInv, ServiceInv, [Next]_vars
             PROVE  Service!Next \/ UNCHANGED Service!serviceVars
  OBVIOUS
<1>1. ASSUME NEW c \in Clients, NEW s \in Servers, NEW payload \in Payloads,
             SendRequest(c, s, payload)
      PROVE  Service!Next
  BY <1>1, AskStep DEF Service!Next
<1>2. ASSUME NEW p \in net, ReceiveRequest(p)
      PROVE  Service!Next \/ UNCHANGED Service!serviceVars
  BY <1>2, HandStep DEF Service!Next
<1>3. ASSUME NEW p \in net, ReceiveReply(p)
      PROVE  Service!Next \/ UNCHANGED Service!serviceVars
  BY <1>3, CompleteStep DEF Service!Next
<1>4. ASSUME NEW s \in Servers, Respond(s) PROVE Service!Next
  BY <1>4, AnswerStep DEF Service!Next
<1>5. ASSUME NEW s \in Servers, CollectGarbage(s) PROVE UNCHANGED Service!serviceVars
  BY <1>5 DEF CollectGarbage, Service!serviceVars
<1>6. ASSUME UNCHANGED vars PROVE UNCHANGED Service!serviceVars
  BY <1>6 DEF vars, Service!serviceVars
<1> QED
  BY <1>1, <1>2, <1>3, <1>4, <1>5, <1>6 DEF Next

-----------------------------------------------------------------------------
(* What follows *)

\* Every step keeps the types: no packet is of a request that was never sent, and a
\* server never remembers a request of which nothing has arrived.
THEOREM LayerTypeCorrect == Spec => []TypeOK
<1>1. LayerInv => TypeOK
  BY DEF LayerInv
<1> QED
  BY <1>1, Invariant, PTL

\* The response timer is pending exactly when a request waits, whatever arrives
\* between its expiries.
THEOREM TimerArmed == Spec => []TimerCoversQueue
<1>1. LayerInv => TimerCoversQueue
  BY DEF LayerInv, QueueInv
<1> QED
  BY <1>1, Invariant, PTL

\* While a request waits for its answer its state is there, complete and unanswered:
\* no pass of the garbage collector and no late packet comes between.
THEOREM QueuedStateKept == Spec => []QueuedStateLives
<1>1. LayerInv => QueuedStateLives
  <2> SUFFICES ASSUME LayerInv, NEW s \in Servers, NEW i \in 1 .. Len(tasks[s])
               PROVE  LET k == tasks[s][i] IN
                      /\ k \in DOMAIN serving[s]
                      /\ serving[s][k].received = serving[s][k].expected
                      /\ ~serving[s][k].replied
    BY DEF QueuedStateLives
  <2>1. PICK k : k = tasks[s][i]
    OBVIOUS
  <2>2. k \in Keys /\ Waiting(s, k)
    <3>1. tasks[s] \in Seq(Keys)
      BY DEF LayerInv, ShapeInv
    <3> QED
      BY <2>1, <3>1 DEF Waiting
  <2>3. k \in DOMAIN pending
    BY <2>2 DEF LayerInv, RequestInv, Unused, Unknown
  <2>4. PICK t \in Servers, n \in Nat \ {0} : Journey(k, t, n)
    BY <2>3 DEF LayerInv, RequestInv
  <2>5. t = s /\ Queued(k, s)
    BY <2>2, <2>4 DEF Journey, Unknown, Arriving, Queued, Answered, Completed
  <2> QED
    BY <2>1, <2>5 DEF Queued
<1> QED
  BY <1>1, Invariant, PTL

\* In any order of arrival, the packet that tells the length of a request finds no
\* state, or one whose length is unknown.
THEOREM LengthToldOnce == Spec => []FirstPacketFirst
<1>1. LayerInv => FirstPacketFirst
  <2> SUFFICES ASSUME LayerInv, NEW p \in net, p.type = "REQUEST", p.first,
                      p.key \in DOMAIN serving[p.server]
               PROVE  serving[p.server][p.key].expected = -1
    BY DEF FirstPacketFirst
  <2>1. p.key \in DOMAIN pending /\ p \in PacketsOf(p.key) /\ p \in Coming(p.key)
    BY PacketIsOfRequest
  <2>2. PICK t \in Servers, n \in Nat \ {0} : Journey(p.key, t, n)
    BY <2>1 DEF LayerInv, RequestInv
  <2>3. Arriving(p.key, t, n)
    BY <2>1, <2>2 DEF Journey, Queued, Answered, Completed, ReplyPacket
  <2> QED
    BY <2>1, <2>3 DEF Arriving
<1> QED
  BY <1>1, Invariant, PTL

\* A reply under way finds the state of its request not yet deleted.
THEOREM RepliesAwaited == Spec => []ReplyAwaited
<1>1. LayerInv => ReplyAwaited
  <2> SUFFICES ASSUME LayerInv, NEW p \in net, p.type = "REPLY"
               PROVE  p.key \in DOMAIN pending /\ pending[p.key].live
    BY DEF ReplyAwaited
  <2>1. p.key \in DOMAIN pending /\ p \in PacketsOf(p.key) /\ p \in Answers(p.key)
    BY PacketIsOfRequest
  <2>2. PICK t \in Servers, n \in Nat \ {0} : Journey(p.key, t, n)
    BY <2>1 DEF LayerInv, RequestInv
  <2>3. Answered(p.key, t)
    BY <2>1, <2>2 DEF Journey, Arriving, Queued, Completed
  <2> QED
    BY <2>1, <2>3 DEF Answered
<1> QED
  BY <1>1, Invariant, PTL

\* A request the application has had and whose state has been collected is never
\* opened again: nothing of it is under way any more.
THEOREM NeverReopened == Spec => NoReopening
<1>1. ASSUME LayerInv, [Next]_vars, NEW s \in Servers, NEW k, Handed(s, k),
             k \notin DOMAIN serving[s]
      PROVE  k \notin DOMAIN serving'[s]
  <2>1. DOMAIN serving = Servers
    BY <1>1 DEF LayerInv, ShapeInv
  <2>2. ASSUME NEW p \in net, ReceiveRequest(p) PROVE k \notin DOMAIN serving'[s]
    <3>1. PICK t, j, state : /\ t = p.server /\ j = p.key
                             /\ serving' = [serving EXCEPT ![t] = Put(serving[t], j, state)]
      BY <2>2 DEF ReceiveRequest
    <3>2. CASE t = s /\ j = k
      <4>1. k \in DOMAIN pending /\ p \in PacketsOf(k) /\ p \in Coming(k)
        BY <1>1, <2>2, <3>1, <3>2, PacketIsOfRequest DEF ReceiveRequest
      <4>2. PICK r \in Servers, n \in Nat \ {0} : Journey(k, r, n)
        BY <1>1, <4>1 DEF LayerInv, RequestInv
      <4>3. Arriving(k, r, n)
        BY <2>2, <4>1, <4>2 DEF ReceiveRequest, Journey, Queued, Answered, Completed, ReplyPacket
      <4>4. r = s
        BY <3>1, <3>2, <4>1, <4>3 DEF Arriving
      <4> QED
        BY <1>1, <4>3, <4>4 DEF Arriving
    <3>3. CASE t = s /\ j # k
      BY <1>1, <2>1, <3>1, <3>3 DEF Put
    <3>4. CASE t # s
      BY <1>1, <2>1, <3>1, <3>4
    <3> QED
      BY <3>2, <3>3, <3>4
  <2>3. ASSUME NEW r \in Servers, Respond(r) PROVE k \notin DOMAIN serving'[s]
    <3>1. PICK j : serving' = [serving EXCEPT ![r][j].replied = TRUE]
      BY <2>3 DEF Respond
    <3>2. DOMAIN serving'[s] = DOMAIN serving[s]
      BY <2>1, <3>1
    <3> QED
      BY <1>1, <3>2
  <2>4. ASSUME NEW r \in Servers, CollectGarbage(r) PROVE k \notin DOMAIN serving'[s]
    <3>1. serving' = [serving EXCEPT ![r] = AfterPass(serving[r])]
      BY <2>4 DEF CollectGarbage
    <3>2. DOMAIN AfterPass(serving[r]) \subseteq DOMAIN serving[r]
      BY DEF AfterPass
    <3> QED
      BY <1>1, <2>1, <3>1, <3>2
  <2>5. ASSUME UNCHANGED serving PROVE k \notin DOMAIN serving'[s]
    BY <1>1, <2>5
  <2> QED
    BY <1>1, <2>2, <2>3, <2>4, <2>5 DEF Next, SendRequest, ReceiveReply, vars
<1>2. LayerInv /\ [Next]_vars =>
        [\A s \in Servers : \A i \in 1 .. Len(handed[s]) :
           LET k == <<handed[s][i].client, handed[s][i].id>> IN
           k \notin DOMAIN serving[s] => k \notin DOMAIN serving'[s]]_vars
  BY <1>1 DEF Handed
<1> QED
  BY <1>2, Invariant, PTL DEF Spec, NoReopening

\* The layer is such a service: every request reaches the application it is meant for once
\* and whole, whatever the order of its packets; the application answers the requests in
\* the order it got them, and each is completed at its client once (send_to_application,
\* r2p2.cc:66-94).
THEOREM LayerServes == Spec => Implements
<1>1. Spec => [](LayerInv /\ ServiceInv)
  BY InitLayerInv, NextLayerInv, InitService, NextServiceInv, PTL DEF Spec
<1> QED
  BY <1>1, InitService, ServiceStep, PTL DEF Spec, Implements, Service!Spec
=============================================================================
