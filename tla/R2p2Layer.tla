------------------------------- MODULE R2p2Layer -------------------------------
(***************************************************************************)
(* The R2P2 layer above the transport (core/r2p2-client.cc,                *)
(* core/r2p2-server.cc) and the application it serves (app/r2p2-app.cc):   *)
(* requests cut into packets, put together again in any order of arrival,  *)
(* queued, answered, and forgotten by two passes of a garbage collector.   *)
(* The transport is reduced to what the layer sees of it: every packet of  *)
(* a message arrives once, some time after it was sent.                    *)
(***************************************************************************)
EXTENDS Integers, Sequences

CONSTANTS
  Clients, Servers,   \* the application threads that ask and that answer
  Payloads,           \* sizes of requests, in bytes
  Chunk,              \* MAX_R2P2_PAYLOAD
  Req0,               \* REQ0_MSG_SIZE
  ReplySize,          \* next_resp_size
  MaxRequests         \* bound: MaxRequests[c] requests of client c

ASSUME SizesAssumption ==
  /\ Payloads \subseteq Nat \ {0}
  /\ Req0 \in Nat \ {0} /\ Chunk \in Nat /\ Req0 < Chunk
  /\ ReplySize \in 1 .. Chunk
  /\ MaxRequests \in [Clients -> Nat]

VARIABLES
  nextId,       \* nextId[c]: the request id of thrd_id_to_req_id_ that c uses next
  pending,      \* pending[k]: ClientRequestState of request k = <<client, id>>
  serving,      \* serving[s][k]: ServerRequestState of request k at server s
  tasks,        \* tasks[s]: pending_tasks_, the keys of the requests to answer
  armed,        \* armed[s]: send_resp_timer_ is pending
  net,          \* the packets under way
  asked, handed, done   \* the logs of send_request, req_recv and req_success

vars == <<nextId, pending, serving, tasks, armed, net, asked, handed, done>>

Ids(c) == 0 .. MaxRequests[c] - 1

Keys == UNION {{c} \X Ids(c) : c \in Clients}

\* A map with an entry for k added or replaced.
Put(map, k, v) == [x \in DOMAIN map \cup {k} |-> IF x = k THEN v ELSE map[x]]
-----------------------------------------------------------------------------
PacketCount(bytes) == (bytes + Chunk - 1) \div Chunk

Single(payload) == PacketCount(payload) = 1

\* Mutant of BytesLeft: the bytes in REQ0 are sent again.
BytesLeftWhole(payload) == IF Single(payload) THEN 0 ELSE payload

\* req_bytes_left_: what is left for the REQRDY to ask for.
BytesLeft(payload) == IF Single(payload) THEN 0 ELSE payload - Req0

\* total_bytes_ of the message in the transport, which answers REQ0 with a
\* REQRDY of its own and so gets the rest at once.
MessageBytes(payload) == (IF Single(payload) THEN payload ELSE Req0) + BytesLeft(payload)

\* The packets the transport cuts it into.  Each carries the position of its last
\* byte, and in pkt_id how many packets there are beside the first.
RequestPackets(k, s, bytes) ==
  { [type |-> "REQUEST", key |-> k, server |-> s, first |-> i = 1,
     pkt_id |-> PacketCount(bytes) - 1,
     payload |-> IF i * Chunk <= bytes THEN Chunk ELSE bytes % Chunk,
     seq |-> IF i * Chunk <= bytes THEN i * Chunk ELSE bytes]
    : i \in 1 .. PacketCount(bytes) }

ReplyPacket(k, s) ==
  [type |-> "REPLY", key |-> k, server |-> s, first |-> TRUE,
   pkt_id |-> PacketCount(ReplySize), payload |-> ReplySize, seq |-> 0]

NewClientState(payload) ==
  [left |-> BytesLeft(payload), expected |-> 0, received |-> 0, bytes |-> 0, live |-> TRUE]

NewServerState ==
  [expected |-> -1, received |-> 0, bytes |-> 0, replied |-> FALSE, old |-> FALSE]
-----------------------------------------------------------------------------
Init ==
  /\ nextId = [c \in Clients |-> 0]
  /\ pending = <<>>
  /\ serving = [s \in Servers |-> <<>>]
  /\ tasks = [s \in Servers |-> <<>>]
  /\ armed = [s \in Servers |-> FALSE]
  /\ net = {}
  /\ asked = [c \in Clients |-> <<>>]
  /\ handed = [s \in Servers |-> <<>>]
  /\ done = [c \in Clients |-> <<>>]

\* Mutant of RequestId: the id of a thread that has sent before is not advanced.
RequestIdStuck(c) == 0

RequestId(c) == nextId[c]

\* send_request, send_req, shorting_req0, handle_req_rdy and sending_request: one
\* chain of calls.
SendRequest(c, s, payload) ==
  LET k == <<c, RequestId(c)>> IN
  /\ nextId[c] < MaxRequests[c]
  /\ nextId' = [nextId EXCEPT ![c] = @ + 1]
  /\ pending' = Put(pending, k, NewClientState(payload))
  /\ net' = net \cup RequestPackets(k, s, MessageBytes(payload))
  /\ asked' = [asked EXCEPT
       ![c] = Append(@, [client |-> c, id |-> k[2], server |-> s, payload |-> payload])]
  /\ UNCHANGED <<serving, tasks, armed, handed, done>>

\* Mutant of WithPacket: a first packet that is not the first to arrive does not
\* tell how many there are.
WithPacketInOrder(state, p) ==
  [state EXCEPT !.received = @ + 1, !.bytes = @ + p.payload,
                !.expected = IF p.first /\ state.received = 0 THEN p.pkt_id + 1 ELSE @]

\* Mutant of WithPacket: the first packet is not counted among those expected.
WithPacketShort(state, p) ==
  [state EXCEPT !.received = @ + 1, !.bytes = @ + p.payload,
                !.expected = IF p.first THEN (IF p.pkt_id > 0 THEN p.pkt_id ELSE 1) ELSE @]

WithPacket(state, p) ==
  [state EXCEPT !.received = @ + 1, !.bytes = @ + p.payload,
                !.expected = IF p.first THEN p.pkt_id + 1 ELSE @]

StateOf(s, k) == IF k \in DOMAIN serving[s] THEN serving[s][k] ELSE NewServerState

\* Mutant of Enqueue: the request is queued before the queue is tested, and the
\* timer is never set.
EnqueuePushFirst(s, k, bytes) ==
  /\ tasks' = [tasks EXCEPT ![s] = Append(@, k)]
  /\ armed' = [armed EXCEPT ![s] = IF tasks'[s] = <<>> THEN TRUE ELSE @]
  /\ handed' = [handed EXCEPT
       ![s] = Append(@, [client |-> k[1], id |-> k[2], server |-> s, payload |-> bytes])]

\* req_recv: the application queues the request.  It sets the timer only if no
\* request waits: setting a timer that is pending would stop the program, which
\* TimerCoversQueue excludes.
Enqueue(s, k, bytes) ==
  /\ tasks' = [tasks EXCEPT ![s] = Append(@, k)]
  /\ armed' = [armed EXCEPT ![s] = IF tasks[s] = <<>> THEN TRUE ELSE @]
  /\ handed' = [handed EXCEPT
       ![s] = Append(@, [client |-> k[1], id |-> k[2], server |-> s, payload |-> bytes])]

\* handle_request_pkt, and with the last packet send_to_application.
ReceiveRequest(p) ==
  LET s == p.server
      state == WithPacket(StateOf(s, p.key), p)
  IN
  /\ p.type = "REQUEST"
  /\ net' = net \ {p}
  /\ serving' = [serving EXCEPT ![s] = Put(@, p.key, state)]
  /\ IF state.expected = state.received
       THEN Enqueue(s, p.key, state.bytes)
       ELSE UNCHANGED <<tasks, armed, handed>>
  /\ UNCHANGED <<nextId, pending, asked, done>>

\* The end of send_response of the application: the timer is set again if the
\* queue is not empty.
Dequeue(s) ==
  /\ tasks' = [tasks EXCEPT ![s] = Tail(@)]
  /\ armed' = [armed EXCEPT ![s] = Tail(tasks[s]) # <<>>]

\* The response timer expires; send_response of R2p2Server, and sending_reply.
Respond(s) ==
  LET k == Head(tasks[s]) IN
  /\ armed[s]
  /\ serving' = [serving EXCEPT ![s][k].replied = TRUE]
  /\ net' = net \cup {ReplyPacket(k, s)}
  /\ Dequeue(s)
  /\ UNCHANGED <<nextId, pending, asked, handed, done>>

\* handle_reply_pkt: the state is deleted with the last packet, its entry stays.
ReceiveReply(p) ==
  LET old == pending[p.key]
      expected == IF p.first THEN p.pkt_id ELSE old.expected
      whole == old.received + 1 = expected
  IN
  /\ p.type = "REPLY"
  /\ net' = net \ {p}
  /\ pending' = [pending EXCEPT
       ![p.key] = [old EXCEPT !.received = @ + 1, !.expected = expected,
                              !.bytes = @ + p.payload, !.live = @ /\ ~whole]]
  /\ done' = IF whole THEN [done EXCEPT ![p.key[1]] = Append(@, p.key[2])] ELSE done
  /\ UNCHANGED <<nextId, serving, tasks, armed, asked, handed>>

\* Mutant of Garbage: every request that has arrived whole, answered or not.
GarbageAny(state) == state.received = state.expected

Garbage(state) == state.replied /\ state.old

\* A state goes in the second pass after its reply.
AfterPass(states) ==
  [k \in {k \in DOMAIN states : ~Garbage(states[k])} |->
     [states[k] EXCEPT !.old = @ \/ states[k].replied]]

\* garbage_collect_state
CollectGarbage(s) ==
  /\ serving' = [serving EXCEPT ![s] = AfterPass(serving[s])]
  /\ UNCHANGED <<nextId, pending, tasks, armed, net, asked, handed, done>>

Next ==
  \/ \E c \in Clients, s \in Servers, payload \in Payloads : SendRequest(c, s, payload)
  \/ \E p \in net : ReceiveRequest(p) \/ ReceiveReply(p)
  \/ \E s \in Servers : Respond(s) \/ CollectGarbage(s)

Spec == Init /\ [][Next]_vars

\* Packets are delivered, the response timer of a busy application expires, and the
\* collection timer sets itself again for ever.
FairSpec ==
  /\ Spec
  /\ WF_vars(\E p \in net : ReceiveRequest(p) \/ ReceiveReply(p))
  /\ \A s \in Servers : WF_vars(Respond(s)) /\ WF_vars(CollectGarbage(s))
-----------------------------------------------------------------------------
\* The types; the packets expected are unknown (-1) or at least one, and no state
\* has received none (r2p2-server.cc:6-10,71-97).
TypeOK ==
  /\ \A c \in Clients : nextId[c] \in 0 .. MaxRequests[c]
  /\ \A k \in DOMAIN pending :
       /\ k \in Keys
       /\ pending[k] \in [left : Nat, expected : Nat, received : Nat, bytes : Nat, live : BOOLEAN]
  /\ \A s \in Servers : \A k \in DOMAIN serving[s] :
       /\ k \in Keys
       /\ serving[s][k] \in [expected : {-1} \cup (Nat \ {0}), received : Nat \ {0},
                             bytes : Nat, replied : BOOLEAN, old : BOOLEAN]
  /\ \A s \in Servers : tasks[s] \in Seq(Keys)
  /\ armed \in [Servers -> BOOLEAN]
  /\ \A p \in net : p.type \in {"REQUEST", "REPLY"} /\ p.key \in Keys /\ p.server \in Servers

\* The response timer is pending exactly when a request waits: it never expires on
\* an empty queue, whose front it would read, it is idle whenever an arriving request
\* sets it, and no request waits without one: an arrival that finds a queue sets none,
\* so a timer lost once would stay lost (r2p2-app.cc:182-186,202-210).
TimerCoversQueue == \A s \in Servers : armed[s] <=> tasks[s] # <<>>

\* While a request waits for its answer, the state the answer is noted in exists,
\* is complete and unanswered, whatever the garbage collector did in between
\* (r2p2-server.cc:207,247-267).
QueuedStateLives ==
  \A s \in Servers : \A i \in 1 .. Len(tasks[s]) :
    LET k == tasks[s][i] IN
    /\ k \in DOMAIN serving[s]
    /\ serving[s][k].received = serving[s][k].expected
    /\ ~serving[s][k].replied

\* A first packet finds no state, or one that packets which overtook it have opened
\* and whose length is unknown: the assertion at r2p2-server.cc:117.
FirstPacketFirst ==
  \A p \in net :
    p.type = "REQUEST" /\ p.first /\ p.key \in DOMAIN serving[p.server] =>
      serving[p.server][p.key].expected = -1

\* A reply under way finds the state of its request, and finds it not yet deleted
\* (r2p2-client.cc:136-149,199).
ReplyAwaited ==
  \A p \in net : p.type = "REPLY" =>
    p.key \in DOMAIN pending /\ pending[p.key].live

\* A request the application has had, and whose state has been collected, is never
\* opened again by a late packet: nothing would ever collect that state
\* (r2p2-server.cc:68-98,247-256).
NoReopening ==
  [][\A s \in Servers : \A i \in 1 .. Len(handed[s]) :
       LET k == <<handed[s][i].client, handed[s][i].id>> IN
       k \notin DOMAIN serving[s] => k \notin DOMAIN serving'[s]]_vars

\* Every request is completed at its client, and its state at every server is
\* collected in the end (r2p2-client.cc:192-200, r2p2-server.cc:237-270).
AllSettled ==
  \A c \in Clients : \A id \in Ids(c) :
    (nextId[c] > id) ~>
      /\ \E i \in 1 .. Len(done[c]) : done[c][i] = id
      /\ \A s \in Servers : <<c, id>> \notin DOMAIN serving[s]

\* The layer implements the service it offers to applications: requests handed over
\* once and whole, answered in order, completed once (send_to_application,
\* r2p2.cc:66-94).
Service == INSTANCE RequestService WITH
  answered <- [s \in Servers |-> Len(handed[s]) - Len(tasks[s])]

Implements == Service!Spec
=============================================================================
