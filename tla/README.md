# PhantomPass in TLA+

PhantomPass is a receiver-driven data centre transport with phantom queues in the
switches.  The repository holds an ns2 simulation of it (the end hosts in
`ns2.34/ns-2.34/apps/r2p2-cc/r2p2`, the switch in `ns2.34/ns-2.34/classifier`) and
the data plane of a Tofino switch (`tofino/`).  This directory specifies and checks
the two halves of the protocol, the credit loop between the hosts and the byte counts
in the switches, how they meet, the policies and the congestion control that steer the
loop, and the request layer above it.

File names below are relative to `apps/r2p2-cc/r2p2/` unless they start with another
directory; `hybrid.cc` is `cc/micro-rpcs/r2p2-cc-hybrid.cc`, `support.cc` is
`cc/micro-rpcs/r2p2-hybrid-support.cc`.

## The system

| Part | State it keeps | Operations | Modelled |
|---|---|---|---|
| Credit loop, sender side (`hybrid.cc`, `support.cc`) | per message: unsent bytes, announced, scheduled, self-allocated credit; per receiver: the credit pool, FIFO of inactive messages, active messages | `send_to_transport`, `send_data`, `received_credit` | `HybridCredit`, `MessageDelivery` |
| Credit loop, receiver side | per message: received, granted, seq, information; per sender: bucket (`srpb`) and window; the global budget | `recv`, `received_data`, `send_grants`, `send_credit_policy_common`, `forward_grant` | `HybridCredit` |
| Congestion control (`update_sender_state` and the two window rules) | per sender: two ECN averages, packet counts, two windows | on every packet | `SrpbWindow` |
| Policy of a sender | per receiver: deficit, quantum, the message offered, the priority | `update_policy_state`, `want_to_send`, `select_msg_to_send` | `SenderPolicy`, `SenderAudit`, `SenderQueues` |
| Policy of a receiver | the array of inbound messages and a place in it | `send_grants_ts_msg`, `send_grants_srpt_msg`, `send_grants_equal_bif_msg`, `InboundMsgs` | `GrantOrder` |
| R2P2 layer and application (`core/`, `app/`) | requests and replies being assembled, queue of requests to answer | `send_req`, `handle_*_pkt`, `send_response`, garbage collection | `R2p2Layer`, `RequestService` |
| Phantom queue of a simulated switch (`classifier/classifier-hash.cc`) | per port: byte count, time of the last departure | `ppass_ingress`, `ppass_egress` | `PPassPort` |
| Symmetric multipath hash (`classifier/classifier-mpath.cc`) | none | `classify` | `PhantomPath` |
| Phantom queue of the hardware switch (`tofino/PhantomPass.p4`) | per port: byte register, time register | egress pipeline | `TofinoEgress` |
| `queue/ppass-queue.cc`, `queue/ppass-state.cc` | two queues per link, one count per switch | `enque`, `deque` | not modelled: not installed by `simulation.tcl` |
| Pacer (`cc/tools/r2p2-leaky-bucket.cc`), uplink queue, router, `R2p2CCMicro`, UDP agents, Homa, ExpressPass, pFabric, workload generator, OMNeT, scripts | | | not modelled: other transports, code the hybrid transport bypasses, configuration and statistics |

How they interact.  A host polls at a fixed interval.  A poll first hands out grants,
then sends data.  A GRANT takes bytes from the global budget and from the bucket of
the sender and puts them into the pool the sender keeps for that receiver.  Any message
of the sender to the receiver may spend them.  A data packet that arrives puts its wire
bytes back.  Messages below a size threshold are "unsolicited": they put credit into
the pool themselves, and every packet of theirs tells the receiver how much, which
charges it when the first one comes in.  On the way, a grant is counted in the phantom
queue of each port it comes in through, which is the port its data will leave through,
if the multipath hash sends both over the same spine.  A data packet that leaves a port
whose count is over a threshold is marked, and the marks move the window of the sender.

What is hard about it: four handlers on two hosts move the same bytes; the network
reorders; the credit is fungible within a sender, so a message may be finished by credit
granted to another one and its own grants come later; the state of a message dies when
two independent events have both happened, in either order; the counts of the switches
are drained lazily, rounded, limited, and on the hardware switch unsigned; the loop of a
receiver deletes from the array it goes through; a packet count is compared for equality
by one function and moved by another.

## Modules

`Totals` defines the total of a weight over a finite set as the number of its units, so
that no recursion is needed and the provers can reason about it.

`Frames` is the arithmetic of packets: what they cost on the wire, with headers and padding,
and how much credit a message may give itself (`SelfCreditData`): all of its bytes if they fit
in `max_srpb_`, else the full frames that do, and in either case no more than the room left in
the pool, where a frame is always let in.  `HybridCredit` and `SenderQueues` share it.

`HybridCredit` is the credit loop with any number of senders and one receiver.  Its
state is that of the code (the comment at each variable names the field).  The actions
are the steps of a poll and the handlers:

| Action | Code |
|---|---|
| `Submit` | `send_to_transport`, `prep_msg_send`, `sending_request`, `sending_reply` |
| `Activate` | the loop over `outbound_inactive_` in `send_data` (self-allocation, or the GRANT_REQ) |
| `SendPacket` | the rest of `send_data`, with `want_to_send` for the choice of the message |
| `ReceiveGrant` | `received_credit` |
| `ReceiveGrantReq`, `ReceiveData`, `ReceiveReply` | `recv` and `received_data`, with the replenishment and the deletion |
| `Grant`, `Reap` | `send_credit_policy_common` and `forward_grant` |

A poll is a loop over such steps that the pacers may end anywhere, and the receive
handlers never interrupt it; the state after a poll of several steps is that after
several polls of one step each, so the steps themselves are the actions.  The receiver
may visit its messages, and the sender its receivers, in any order, and the window on
every packet is any of `Windows`: this module covers whatever the policies and the
congestion control do, and `GrantOrder`, `SrpbWindow`, `SenderPolicy` and `SenderQueues` say
what that is.  `net` is a set: packets arrive in any order, since a grant, a GRANT_REQ and data of one pair of hosts
travel over different spines (`hybrid.cc:446` expects it), and none is lost, since nothing
in the code retransmits and the experiments size the queues accordingly.  Messages of one
packet sent as a reply bypass the accounting of the receiver (`hybrid.cc:376-399`);
`Replies` holds them.

`MessageDelivery` is the abstract specification of a transport: of every message it is given
it sends each packet once, in order, and each packet arrives once, in any order, and hands
up the bytes it carries.  It knows no credit.  `Delivery` in `HybridCredit` is the
refinement mapping: what has been sent of a message follows from `unsent`, and what has
arrived of that is what is no longer in flight.

`GrantOrder` is `HybridCredit` with the receiver's real loop: `order` is the array of
inbound messages, `current` the place in it, and a poll is `Start` (the two sorting
policies sort), a `Visit` per message and `Stop`.  Every visit is a `Grant` or a `Reap` of
`HybridCredit` or leaves it alone; every other action of it happens between two polls
(`Between`), keeping the array.  The pacer may stop a poll after a grant in it; a poll it
stops before that does nothing and is left out.
`std::sort` is not stable, so equals may come in any order; the bytes a message still
expects wrap around while its size is unknown, so that it sorts last.  Under time sharing
`next()` comes after the visit that may delete the message; `failed` is the exception it
then throws on an empty array, which ends the simulation.

`SrpbWindow` is the congestion control of one sender: `update_sender_state`,
`update_nw_state` and `update_sn_state` as one action, `ReceivePacket`, with any marks.
Each of the three functions decides for itself whether a round of the averages is over:
`Updates` is the comparison of `update_sender_state`, which counts the packet and starts the
next round last, and `RatioDue` the one the two window rules make again, each for its own
average, before that count is set back.  Averages are in units of `1/One`, and windows are rounded
down to whole bytes as the code does.  Packet counts stop at `PktCap`, from which on no
comparison tells them apart (`WindowAssumption`).

`SenderPolicy` is the deficit round robin by which a sender divides its uplink, for
`sender_policy` 0 and 1, over arbitrary sets of receivers that can send and an arbitrary
preferred one of them.  Deficits are exact multiples of `1/Unit` where the code has
doubles; the initial quantum of -1 is 0 here, as nothing reads it before the first round.
`SenderAudit` adds, for the properties, for how many packets a receiver has waited.
`SenderQueues` puts the messages and the credit behind it: which message is offered for a
receiver, which receiver that makes the preferred one, and what its packets cost.  A
message brings credit for all of its packets, for the first of them (where the bucket or the
pool has room for no more), or for none; `own` is `self_alloc_credit_data_`, and `Covered` are
the packets it stands for.  The receiver grants the others (`Granted`), once it knows of the
message: at the GRANT_REQ of one that announces itself, after the first data packet of one that
brought credit.  Headers and padding make the two counts of credit (with and without them)
drift apart.  The receiver is left out but for these grants, which come in any order.  The activation of a message and the choice of one are
separate actions, because the pacer may come between them.  It assumes finitely many
messages, of which a simulation has no more.  `SenderQueues` implements `SenderPolicy`
(`Implements`).

`PPassPort` is the phantom queue of a simulated switch: ports, a clock, and packets that
cross from one port to another.  The rate is a fraction `Num/Den`, so the rounding to
whole bytes is modelled exactly.  The length of the real queue is an input
(`Backlogs`).  `PPassAudit` adds the phantom queue as it is meant, draining all the
time, in `1/Den` of a byte.

`PhantomPath` composes the credit loop with the multipath hash: `owed[s][k]` is what
the phantom queues on the path over spine `k` have counted for grants less what has gone
over it.  A grant is counted when it passes, a data packet when it is sent.  The hash is
a constant operator on keys; what matters is the key.  Both leaf switches are assumed to
list the spines in the same order, which `simulation.tcl` does.

`TofinoEgress` is the egress pipeline of the hardware switch on unsigned words, with the
widths as constants.  The clock is the low word of the global time and starts again when it is
full; the interval since the last packet, its drain and the difference with the length of the
packet are words as well.  A crossing is split into `CreditPacket` (register of the ingress
port) and `OtherPacket` (registers of the egress port), as no packet touches both.
`TofinoAudit` adds the continuously drained queue, and for each port the true time since it
last sent, which no word cuts off.  The switch cannot tell an idle time whose drain does not
fit a word from a shorter one; the port is then in `cutOff` until its register is empty
again, and the properties are about the other ports.

`R2p2Layer` is the layer above the transport: a client cuts off REQ0 and hands the rest
over when the transport answers it (one chain of calls, `SendRequest`), the server counts
packets until the request is whole (`ReceiveRequest`), the application queues it
(`Enqueue`, which sets the response timer only if nothing waits yet, as the application does) and
answers one at each expiry of its timer (`Respond`, `Dequeue`, which sets it again if more
wait), the client
completes the request with the reply (`ReceiveReply`), and a periodic sweep forgets
answered requests (`CollectGarbage`).  The transport is reduced to `net`: every packet of
a message arrives once, at any time after it was sent.  This is what `MessageDelivery`
promises and `HybridCredit` implements (`Delivers`).  The reply of the application has 4 bytes in the code, so one
packet.  `asked`, `handed` and `done` are the logs the application traces.
`RequestService` is the abstract specification: what applications are promised.
`Service` in `R2p2Layer` is the refinement mapping; the only thing it computes is how many
requests a server has answered, those handed over less those still queued.

The modules that end in `_proofs` hold the lemmas and theorems: `CreditLoop_proofs` those
about `GrantOrder` and `PhantomPath`, `SenderPolicy_proofs` those about `SenderAudit` and
`SenderQueues`, and `Totals_proofs` those about totals that the others rest on.  The `MC` modules give the constants values for TLC.

## Runs

| Run | Instance | What it shows |
|---|---|---|
| `scheduled` | 2 senders, 4 messages, all announced | payload conserved, no state dies early, every message completes |
| `phantom_path` | 2 scheduled requests of one sender, 1 unsolicited, 1 reply, 2 spines: the configuration PhantomPass ships (`unsolicited_thresh_bytes` one frame) | credit is conserved and all of it returns, grants cut a message as the data does, when the traffic rests each path has carried what its phantom queues counted, and every packet of a message is sent and arrives once (`Delivers`) |
| `early_credit` (violated) | 2 messages of two packets, unsolicited | the budget exceeds its maximum, against the assertion at `hybrid.cc:1166` |
| `grant_order` | 2 senders, 3 messages unsolicited up to the bucket, three policies | the array of the receiver stays whole, the shortest message that can have credit is granted first, every message completes under each policy |
| `grant_order_empty` (violated) | the same under time sharing | `next()` is called on an empty array and throws |
| `window` | both ECN signals, a bucket of 5 frames, one minimum below a frame | the averages of three functions stay fractions, rounds end, a silent signal opens its window in full, one that is always marked keeps it at four frames |
| `sender_policy` | 3 receivers, half of a unit shared fairly | deficits and waits are bounded whoever is preferred |
| `sender_queues` | 4 messages to 2 receivers, with credit of their own for all of their packets, some or none | the real choice of messages implements the round robin, the credit a message brought is there when it is needed, the pool keeps its limit up to a frame for each message to be announced, all credit is used up, everything is sent |
| `ppass_port` | 2 ports, rate 3/2 | the lazily drained count never runs ahead of the real phantom queue and no mark is false |
| `tofino` | 2 ports, words of three bits | the same for the registers, and their limit, while the clock, the drain and the difference wrap around |
| `tofino_drain_rate` (violated) | 2 ports | a packet longer than the drain clears the register, against the comment at `tofino/common/headers.p4:6` |
| `r2p2_layer` | 2 clients, 2 servers, 3 requests of one or three packets | requests are handed over once and whole and completed once (`Implements`), the state of a request lives as long as anything needs it and is never reopened, the response timer matches the queue, everything is completed and collected |

### Bounds

A frame of the instances of the credit loop has 4 bytes of payload and 1 of overhead and
is at least 3 bytes long, so a last packet may be padded, exactly the minimum, longer, or
full: every branch of `add_header_overhead` and of the packet sizes is taken.  Messages
have up to three packets, so that grants, first, middle and last packets all race each
other.  The bucket (9) is less than two frames, the budget (13) less than two buckets, so
both limits bind.  The windows are one that stops a sender with a frame outstanding and the
full bucket.  In `grant_order` two messages of one sender share a pool, so that one is
received whole before it is granted whole, and a third takes the budget away from them; all
three are longer than or as long as the bucket, so that what the bucket does not cover has to
be granted.

In `window` the bucket is five frames and averages are those of the last round (`One` and
`Weight` are 1), which makes the cuts as large as they can be; one minimum is below a frame,
the other one is reached.  Preferred flows are off; the proofs cover them, and every other
weight.  In `sender_policy` a unit is twelve twelfths, so that the fair half of it can be
divided by 1, 2 or 3 and nothing is rounded; three receivers is the least number with a
group that is neither one receiver nor all.

In `sender_queues` a frame is that of the credit loop but at least 4 bytes long, and the pool
is limited to 14 bytes.  One receiver has an announced message of a byte and two unsolicited ones of three packets (9
bytes), the other one an unsolicited one of three full packets, which costs more than
`max_srpb_` (15).  So a message gets credit for all of its packets (the first of 9 bytes, in an
empty pool), for the full packets that fit `max_srpb_` (the one of 12 bytes), for the room that
is left, or for the one frame that is always let in (the second of 9 bytes, depending on what
has been used by then); and grants for the rest of one message may be spent by the other.

For the simulated switch, a threshold of a byte, a limit of ten and three units of time let a
port fill to its limit, drain to nothing and mark in between; longer runs only repeat this.
For the hardware switch a word has 8 values and 2 bytes drain in a unit of time: the clock
starts again after 8 units and a drain after 4, as often as one likes, since this run has no
bound on time.  The limit of 5 bytes drains in 3 units, so a port can be idle for longer than
its register needs and for longer than a word holds; packets are shorter than the drain of a
unit and longer.  For the R2P2 layer, three packets let two overtake the first one, which is
where the server must count without knowing the total; a client with two requests to either
server leaves gaps in the ids a server sees, and two requests at one server queue up.
`MaxTime`, `MaxRequests` and `PktCap` are the only bounds that are not parameters of the
code.  Where a proof exists it covers every value of the constants.

Deadlock checking is off in the runs of the credit loop: when every message has been
delivered the system really stops.

Stranded credit.  `Completion` is true of the instances because bucket and budget are
large enough.  With a bucket of less than two frames less a byte (here 5 to 7 bytes with
messages of 4, 6 and 1), fragments of credit strand in the pool that no packet fits, and
the system stops short of delivering everything; the same happens when the budget cannot
cover one such fragment of every sender and a frame.  `MaxSrpb >= 2 * MaxFrame - 1` and
`Budget >= N * (MaxFrame - 1) + MaxFrame` for `N` senders are enough.  The shipped
configurations keep to this except `simple-incast.sh` (`srpb` 2148 with frames of 1538):
whether credit strands there depends on the sizes of the messages.

### Fairness

* `FairSpec` of `HybridCredit`, and `FairPathSpec` of `PhantomPath`, have weak fairness of
  each step of each host and of the delivery of some packet.  Hosts poll at a fixed interval
  for the whole simulation and every queue in the network is served; the pacers and the
  window only delay a step.  Weak fairness of `Grant(m)` for each message stands for a
  receiver that gets round to everyone.  Nothing is assumed about `Submit`.
* `FairOrderSpec` of `GrantOrder` does without that: it assumes nothing about any single
  message, only that the poll timer sets itself again and a poll goes on (`WF` of `Poll`) and
  that the hosts and the network get their turn between polls.  That is strong fairness,
  since a poll disables those steps while it runs; there are finitely many of them and none
  repeats for ever, so that fairness to them together is fairness to each.  `Completes`
  shows under it what `FairSpec` takes for granted.
* `FairSpec` of `SrpbWindow` assumes that packets keep coming: a sender with messages has
  credit for at least a frame again and again.  Nothing is assumed about marks; the
  properties say themselves which marking they are about.
* `FairQSpec` of `SenderQueues` assumes that the poll timer keeps activating and sending and
  that the receiver grants what was asked for.
* `FairSpec` of `R2p2Layer` assumes that packets are delivered and that the response timer and
  the collection timer expire; the latter sets itself again at the end of every sweep
  (`r2p2-server.cc:269`).  Nothing is assumed about new requests.

## Proofs

All proofs are by the SMT backend, with Zenon and the temporal backend where needed, and
rest on the assumptions named in the modules only.

* `HybridCredit_proofs`, `TypeCorrect`: `TypeOK` is inductive.  The parts that are not
  obvious: the pool of a sender stays a natural number, because `Choice` only offers
  messages whose next packet the pool covers with headers and padding; `unsent` never
  exceeds the size and never goes below zero, because a packet is never longer than the
  rest of its message; the wire cost of a packet is a natural number in spite of the
  division.
* `HybridCredit_proofs`, `PayloadKept`, `NoStateRevived`, `CreditKept`,
  `BudgetNeverExceeded`: payload and credit are conserved, the state of a message
  is deleted for good, and, when every message is scheduled, the budget never exceeds
  what it started with.  None of these is inductive.  `IInv` strengthens `PayloadConserved`
  by what a packet in flight says of its message (`PacketInv`), what the receiver
  remembers or has forgotten of a message (`ReceiverInv`), and what has not happened yet
  to a message that waits (`QueueInv`, `ActiveInv`, `ReplyInv`).  `net` is a set, so a byte
  count over it only grows by a packet that is not in it: the next data packet ends
  after everything sent before (`SentPacket`), the next grant has a larger `seq` than
  every grant in flight (`GrantBalance`).  Self-allocated credit is charged once because
  the receiver cannot have forgotten a message that still has data in flight: a
  forgotten message is complete, and with `PayloadConserved` nothing of it is in flight
  (`InFlightMeansOpen`).  This also gives `NoRevival`.  The balance of a sender is then kept by
  each step separately, and the budget is what the buckets have not lent out
  (`BudgetInv`), each of which, by `CreditConserved`, has lent out at least nothing.
  `BudgetNeverExceeded` needs its assumption `AllScheduled`: the run `early_credit` is
  the counterexample without it.
* `GrantsPriceData`, in the same module: every grant carries the `seq` and the cost of one
  data packet of its message.  What has been granted is a multiple of the payload until
  it is all of the message, and then equals the `seq` of the last grant (`GrantedInStep`);
  so does the receiver's next grant.  The assumption `ShortUnsolicited`, that no message of
  several packets is unsolicited, is needed: otherwise the credit a message brought along
  counts as granted while `seq` still starts at 0 (`hybrid.cc:484,1801`).
* `LoopDelivers`, in the same module: the credit loop implements `MessageDelivery`, whatever
  the windows, the order of service and the sizes.  A packet is known by the byte it ends
  at.  Two invariants go with those above: what has been sent of a message ends where one of
  its packets does (`CutInv`), and every data packet in flight is one of those sent and
  carries what it should, no two the same (`PartsInv`).  Then a step of `send_data` sends
  exactly the next packet (`NoneBetween`), a data packet that is received arrives and is
  handed up (`ArriveDelivery`), a submission gives the message, and all else stutters.
* `CreditLoop_proofs`, `PlaceKept`, `LoopImplements`, `PoliciesConserve`, `ShortestGranted`,
  about `GrantOrder`: the real loop of the receiver, under each of its policies.  `LoopInv`
  says that the array holds every inbound message once and that `current` is a place in it
  (`PlaceInv`), and, during a poll that sorts, that nothing before the place could still be
  granted unless it was granted in this poll (`PollInv`).  Two lemmas about sequences carry
  it: a sort of the array is a permutation of the inbound messages, and a removal keeps the
  others, distinct and in order, each moved up by at most one (`RemoveAtDistinct`).  What a
  grant takes from the budget and the buckets only makes other messages less affordable
  (`StaysUnaffordable`), so a message that was passed over stays unaffordable for the rest
  of the poll.  `PlaceInv` makes every visit one of a message that is inbound, hence
  `LoopImplements`: every step of the loop is a step of `HybridCredit` or leaves it alone.
  The conservation of payload and credit and `NoRevival` are inherited through it.
* `CreditLoop_proofs`, `PathsSettle`, about `PhantomPath`: when everything is delivered, each
  path has carried what its phantom queues counted.  The balance that holds at any time
  (`PathBalance`) is that of one path: what is owed on it, the grants for it in flight, and
  the cost of the data packets sent over it add up to the cost of the data packets granted
  for it.  A grant or a data packet moves the message on by exactly one packet of the same
  cut, on the same path (`AdvanceCarries`), because both are cut from the start into full
  packets up to the last (`GrantedInStep`, `CutInv`), no packet of the cut ends in between
  (`NoneBetween`) and the hash of both is the same.  `GrantedInv` and `OwnCreditInv` say
  which messages take part: an unsolicited message is never granted and its packets owe
  nothing.  At rest, what has been sent and granted of a message is all of it or nothing,
  so the two costs cancel.  `ShortUnsolicited` is needed: with an unsolicited message of
  several packets (a threshold of 12 bytes in the instance of `phantom_path`) TLC finds a
  path that does not settle.
* `PPassPort_proofs`, `PPassTypeCorrect`, `CountNeverAhead`, `MarksJustified`: the
  count of a port stays within its limit; it is never ahead of the continuously drained
  queue; marks are justified.  The inductive invariant is `NeverAhead` with the types and
  `MarkedOver`: a port that has marked at this instant is drained up to now and still over
  the threshold, so that nothing is due and `NeverAhead` compares the count itself.  The
  arithmetic rests on two lemmas, the division with remainder (`DivMod`) and the
  monotonicity of the product (`TimesMono`).
* `TofinoAudit_proofs`, `TofinoTypeCorrect`, `RegisterNeverAhead`, `RegisterMarksJustified`:
  the same for the registers of the hardware switch, for any widths and runs of any length.
  A difference that wraps around is larger than the register, which is cleared: the wrap only
  ever takes off more than it should, so a register that is not ahead stays so.  The clock may
  start again any number of times: the wrapped difference of two readings is the time between
  them as long as the drain of that time fits a word (`ClockInv`).  Where it does not, the port
  is in `cutOff` with its next packet, and takes part again as soon as its register is empty
  and it has not marked at that instant.
* `SrpbWindow_proofs`, `WindowType`, `RatiosAreFractions`, `RoundsEnd`, `HalvedAtMost`: for
  any bucket, minima, weight and marking.  `RoundsEnd` is the one that
  takes an argument.  A round ends when a count equals the number of frames that fit in the
  window, so a window below a frame `F` would end no round again.  Where the minimum allows
  that, the increase prevents it: a window `w` that is halved after growing by `F*F/w` is at
  least `F`, because `(w-F)*(w-F-1) >= 0` (`AboveFrame` in the inductive invariant).  This
  needs the increase of at least a frame per window and no preferred flows, which lift
  `max_srpb_bytes_` over the window (`FramesFit`).
* `SenderPolicy_proofs`, `PolicyType`, `DeficitsNotHoarded`, `DeficitsAreBounded`,
  `WaitsAreBounded`, `EverybodyGetsShare`: for any number of receivers and any fair weight.
  The deficits are bounded for every group of receivers at once: the one that pays had the
  largest deficit, so the others of a group of `n` had at most `n/(n+1)` of what the group
  with it had.  From one unit per receiver for all `N` this leads down to
  `1 + 1/2 + ... + 1/N` for a single one.  A wait is bounded because each packet
  waited for adds a fair share to the deficit of whoever waits (`WaitBacked`).
* `SenderPolicy_proofs`, `QueuesImplementPolicy`, `QueuesTypeCorrect`, `CreditIsCovered`,
  `PoolIsLimited`, `NoCreditLeft`, about `SenderQueues`: the choice among real messages
  implements the round robin over arbitrary ones, and its credit comes out even, for messages
  with credit for all, some or none of their packets.  The invariant (`QueueInv`) relates each
  message to the stage it is at (`MessageInv`) and each receiver to its messages (`PoolInv`):
  the credit in the pool and the credit still to be granted are together the cost of the
  packets still to be sent, in the count with padding and in the one without; the pool is at
  least what the messages to be announced cover by themselves, and at most `max_srpb_`, their
  first packets and the packets that were granted.  All of these are totals over families of
  packets, one set for each message (`Pairs`), and every step adds or takes a set of packets of
  one message (`PairsGrow`).  Two facts connect them with the bytes of the code: the credit for
  the first `n` bytes of a message, headers and padding included, is exactly what the packets
  that hold them cost, if `n` is all of the message or a number of full packets (`FirstCost`),
  and what `SelfCreditData` returns is one of these, at least a byte, and fits the room in the
  pool or costs no more than the first packet (`SelfCreditIs`).  A message that is announced
  already is only sent when no message to be announced could be, and one that is to be
  announced always could (`FirstFits`), so it never spends what another one brought along.
* `R2p2Layer_proofs`, `LayerTypeCorrect`, `TimerArmed`, `QueuedStateKept`, `LengthToldOnce`,
  `RepliesAwaited`, `NeverReopened`: for any hosts, requests and order of arrival.  The
  inductive invariant says of every request that it is at one of the stages of its journey
  (`Journey`): its packets arriving (those in flight and those counted make up the total),
  queued, answered with the reply in flight, or completed; and of each stage what server,
  client and network hold of it.  The theorems read off the stage.
* `LayerServes`, in the same module: the R2P2 layer implements `RequestService`.  The mapping
  counts the requests a server has answered, so `ServiceInv` has to follow bytes and queues:
  the bytes that arrived and those under way are the bytes asked for (`ComingInv`), the
  requests queued are the last ones handed over, in their order (`TasksInv`), a reply under
  way is that of a request that was answered (`ReplyInv`), and nothing of a completed
  request is left (`DoneInv`).  That the packets of a request carry all of its bytes is a
  bijection between the units of its packets and its bytes (`BytesOfPackets`).  Four steps of
  the service are implemented: `AskStep` by `SendRequest`, `HandStep` by the packet that makes
  a request whole, `AnswerStep` by the expiry of the timer and `CompleteStep` by the reply;
  the others stutter.

The totals are handled by the lemmas of `Totals_proofs`: a total changes by the weight of
the element that is added, removed or weighed anew, and the total of a disjoint union is
the sum of the totals.  The same module has the few facts about products, quotients and
remainders that the others share, since the provers do little with them by themselves.

Only model-checked: all liveness properties (`Completion`, `Completes`, `CreditReturns`,
`RatioFollows`, `Recovers`, `Yields`, `AllSent`, `AllSettled`), which are out of reach of the
prover, and everything about instances with unsolicited messages of several packets that
`BudgetNeverExceeded`, `GrantsPriceData` and `PathsSettle` exclude.  Every
invariant and action property of the passing runs is stated by a theorem (those three under
the assumptions named there), as are the three refinements.  `TypeOK` of `R2p2Layer` is proved
only, no run checks it.

## What the runs found

* `early_credit`.  The assertion `budget_bytes_ <= max_budget_bytes_` fails when messages of
  several packets are unsolicited and packets are reordered.  The authors met the same thing
  for the buckets and commented the assertion out there (`hybrid.cc:1747`).  The default
  threshold of 100000 bytes makes every message up to the bucket unsolicited.
* `grant_order_empty`.  Under time sharing (`receiver_policy` 0, used by the work-conserving
  examples; the default is 3, shortest first), a visit may delete the message visited, and
  `next()` comes after it.  If the message was the last, `next()` throws and nothing catches
  it; if not, the message that moved up is passed over in this round.  It takes a message
  that is received whole, by credit granted to others, before it is granted whole, and that
  is visited again only when the others have gone.  The sorting policies call `next()` first.
* `tofino_drain_rate`.  The register of the hardware switch is cleared, not increased, by a
  packet that is longer than the drain since the last one, and it drains at 4 bytes per ns
  where the comment says 2.

Met while reading, without a run:

* The pool can exceed one bandwidth-delay product by up to a frame per message to be announced,
  even without any grants, against the comment at `hybrid.cc:807`; `PoolLimited` is what holds.
* A port of the hardware switch that has not sent for more than 2^30 ns, about 1.07 s, drains
  only the rest modulo 2^32 bytes (`PhantomPass.p4:183`).  Its register can then be ahead of the
  phantom queue, and mark falsely, until it is empty.
* Grants of a message that is unsolicited only in its first part start their `seq` at 0
  instead of at the first byte they pay for (`hybrid.cc:484,1800-1801`), so they are hashed
  to other paths than the data.
* Of the messages of a receiver still to be announced, the sender announces the longest
  one first, because the loop overwrites its choice (`support.cc:444-446`), and that one
  then decides the priority of the receiver (`support.cc:173`).
* With `sender_policy` 2 the assertion that a receiver was chosen fails (`support.cc:209`);
  with `sender_policy_ratio_` 1 the one on quanta does (`support.cc:306-307`).  The shipped
  configurations use neither.
* With preferred flows a window may fall below a frame while `max_srpb_bytes_` is at the
  bucket; once it counts again, the averages may freeze (`hybrid.cc:1230,1271`).

## What is not modelled, and why

* Congestion control: the HPCC-like windows (`sender_algo` 100 and 101), which need the
  rates and the floating point of the link telemetry; `sender_algo` 1, which throws
  (`hybrid.cc:171`); and the variants 2 and 3 of the host's mark (`hybrid.cc:276,286`).  Every
  shipped configuration uses 0.
* `sender_policy` 2, whose choice fails an assertion.
* Replies of several packets: the application only sends 4 bytes.
* Options that throw or are never read: `account_unsched_` 0, `pace_grants_` 0,
  `unsolicited_limit_senders_`, `unsolicited_burst_when_idle_`, `reset_after_x_rtt_`.
* `PPassQueue` and `PPassState`: `simulation.tcl` creates the states, but the lines that would
  put the queue on a link are commented out.
* The pacer class `R2p2LeakyBucket`: only the first transport, `R2p2CCMicro`, uses it, whose
  `recv` throws.  What the pacers of the hybrid transport do, ending a poll early, is in the
  models.
* The uplink queue of a host (`enque` throws) and the R2P2 router (the transport refuses
  `REQRDY`), which no configuration uses.
* Routing and the ns2 core (the round robin over paths, the checks of `MultiPathForwarder`),
  the parsers, checksums and tables of the P4 program, Tcl and Tk: third-party code and
  configuration around the program.
* Homa, ExpressPass, pFabric and OMNeT: other transports, kept for comparison.
* Random arrivals, the incast generator, tracing, statistics and scripts.
* Request ids are 32 bits wide and are not exhausted by any simulation, so their wrap is left
  out.  Loss is not modelled because the code has no recovery: a lost grant or data packet
  loses its credit for good.

What would come next: the windows of `SrpbWindow` in place of `Windows`, one module per
sender; and the deficits in floating point instead of exact shares.
