# RF24Network in TLA+

A formal model of RF24Network, the network layer for nRF24L01 radios, kept
beside the code: TLA+ modules for its components, TLC configurations that check
them on small instances, and proofs for TLAPS. Line numbers are those of
`RF24Network.cpp` unless another file is named (`h`: `RF24Network.h`, `config.h`:
`RF24Network_config.h`). `PROJECT.json` lists the runs, what each definition
models, the hazards at their lines and the disagreements found.

    tlc -workers 2 -config MCRouting.cfg MCRouting
    tlapm RoutingProofs.tla

and so for the other seven modules named `...Proofs`.

## 1. Inventory

RF24Network joins up to several hundred radios into a tree. A logical address is
a 16-bit number read in octal, one digit per level (`00` the master, `01` to `05`
its children, `011` the first child of `01`). Every node is a single thread: the
application calls `update()` again and again, and `write()` calls it in turn
while it waits. Concurrency is between nodes, over the radio; the one exception
within a node is the watchdog interrupt of the sleep mode.

| Component | State | Operations | Correct when |
|---|---|---|---|
| Addressing | none (pure) | `setup_address`, `is_descendant`, `is_direct_child`, `direct_child_route_to`, `logicalToPhysicalAddress`, `is_valid_address`, `levelToAddress`, `addressOfPipe`, `pipe_address` | the masks describe the tree; every next hop is on the tree's path |
| begin, pipes, levels | `node_address`, `node_mask`, `parent_node`, `parent_pipe`, `_multicast_level`, the radio's pipe registers | `begin`, `multicastLevel` | a frame is heard by its next hop and nobody else; a multicast by the level |
| Routing, NETWORK_ACK | `frame_buffer`, RX FIFO of the radio (3 frames), the frame queue | `write`, `update`, `read` | no frame multiplies; no answer without a delivery; messages in order; everything ends |
| Fragmentation, sender | `header.id` (`next_id`), `fragment_id`, `msgCount`, `retriesPerFrag`, `networkFlags` | `write`, `main_write`, `_write` | true only if the whole message is with the receiver |
| Reassembly, Linux | `frameFragmentsCache`, `frame_queue`, `external_queue` | `enqueue`, `appendFragmentToFrame` | whole messages only, each at most once per `write()` |
| Reassembly, microcontroller | `frag_queue` | `enqueue` | the same |
| Frame queue, microcontroller | `frame_queue` (bytes), `next_frame` | `enqueue`, `available`, `peek`, `read` | nothing overwritten, first in, first out, within the buffer |
| Multicast and relay | `multicastRelay`, `_multicast_level` | `multicast`, `update` | no level below hears it, each above once per way of relays |
| RF24Mesh support | `returnSysMsgs`, `networkFlags` | `update` of POLL, REQ_ADDRESS, ADDR_RESPONSE | only polled nodes answer; a request is answered or a frame was lost; copies come to an end |
| Sleep (AVR) | `sleep_cycles_remaining`, `wasInterrupted` | `sleepNode`, `wakeUp`, `ISR(WDT_vect)` | sleeps the cycles asked for, or reports the interrupt |
| Ping examples | `active_nodes`, `num_active_nodes`, `next_ping_node_index` | `loop`, `handle_T`, `handle_N`, `add_node`, `setup` | the index stays in the table; every node learns of every other |

How they interact. `write(header, ...)` cuts the message into frames and passes
each to `_write`, which writes it into the only `frame_buffer` and calls
`write(to, sendType)`. That function asks Addressing for the next hop, sends with
the radio, and for the types 65 to 191, when the destination is more than one
hop away, calls `update()` until that returns `NETWORK_ACK` or `routeTimeout`
passes. `update()` empties the RX FIFO: frames for the node go to `enqueue()`,
frames for others to `write(to, TX_ROUTED)`. The last router before the
destination turns the frame that was acknowledged into a `NETWORK_ACK` and sends
it back. Nodes share nothing but the air.

What makes it hard:

* a wait inside `write()` routes other nodes' frames, and any `NETWORK_ACK` ends it;
* the radio's acknowledgement can be lost, so a sender may believe a frame lost
  that was delivered; a queue may drop a frame that was acknowledged;
* fragments are repeated, arrive interleaved with those of other senders, and a
  message is given up in the middle; header ids are 16 bits and begin at 1 on
  every node and after every restart;
* with `FLAG_FAST_FRAG` a fragment counts as sent when it is in the TX FIFO;
* arithmetic: masks, levels, sizes with padding, `int` of 16 bits on AVR;
* pipe 0 is heard by a whole level, and a node that hears a frame for another
  routes it: frames multiply;
* the watchdog's and the pin's interrupt share two variables with `sleepNode()`;
* `begin()` and `multicastLevel()` may be called in any order, also before the
  radio works.

`PROJECT.json` has the hazards one by one, at their lines, each with the
properties that would catch it going wrong, or the reason why none does yet.

## 2. Plan

1. `Addressing`, `RouteWalk`: the pure functions, and one message through the tree. *Done.*
2. `Routing`: concurrent messages, faults, `NETWORK_ACK`; `RoutingProofs`. *Done for user types and PING.*
3. `NodeAddress`: `begin()`, levels, who hears what. *Done.*
4. `Fragments` with `LinuxTransfer` and `McuTransfer`, against the abstract `MessageDelivery`. *Done.*
5. `FrameQueue`: the bytes of the microcontroller's queue. *Done.*
6. `Sleep`: `sleepNode()` and its interrupts. *Done.*
7. `Mesh`: RF24Mesh's messages, multicasts with relays, writes to a physical address. *Done.*
8. `RoutedTransfer`: fragments over two hops, each with a `NETWORK_ACK`. *Done.*
9. `Ping`: the two ping examples. *Done.*
10. `NodeProofs` (of `FrameQueue`, `Sleep` and `Ping`), `MeshProofs`,
    `LinuxTransferProofs`, and `InOrder` in `RoutingProofs`. *Done.*
11. `FragmentsProofs`, the lemmas about frames and jobs, and `RoutedTransferProofs`:
    `TypeOK` and the three safety properties of `RoutedTransfer`. *Done.*
12. `AddressingProofs`, the digits of addresses: the theorems of `RouteWalk` and
    `NodeAddress`. *Done.*
13. `McuTransferProofs`, that `McuTransfer` implements `MessageDelivery`: what the two
    receivers share of that proof is in `FragmentsProofs`. *Done.*
14. What could still be modelled: the radio's mode under `FLAG_FAST_FRAG` (TX FIFO,
    `txStandBy`, `setAutoAck`), a joiner that takes its new address while copies of its
    old frames are on their way, `enqueue()` of a Linux node's own messages.

Composition: `Routing`, `RouteWalk` and `NodeAddress` extend `Addressing`;
`LinuxTransfer` and `McuTransfer` extend `Fragments`, which instantiates
`MessageDelivery` with a refinement mapping; `RoutedTransfer` extends `Fragments` too
and instantiates both receivers, between which a variable chooses; `Mesh` extends
`Addressing`; `FrameQueue`, `Sleep` and `Ping` stand alone; each `...Proofs` module
extends the module it is named after, `LinuxTransferProofs`, `McuTransferProofs` and
`RoutedTransferProofs` `FragmentsProofs` besides; `AddressingProofs` extends `RouteWalk`
and `NodeAddress`, `NodeProofs` `FrameQueue`, `Sleep` and `Ping`, whose specifications have
names of their own (`WalkSpec`, `SleepSpec`, `PingSpec`) for that; each `MC...` module extends the module it instantiates.

## 3. The modules and the code

**Addressing.** Masks are all ones in their lower bits, so `x & mask` is
`x % (mask + 1)`. `setup_address(node)` returns as a record what the code stores in
members; the other operators take that record as `self`. `Path` and `Dist`
define the tree independently, from the digits, and serve as the reference.

**RouteWalk.** One message, undisturbed, between any two nodes: `Send`, `Route` and
`RouteAck` are `write()` at the origin, at a router, and `update()`'s routing of the
`NETWORK_ACK`. Each decides with the node's own masks only.

**NodeAddress.** `begin`, `multicastLevel` and the radio's `openReadingPipe` as
actions; the registers of a radio hold five bytes for the pipes 0 and 1 and one
for each other. `Hearers` is the external part: which radios in range listen to
five given bytes. `begin()` on a radio that is not valid leaves the new address
with the old masks (82 to 84); the model has that step, and `multicastLevel()` before
`begin()`, which gives a node pipe 0 alone. What a node sends between a `begin()` that
found its radio not valid and the next one, with the old masks, is in no property:
`UnicastReachesNextHop` speaks of nodes that were begun with a valid radio.

**Routing.** Per node the RX FIFO (`rx`), the message `write()` waits for
(`waiting`) and the frame queue (`queue`). One action per frame `update()` reads:
`HandlePing`, `HandleAck`, `Enqueue`, `Route`; `AppWrite` is `write()` up to its
wait, `Timeout` ends the wait, `AppRead` is `read()`, `Crash` a restart. A frame is
handled to the end within one action, since the code calls nothing in between but
the radio. `write_to_pipe` returns the set of results the radio allows: delivered,
lost, or delivered with the acknowledgement lost; a full FIFO or a node that is not
there loses the frame. Hardware retries are inside that step. `Faults` chooses what
may go wrong. A router's `write()` never waits (`TX_ROUTED`), so the recursion
`write -> update -> write` has depth two and the waiting node's thread is one
variable. Histories (`sent`, `outcome`, `answer`, `reached`, `readBy`) are read by no
guard but `Silent`, which says that an answer comes in time when the fault
"timeout" is excluded.

**Fragments, LinuxTransfer, McuTransfer.** The sender's loop, one action per frame
with an outcome, composed with the receiver's `enqueue()` in the same step:
the radio link is one hop, and the sender does nothing before it knows the outcome. A
message's bytes are pairs (message, position), so that a message assembled from
the wrong parts is told from a right one. The field `reserved` of an unfragmented
header is initialised by no constructor (h:265) and is any of `Garbage`. The outcome
"queued" is the effect of `FLAG_FAST_FRAG` (1031 to 1041): believed, but lost.

**MessageDelivery** is the abstract specification: what the queues receive is a
message being written, at most once per call, and a call that returns true
delivered it unless an acknowledged part was *spoilt*. The operators `current` to `inbox`
of `Fragments` say what its variables are there: the job, the attempts and the queues. What may spoil a message is not left to the
abstract specification: the history `swallowed` records it where the code does it,
and these are all: a fragment lost in the TX FIFO, a queue without room for
the message, the id 0 on Linux (297), and a first fragment that Linux takes for a
duplicate of another message's (352). A restart of a sender may besides leave one
message of that sender mixed up with an older one (`stale`), never one of another sender.

**FrameQueue.** Messages as intervals of the buffer with the code's own numbers;
a copy destroys what it overlaps, and `read()` recomputes the padding as the code does.
The variable `AVR` is the build: no padding, and an `int` of 16 bits. After a message that
reaches over the end of the buffer the model stops, since the code's behaviour is
undefined from there. Of the `memmove` of `read()` (674) it has what is moved to a place
before `next_frame`, and not the bytes behind: these come from behind the end of the
buffer (section 5).

**RoutedTransfer.** An origin, one router and a destination. The origin's loop is that
of `Fragments`, and the destination's `enqueue()` that of `LinuxTransfer` or
`McuTransfer`; between them are the FIFO of the router and that of the origin, which
holds `NETWORK_ACK`s only. `SendHop` is `write()` up to its wait, `Route` the router's
`update()` with the frame it sends on and the `NETWORK_ACK`; a wait ends by the first
answer in the FIFO (`TakeAnswer`) or by `Timeout`. `fast` is `FLAG_FAST_FRAG`, which
ends with the first wait, so that "queued" can happen to no later fragment. A frame
carries the call it was sent in, and an answer the frame it answers: the code knows
neither.

**Mesh.** Seven nodes and several kinds of operations. `Update(n)` reads one frame,
and each disjunct is one branch of `update()`: `PassOn` for REQ_ADDRESS and ADDR_RESPONSE,
`Return` for what is handed to RF24Mesh, `Enqueue` with the relay, `AnswerPoll`, `Route`.
A frame sent with multicast goes to any subset of the radios that listen to that
pipe 0, those of `Hearers`, computed from `pipe_address`; one to the next hop is
delivered, lost, or delivered with the acknowledgement lost. RF24Mesh is external:
`Start` sends a POLL, or a request to a node that answered one, `Respond` is the master's
response. Only the master's `write()` can wait (the response is of a type that gets a
`NETWORK_ACK`, the other writes here are direct or of system types), so `waiting` is a
Boolean. At most one relay is at level 0 (section 5).

**Sleep.** The AVR's program counter in `sleepNode()`, one action per access to
`sleep_cycles_remaining`, `wasInterrupted`, the watchdog's enable bit and the pin's
interrupt; `wakeUp` and `WDT_vect` may run between any two. The processor is external: an
interrupt that is pending runs before the next instruction, that of the pin before that
of the watchdog; one instruction runs between two. A watchdog period is long against
the code, so that at most one tick falls between two sleeps (`tickDue`).

**Ping.** `loop()` of each node in three actions: `Handle` (a message of the queue),
`Ping` (the interval is over) and, in `Network_Ping_Sleep`, `Sleep`; `Restart` is a
power failure and `setup()`. Below is a network that loses messages and keeps those of
one sender in order, which `InOrder` of `Routing` shows. `active_nodes` keeps what
`add_node()` leaves in it, the zeros behind the end included, since `send_N()` sends all
of it.

## 4. The runs

| Run | Bounds | Shows |
|---|---|---|
| `route_walk` | master and nodes with digits 1, 2, 5 (levels 1, 2) and 1, 5 (3, 4): smallest, inner, largest pipe at every level | the one path there and back, acknowledgement exactly if the origin waits; it terminates |
| `node_address` | 2 radios, 7 addresses on 5 levels, all sequences | unicast, multicast and relayed frames are heard by those meant, whatever came before |
| `routing` | nodes 00, 01, 011, 02; five flows over one to three hops; 3 writes, FIFO of 2 in place of 3 so that it fills, queue of 2, 1 restart, all faults, fair | copies, answers, order; `write()` is deceived by late answers only; everything comes to rest |
| `routing_reliable` | messages against each other, 3 writes, no faults, a queue of 4 that cannot fill, fair | all arrive and all writes return true |
| `linux_transfer` | 2 senders, 2 messages of 1 or 3 frames, 2 calls each, 1 restart, ids modulo 2, all outcomes | implements `MessageDelivery`; never parts of two senders or two ids in one message |
| `mcu_transfer` | 1 sender, 2 messages of 1, 2 or 3 frames or too long, 2 calls each, 1 restart, a queue that may be full, all outcomes | implements `MessageDelivery` |
| `routed_transfer` | 2 messages of 1 to 3 frames, 2 calls each, both builds of the receiver, FIFOs of 2, all outcomes on either hop, answers lost and late | no message assembled wrong or twice per call; true means delivered, unless a wait took another frame's answer or a microcontroller's queue was full |
| `frame_queue` | sizes with every remainder modulo 4, smallest and largest, 8 messages, 144-byte payloads; both builds | bytes of the queue; it is left in one case only, on AVR |
| `sleep` | counter of 4 values, arguments 0 to 5, with and without pin, LOW and FALLING | result, cycles slept, wake-up, return |
| `ping` | the master, a sleeping node and another, a table of 3 (10 in the sketches, for 10 addresses), one message on its way per pair, 1 restart | index, lists; everybody known as far as pings come through and meet the sleeper awake |
| `mesh` | 00, 01, 02, 011, a node 0444 at the joiner's level and 04 at the master's, the joiner; relays 00, 01, 02; 02 and 04 with `FLAG_NO_POLL`; 3 operations, of a kind one and two requests; FIFO of 2 | copies, polls, requests; everything comes to rest |

Frames of two bytes stand for frames of 24: `main_write()` and `enqueue()` use the size
only in the division into fragments, where full, short and exactly full last fragments
and the first, middle and last one all occur. Three concurrent messages are what it
takes for one wait to meet the answers of two earlier ones; the flows have the
overlapping paths through 01 and 00. Ids are counted modulo 2 where the wrap-around is
wanted and modulo 8 where it is not. A counter of 4 values has a boundary at 0, one
value before and one beyond it, and 5 is the first argument after the one truncated to
0; the theorems hold for 256. Two requests are what it takes for the wait of one
response to meet another request; the node 0444, at the level of the joiner, hears its
responses as well and routes them; the node 04, at the level of the master, hears what the
master relays there. A queue that cannot fill is part of what `Arrives` assumes: a full
one drops what the radio acknowledged (`routing` has that). Three nodes let a list be learned from the master
that names the node itself. Deadlock checking is off where what is written is bounded,
since after that the system may stop.

One run ends in a violation and shows where the code disagrees with its own words:
`mcu_two_senders` violates `Integrity`, since a microcontroller matches fragments by
their id only (462) and every node's ids start at 1. `mcu_transfer` therefore has one
sender.

**Fairness.** `Routing`: weak fairness of `Update(n)` and `Timeout(n)` for each node.
The application calls `update()` in its loop, as every example does, and the loop of
`write()` calls it too; `millis()` advances. Nothing is assumed of writes, reads, the
radio's luck or restarts. `LinuxTransfer`, `McuTransfer`: weak fairness of
`Transfer(s)`, since `main_write()` is a loop that ends only by returning. `RouteWalk`:
weak fairness of `WalkNext`, every frame is handled. `Mesh`: weak fairness of `Update(n)`,
`Respond` and `Timeout`, as in `Routing`. `Sleep`: weak fairness of the program, which
executes whatever interrupts it, of `wakeUp`, which a pending interrupt cannot be
denied, and of `WDT_vect`, since the watchdog has a clock of its own; none of the pin.
`Ping`: weak fairness of `Ping` and of `Handle` for what comes from the master or to it,
since `loop()` runs on and on, and nothing more. What else `AllKnown` takes is a premise
of it. `Links`: of the pings that find the other node listening, not all are lost in the
end. `Meets(n)`, of a sleeper only: if it listens again and again and the master pings it
again and again, then again and again a ping comes while it listens. Nothing in the code
guarantees that: a sleeper listens from the end of its own ping until it sleeps again, and
the shift of the next ping by 100 ms after a failure (Network_Ping_Sleep.ino:207) only
makes it likely. So `AllKnown` shows of a sleeper that it does listen again and again and
that the rest follows; without that luck it still shows that the others learn of all
nodes, the sleeper included.

## 5. What the models had to leave out of the promises

Besides the violation above, reading the code for the models turned up behaviour that
the properties are worded around:

* `addressOfPipe()` (1139) shifts `pipeNo` one digit too little: node 013 and pipe 3
  give 033, not 0313. The library does not call it.
* The loop of `write()` ends with any `NETWORK_ACK` (945): one that answers an earlier
  message whose wait had timed out makes a later `write()` return true, though its
  message was lost. h:538 says `write()` returns whether the message was received.
  `DeceivedByLateAnswer` says exactly what remains of that, and its theorem proves it.
  The same happens between the fragments of one message (`TrueMeansDelivered`,
  `deceived`); the order tests of `enqueue()` keep the message from being assembled
  wrong.
* A full `frame_queue` of a microcontroller drops a message, or one it has just assembled
  (501, 502, 547 to 551), after the radio has acknowledged the frame, and the router makes
  the `NETWORK_ACK` from the radio's acknowledgement (913 to 929). `write()` returns true
  then, over one hop or several, and h:538 is wrong again. `MessageDelivery` (`spoilt`)
  and `TrueMeansDelivered` (`FoundNoRoom`) except these messages; `AnswersBacked` and
  `DirectSuccessReached` speak of a message that was accepted by the radio.
* `read()` on a microcontroller moves `sizeof(frame_queue) - bufsize` bytes from behind the
  header, and padding, of the message it returns (674), and so reads the 10 to 13 bytes
  behind `frame_queue`. What they hold comes to the end of the buffer, behind every message.
* A sender that restarts within a message uses its id again; Linux takes the new first
  fragment for a duplicate and appends the rest to the old beginning (352). The abstract
  `stale` of `MessageDelivery` allows that. Without a restart the same happens when the
  16 bits of the id have come round and no other first fragment has come in between
  (unfragmented messages count ids too, but leave the cache alone): the hypothesis of
  `DeliversAsPromised` excludes it.
* On AVR the test for an assembled message subtracts in unsigned 16 bits (489) and wraps
  if the queue holds more than `MAX_PAYLOAD_SIZE` bytes, which whole frames may by up to
  10: the message is copied over the end of `frame_queue`. `WithinBuffer` says that it
  is the only case.
* A node of level 0 relays a multicast to level 0 again (234), so
  `RelayReachesNextLevel` starts at level 1 and `MulticastCopies` allows the other nodes of
  level 0 one copy more. Two of them (`multicastLevel(0)`) send it
  to and fro for ever; `MeshAssumption` excludes that.
* The relay hands a multicast back to its sender if that listens to the level it went
  to, and `enqueue()` takes it.
* Frames written to a physical address are heard by the whole level, and every other
  node of it routes its copy (242). A frame to a node's own address is heard by nobody.
* `update()` of a contact returns the type of an ADDR_RESPONSE or REQ_ADDRESS it has
  passed on (172, 185, 192), as if it were for the application.
* While the master waits for the answer to one response, its loop throws away the
  request of another joiner (945). RF24Mesh has to ask again.
* `USER_TX_TO_LOGICAL_ADDRESS` is in the test before the wait (935), but the next hop of
  such a write always is the node it was given: it never waits, though h:202 says
  "network ACK". No property is about that.
* `sleepNode(0, pin)` returns at once, though h:679 says it sleeps "for the designated
  time period"; more than 255 cycles are truncated (1289).
* A tick that takes the counter to 0 between the test and `sleep_mode()`, or below 0
  before the test, adds a full round of 256 cycles (`SleepsAsAsked`).
* With an edge as `INTERRUPT_MODE` a wake-up between the test and `sleep_mode()` is
  lost, and the node sleeps up to 256 cycles more (`NoSleepAfterWakeUp`). The default
  LOW is safe.
* Without a pin (255) `sleepNode()` returns what an earlier call has left in
  `wasInterrupted` (1319), against h:693.
* `Network_Ping_Sleep` leaves a message of type 'S' in the queue
  (Network_Ping_Sleep.ino:146), and the loop over `available()` never ends.
* After waking up `Network_Ping_Sleep` does not listen until it has pinged
  (Network_Ping_Sleep.ino:166).
* A message with the id 0 is dropped on Linux after its fragments were acknowledged
  (297).
* With `FLAG_FAST_FRAG` a fragment that is lost in the TX FIFO is not repeated and
  `write()` may return true (1034).
* On a microcontroller the size test comes before the order test (455 to 462): if
  `MAX_PAYLOAD_SIZE` is no multiple of the frame's payload, a repeated fragment can end
  the assembly of a message that just fits. `mcu_transfer` has a multiple.
* On a microcontroller `read()` returns the size of the message also if `maxlen` made it
  copy less (678).
* h:117 says that the last fragment gets no `NETWORK_ACK`; types 65 to 191 do (887).

## 6. The proofs

Routing: `RoutingProofs` proves, for every tree of addresses,
every set of flows and faults and every value of the bounds:

| Theorem | |
|---|---|
| `TypeCorrect` | `Spec => []TypeOK` |
| `CopiesUnique` | `Spec => []UniqueCopy` |
| `AcksGenuine` | `Spec => []AckImpliesReached` |
| `SuccessesBacked` | `Spec => []AnswersBacked` |
| `DirectSuccesses` | `Spec => []DirectSuccessReached` |
| `OnlyLateAnswersDeceive` | `Spec => []DeceivedByLateAnswer` |
| `MessagesInOrder` | `Spec => []InOrder` |

The assumptions are `RoutingAssumption`, `NumPipesAssumption` and nothing else. The
argument is one inductive invariant, `IInv`, the conjunction of `TypeOK` and

* `FramesInv`: a frame in a FIFO is the message that was sent, or the `NETWORK_ACK`
  of one that was reached; and once some `write()` has taken an answer, what is left
  of that message is its data at the destination (which makes the answers of different
  writes different);
* `PairsInv`: two frames of one message are its data, arrived, and its
  `NETWORK_ACK`. `UniqueCopy` alone is not inductive: a router that makes a `NETWORK_ACK`
  needs to know that no other exists, hence that its own frame was the only one;
* `WaitInv`: a node waits for the last message it has written;
* `HistoryInv`: serial numbers beyond `Len(sent)` have left no trace;
* `AnswersBacked` and `DirectSuccessReached`, which join as they are.

Nothing in it depends on what `NextHop` computes: a frame may take any route.
Every action is one step of the proof; `Route`, the only action that takes a
frame, sends one and may send a second, is reduced to lemmas about `write_to_pipe`:
each of its results leaves the FIFOs as they were or appends one frame to one.

`OnlyLateAnswersDeceive` needs more, `JInv`: `IInv` and

* `PathsInv`: a message whose first hop is its destination is nowhere but there, and
  a `NETWORK_ACK` is one of a message whose sender waits. A router that answers holds
  a frame that is not for it, hence one with more than one hop;
* `ChainInv`: behind a `write()` that waited and was not ended by its own answer
  there is an earlier message of the node that arrived and whose `write()` did not
  return true. When a `write()` takes the answer of an earlier one, that one had
  not returned true, or it took another's answer itself and has a message behind it
  by `ChainInv`. That message keeps its outcome: it is before the last
  one its node has written, which is the one the node waits for (`WaitInv`).

`MessagesInOrder` is about the way of the messages from one node to another, on which
every hop follows from the last by `NextHop` (`IsWay`). `InLine` says that each message
has a place on that way, the FIFO it is in being the one there, and that an older one is
further on or before it in the same FIFO (`Follows`). A message is appended at the
next place, where all those in front of it are older; one that is lost leaves a gap and
disturbs nothing. That the way is simple is not needed: the place is counted, not the
node. `Got` carries the order on into the queue and the application. Had `NextHop` a
choice between ways, the theorem would be false.

Addresses: `AddressingProofs` proves, for every set of nodes of the tree, of all its
addresses, any number of pipes that `NumPipesAssumption` allows and any radios:

| Theorem | |
|---|---|
| `StaysOnPath` | `WalkSpec => []DataOnTreePath` |
| `AckOnSamePath` | `WalkSpec => []AckOnTreePath` |
| `AcksAwaited` | `WalkSpec => []AckOnlyForWaiter` |
| `UnicastHeard` | `Spec => []UnicastReachesNextHop` |
| `MulticastHeard` | `Spec => []MulticastReachesLevel` |
| `RelayHeard` | `Spec => []RelayReachesNextLevel` |

A node of the tree is given by how many octal digits it has and which (`SameDigits`), and
the masks of `setup_address()` cut off digits (`MasksAre`). So the next hop has one digit
more, the destination's, or one less (`HopOf`), and each hop changes `Dist` by one
(`HopOnPath`). The inductive invariant of the walk, `WalkInv`, joins to the two invariants
about paths that there is a `NETWORK_ACK` only if the nodes are two hops or more apart
(`FarEnough`): the router that makes one has been reached by a hop and has one to go.
`NodesAssumption` says that `NoNode` is no address.

For the radios the invariant is `RadioInv`: a radio has no open pipe (`Shut`), or only
pipe 0 for the level that was chosen before its node is begun (`Waiting(r, l)`), or the
cached masks, the level and all pipes of one address and one level (`Running(r, l)`).
That `begin()` may store an address without the rest does not disturb it, since a radio is
invalid only before it was ever opened. Who hears what is then a matter of bytes: those
of different addresses or pipes differ (`BytesDiffer`, `OwnPipesDiffer`), those of the
groups of levels differ from each other and from every pipe of a node (`GroupsDiffer`,
`GroupNotOwn`), also where a pipe has one byte of its own and shares the others with
pipe 1 (`SharedBytes`).

Sleep: `NodeProofs` proves, for a counter of any width of at least two values, any
number of cycles and any set of the two modes (`SleepAssumption`):

| Theorem | |
|---|---|
| `TypeCorrect` | `SleepSpec => []TypeOK` |
| `InterruptsReported` | `SleepSpec => []InterruptReported` |
| `CyclesSlept` | `SleepSpec => []SleepsAsAsked` |
| `WokenForGood` | `SleepSpec => []NoSleepAfterWakeUp` |

The inductive invariant says where an interrupt can find the program. `AttachedInCall`:
`wakeUp()` is attached only within a call, after the flag was reset, so that the flag
tells of this call (`FlagOfThisCall`). `Counted`: while the loop lasts and no pin
interrupts, ticks slept and counter add up to the argument, plus one round of the
counter after a race. One race at most: `RacedOnce` says that after it a tick can come
only while the node is asleep, and that the counter reaches 0 only by the tick that ends
the last sleep. `WokenAttached` and `WokenCounter`: after `wakeUp()` the pin keeps
asking in the mode LOW, and without a race the counter is 0 and the program before its
test, so that it does not sleep again. The properties alone are not inductive, as they
speak of the return only.

The frame queue: `NodeProofs` proves, for both builds and any sizes of messages,
with `MAX_PAYLOAD_SIZE` from 24 to 6120, the 255 fragments of 24 bytes that
`fragment_id` can count:

| Theorem | |
|---|---|
| `MessagesStayInside` | `Spec => []WithinBuffer` |
| `NoMessageLost` | `Spec => []NothingLost` |
| `AvailableTellsOfMessage` | `Spec => []AvailableMeansMessage` |
| `ReadInOrder` | `Spec => FirstInFirstOut` |

The inductive invariant says how the messages lie: there is one for each serial number not
yet read (`Serials`), each directly behind the one before it (`Behind`), the first at the
start of the buffer and the end of the last at `next_frame` (`Ends`). It holds because
`enqueue()` and `read()` come to the same length of a message with its padding (`Block`),
though they compute it differently. The bound on `MAX_PAYLOAD_SIZE` keeps the sums of
`enqueue()` from wrapping in 16 bits other than by the subtraction of section 5.

The ping examples: `NodeProofs` proves, for any finite set of addresses below 65536, any
table that has an entry for each, any losses and restarts:

| Theorem | |
|---|---|
| `ListsOfNodes` | `PingSpec => []ListsAreNodes` |
| `IndexStaysInTable` | `PingSpec => []IndexInTable` |

A table only ever holds nodes that have pinged the master, and `pinged` does not forget:
that is the invariant for the tables (`TablesOK`) and for the lists on their way
(`MailOK`). A list copied from the master adds its nodes one after the other; the recursive
function that does this is shown to exist and to keep the invariant by induction on the
position. The library's induction theorems cannot be used for that (their parameter is an
operator); `SetInduction` is first-order, with the set of the positions at which the claim
holds as its parameter, and is proved from the fact that a finite set has no bijection to a
proper part of itself. The index stays in the table because the list has fewer entries
than there are addresses: the master is in none.

Mesh: `MeshProofs` proves, for every set of nodes, levels, relays and operations, any depth
of the FIFOs, with losses and without:

| Theorem | |
|---|---|
| `TypeCorrect` | `Spec => []TypeOK` |
| `AnswersFromTheLevel` | `Spec => []OnlyPolledAnswer` |
| `RequestsAnswered` | `Connected(C) => (Spec => []RequestAnswered)` |

The first two follow from what a frame of an operation can be at each node (`AllFit`): a
poll comes to nodes of its level only, since no two levels share an address on the air
(`LevelHearers`, from the digits of the five bytes), and an answer is from such a
node. The third needs that a request without an answer is alive (`AllAlive`): a copy of it
or of its response is where it will be passed on, or in `event` of the master.
`Connected(C)` is what that takes of the network: the hop from a node of C to another is
in C, and the nodes asked are in C and hear their own address. Without it a request can
end at a node with no way to the master. `MCMesh` states it of its own network in an
`ASSUME`, so that TLC has evaluated it.

Fragments over one hop: `LinuxTransferProofs` proves, for any number of senders, any
lengths, frame sizes and bounds, and any width of the ids, and `McuTransferProofs` for
one sender and the same otherwise:

| Theorem | |
|---|---|
| `HeadersKeptApart` (Linux) | `Spec => []OneHeader` |
| `DeliversAsPromised` (Linux) | `MaxMsgs <= IdSpace => (Spec => Abstract!Safety)` |
| `McuDeliversAsPromised` | `OneSender /\ Divides /\ MaxMsgs <= IdSpace => (Spec => Abstract!Safety)` |

For the first, the inductive invariant `HeaderInv` says that all bytes of a cached frame are of messages
with its id and from the sender whose entry it is, and the same of what was delivered. It
holds although messages with the same id are mixed up after a restart or once ids have
come round. The lemmas before it are the arithmetic of fragments: a message of `len`
bytes has the parts `At(q)` to `End(m, q)` and they join to the whole.

The others say that the receiver implements `MessageDelivery`, all but its fairness:
only whole messages, each while it is being written and no more often than `write()` was
called for it; a `write()` that returned true delivered it, or the history says what
spoilt it; no more mixtures than restarts. The argument is the same for both builds and is in
`FragmentsProofs`; it speaks of an assembled frame c, which is the sender's cache entry or
`frag_queue` (`View`, nothing if `reserved` is 0). The invariant, `DeliveryInv`, has three
parts for each sender. `EpochInv`: its messages since the present one, and since any
assembled one, are numbered without repetition (`Numbered`), which is where
`MaxMsgs <= IdSpace` comes in:
with fewer ids than messages TLC finds two messages with one id joined without a restart
(section 5). `EntryInv`: what is assembled is of the present message and is exactly its
first fragments (`Beginning`), or is of an older one whose id the present message does not
have, unless `Stale` is positive. `CallInv`: a message was delivered in fewer calls than
there were, or has left the buffer (`Free`), and what `main_write()` takes for received is
delivered, spoilt or in the buffer (`Backed`). A receiver only has to show, by cases of its
`enqueue()` (`Receive`), that it does with each frame what `Handled` says (`Delivers`,
`Mixes`, `Spoils` or `Leaves`, and what is then in the buffer); `ProgressMaps` shows that
this is a step of `MessageDelivery`.

The two hypotheses of the theorem on microcontrollers are two differences of the builds.
`OneSender`: `frag_queue` is one for all senders and is matched by the id alone, and with
two senders TLC finds messages that were mixed (`mcu_two_senders`, section 5).
`Divides`, that `MAX_PAYLOAD_SIZE` is a multiple of the frame's payload: the size test comes before
the order test, so where a repeated fragment of a message that just fits does not fit
behind it, it ends the assembly, and `write()` returns true for a message that is lost
(TLC finds it with a buffer of 5 bytes and frames of 2). The defaults of 144 and of 72
(ATTiny) are multiples of 24; the 1514 of fast microcontrollers (RF24Network_config.h) is
not, and the theorem does not speak of them. What the proof has to add is that a buffer
which holds a beginning has room for any frame of that message (`BeginningFits`).

Fragments over two hops: `RoutedTransferProofs` proves, for either build of the
destination, any lengths, frame and message sizes, any depth of the FIFOs, any bounds and
any width of the ids:

| Theorem | |
|---|---|
| `TypeCorrect` | `Spec => []TypeOK` |
| `WholeMessages` | `MaxMsgs <= IdSpace => (Spec => []Integrity)` |
| `OneCopyPerCall` | `MaxMsgs <= IdSpace => (Spec => []OncePerWrite)` |
| `TrueIsDelivered` | `MaxMsgs < IdSpace => (Spec => [](Divides => TrueMeansDelivered))` |

The hypotheses are needed, and TLC has shown it: with ids that come round (`IdSpace` = 1) a
late fragment completes another message; the id 0, which comes with as many messages as
ids, is dropped by Linux (section 5); and `Divides` says of a microcontroller that
`MAX_PAYLOAD_SIZE` is a multiple of the frame's payload, as 144 is, without which a repeated
fragment ends an assembly (section 5). The inductive invariant, `RouteInv`, treats the two builds as one. `Assembly` is
the cache entry or `frag_queue`, and `AsmInv` says that it is `Clear` or holds the
beginning of one message (`Held(m, i)`: the first i frames); `LinuxReceives` and
`McuReceives` show by cases of the two `enqueue()` that a frame which comes can only do what
`Received` lists: deliver a whole message, begin one, carry on what is held by
exactly the next frame, complete it, clear the buffer, or nothing. `Integrity` follows. For
`OncePerWrite` the order of the frames on their way matters: `Ordered` (by message, call and
position; only fragments are sent twice in a call) and `PresentInv` (none is ahead of
`main_write()`). `May(m, c, p)` says that a frame of message m from call c at byte p can
complete a copy without there being too many: there are fewer than c, or the frame is not a
first one and nothing of the message is held that it could go on with. It holds of every
frame at the router and of the next one to be sent, and `StillMay` shows that an earlier
frame leaves it true of the later ones: what completes a copy clears the buffer, and to begin
again takes a first frame.

`TrueIsDelivered` needs to know what an answer tells: `Got(m, c, j)`, that the destination
holds more than frame j of message m or has the whole of it, and that no frame which comes
before the one behind j in call c is on its way. The last part makes it last (`GotArrives`):
only a repeated frame of the same call from j on can still come, and `enqueue()` refuses
that or goes on. While no wait of the present message was deceived, the frame before
`main_write()`'s is got (`GotSoFar`), and so is every frame of the present call that an
answer on its way is for (`AnswersTrue`). `GotNow` shows the one by the other: a frame which
is refused because it is not the next one was received before. Where a microcontroller
threw the message away in this call (`NoRoom`, `ThrownAway`) there is nothing to show: that
is remembered (`ThrownStays`) until `write()` is called for it again. Messages and calls
are numbered, so that no old answer speaks of a call that begins (`AnswersKnown`).

Model-checked only:

* liveness (`ComesToRest`, `Arrives`, `ArrivesAndAnswers`, `Returns`, `AllKnown`, the
  fairness of `MessageDelivery`): liveness under fairness and `ENABLED` are out of the
  prover's reach;
* of `Implements`, for either build, that `write()` ends; its safety part is
  `DeliversAsPromised` and `McuDeliversAsPromised`;
* `MulticastCopies` of `Mesh`: the number of ways of the relays is counted by recursion
  over the levels, for which the invariant would have to count copies on their way.

## 7. Not modelled

* RF24Mesh itself, another repository: what it sends and how it answers is `Start` and
  `Respond` of `Mesh`; a joiner never takes its new address there.
* The wrap-around of `millis()` (138, 789): time is a choice in the models, a loop with
  a time limit may end at any of its tests, so that what a wrap changes, the length of a
  wait, is not in them. For the same reason `NETWORK_OVERRUN` is not, nor
  `NETWORK_CORRUPTION`, which ends one `update()` and leaves the rest of the FIFO to the
  next.
* The radio's mode switches: `stopListening`, `startListening`, `setAutoAck`,
  `txStandBy`.
* The branch of `enqueue()` for messages a Linux node sends to itself (271 to 280).
* The radio's own behaviour beyond delivered, lost and unheard: collisions, channels,
  power, the failure detection of `update()` (122 to 127, 140 to 150).
* Statistics (`nOK`, `nFails`), debug output, `toString`: nothing reads them.
* `nrf_to_nrf`'s encryption (smaller frames, a constant here), the Python wrapper, the
  other examples, build files. The serial commands of the ping examples.
