# Formal models of arc-protocol

TLA+ models of the ARC network library (C sources in `src/src/`, Python in
`src/python/arc_protocol/`), the TLC configurations that check them on small
instances, and TLAPS proofs for every instance.

## 1. The system

arc-protocol is a pure library: the embedder owns the links, the clock and the
threads, and calls the library from one thread per node.

| Component | State | Operations | Interacts with |
|---|---|---|---|
| reliable endpoint, C (`arc_reliable.c/.h`) | `pending[]` (unacknowledged frames with deadline and retry count), `seen[]` with `seen_next_idx` (keys of received frames), `sources[]` (last session of each peer), `next_seq` | `init`, `send`, `receive`, `tick`, `pending_count` | emits frames through `send_fn` (usually the router), hands frames to `deliver_fn`, reports exhausted retries to `fail_fn` |
| static router, C (`arc_router.c/.h`) | `links[]`, `routes[]`, `default_link_idx` | `init`, `add_link`, `add_route`, `set_default`, `route` | a local frame goes to `local_fn` (usually `arc_reliable_receive`), another to the `send_fn` of a link |
| framing (`arc_protocol.c/.h`, `protocol.py`) | none (pure functions) | CRC-16, COBS encode and decode, frame build and parse, `build_ack`, `set_flag` | between links and router |
| reliable endpoint, Python (`reliable.py`) | dictionary of pending frames, set of seen keys, dictionary of sessions | as in C, without limits | as in C |
| router, Python (`router.py`) | routes, links, default | `route`; `controller_routes`, `sender_routes` describe the deployed topology | as in C |
| message codecs (`arc_messages_*.c/.h`, `messages*.py`) | none | encode and decode one payload type each | application |
| generator (`tools/generate_messages.py`, `schema/messages.json`), vectors (`examples/gen_vectors.c`) | none | build-time | - |

How they interact: the application calls `arc_reliable_send`; the endpoint hands
frames to `send_fn`, which a node wires to `arc_router_route`; the router hands
frames for the node to `local_fn` (`arc_reliable_receive`) and all others to a
link, which builds, COBS-encodes and writes them. Everything runs in the calls of
the embedder, so concurrency is of two kinds: nodes against each other over the
network, and within a node the callbacks that call the library again before the
call they run in has returned.

What is hard in this code, with the lines in `PROJECT.json` under `hazards`:

* the network loses, duplicates, delays and reorders frames; retries, late
  ACKs and given-up frames race each other over a small table of slots;
* nodes restart and lose all tables; peers notice a restart only through the
  `session` byte, and late frames of an earlier session look like one more
  restart;
* three fixed tables meet their limits; `seen[]` mixes two allocation rules
  (first free slot, and an eviction index);
* a 32-bit millisecond clock and a 16-bit SEQ wrap;
* callbacks run in the middle of table scans and may call back; frames point
  into the slots of the table;
* in Python, callbacks raise and leave a call half done;
* frames have no hop count, so route tables can form a loop;
* COBS has a special case at its longest run; a frame is changed in place;
* messages are decoded in place and may be refused after half of the struct was
  overwritten.

What makes each component correct:

* *sending side*: each accepted reliable send occupies one slot until exactly
  one outcome, is sent again when and only when its timeout elapsed, at most
  `max_retries` times, and always reaches an outcome;
* *receiving side*: every reliable frame for the node is acknowledged, and it
  is delivered once while it is in the window of the last
  `ARC_RELIABLE_SEEN_MAX` frames; tables have no duplicate or stale entries;
* *both ends together*: acknowledged implies delivered, delivered at most once
  by each incarnation of the receiver, also between C and Python;
* *node*: a scan that resumes after a callback works on the slots it means;
* *router*: a map from destinations to registered links with a fallback;
  *topology*: every frame reaches its node or is refused for a reason;
* *framing*: what is parsed is what was built, or the damage is noticed, within
  the sizes of the header;
* *messages*: decoding and encoding are inverse, whatever the struct held
  before.

## 2. Modules

| Module | Models | Built on |
|---|---|---|
| `Tables` | fixed tables of slots with an `in_use` flag: free and used slots, first slot of a scan | - |
| `ArcReliable` | the structs and functions of `arc_reliable.c/.h` as operators on an endpoint record | `Tables` |
| `ReliableEndpoint` | one endpoint, any inbound frames, a wrapping clock | `ArcReliable` |
| `ReliableService` | abstract: what applications are promised | - |
| `ReliableNetwork` | several C endpoints, a faulty network, restarts | `ArcReliable` |
| `PyReliable` | `reliable.py` as operators on an endpoint record | - |
| `PyEndpoint` | one Python endpoint, callbacks that raise | `PyReliable` |
| `MixedNetwork` | C and Python endpoints on one network; implements `ReliableService` | `ReliableNetwork`, `PyReliable` |
| `ArcRouter` | the router in C | `Tables` |
| `RouteMap` | abstract: a finite map with a fallback; `ArcRouter` implements it | - |
| `ArcNode` | C router and endpoint wired together, re-entrant callbacks | `ArcReliable`, `ArcRouter` |
| `ArcTopology` | `router.py` and its tables on the deployed network | - |
| `ArcCobs`, `CobsCoder` | COBS as operators; one turn of its loops per step | - |
| `ArcFrame`, `ArcLink` | CRC and frames as operators; a frame across two links | `ArcCobs` |
| `ArcWire` | integers on the wire | - |
| `FixedMessages`, `ReportMessages` | the codecs of fixed and of variable size as operators | `ArcWire` |
| `ArcMessages` | a struct that payloads are decoded into and that is encoded | both |
| `MC...` | sets of frames, calls, inputs and payloads for TLC | - |
| `TableLemmas`, `ArcReliableLemmas` | lemmas | `Tables`, `ArcReliable` |
| `ReliableEndpointProofs`, `ReliableNetworkProofs`, `ArcNodeProofs`, `PyEndpointProofs`, `ArcRouterProofs`, `CobsCoderProofs` | theorems | the modules they are about |

Operators with a suffix (`take_seq_NoWrap`, `Expired_Strict`, ...) are faulty
variants, each listed in `PROJECT.json` under `mutants` with the property that
rejects it. They are not part of the model.

### ArcReliable

A function of the C code that changes `*r` is an operator that returns the new
record, with the same name where there is one function for it. A table is a
function from slot numbers to an entry or `Free`; `in_use = false` is `Free`,
because no code reads the other fields of a free slot (but see the payloads of
`ArcNode`). Every C loop that stops at the first match is `FirstSlot` of the set
of matches. Widths are kept: `next_seq` wraps at `SEQ_VALUES = BYTE * BYTE`, the
clock at `CLOCK = 2 * HALF_CLOCK`, and the signed test of `tick` is the test that
the wrapped difference lies in the lower half. The ACK payload is really split
into two bytes and put together again.

Abstractions: `flags`, `family` and `type` are two Booleans (`reliable`, and
`ack` for the three-way test of `is_ack_frame`); a payload is the identity of
the `send` call it came from.

### ReliableEndpoint

| Action | Code |
|---|---|
| `SendRejected` | `arc_reliable_send` returning at the argument checks |
| `SendUnreliable` | `send` with `reliable = false`: takes a SEQ, nothing else |
| `SendBufferFull` | `send` returning `ARC_ERR_BUFFER` after the SEQ was taken |
| `SendReliable` | `send` that parks its frame in the first free slot |
| `ReceivePlain` | `receive` of a frame for another node, or an unreliable one |
| `ReceiveData` | `receive` of a reliable frame: session check, dedup, ACK, `seen_add` |
| `ReceiveAnAck` | `receive` of an ACK, well formed or not |
| `Tick` | one complete `arc_reliable_tick` over all slots |
| `AdvanceClock` | a millisecond passes in the embedder |

Callbacks return without calling the endpoint again; `ArcNode` lifts that.
Frames arrive in any order, any number of times, from peers about which nothing
is assumed. `status`, `tx`, `age`, `recent`, `restarts` are history variables. `idle` bounds
the time between ticks by `TICK_PERIOD`, the one assumption about the embedder
("Call periodically", `arc_reliable.h:150`); it has to be below half the range
of the clock, and so does `timeout_ms`, or a frame that is overdue looks early
to the signed comparison (the half range is 24 days in the code).

`restarts` holds the tracked peers that ever came with a new session. Until there
is one, a frame of the window is not delivered twice (`WindowHolds`); after it,
`seen_drop_source` has left holes in `seen[]` and the window can be shorter (run
`endpoint_fifo`).

### ReliableNetwork, MixedNetwork, ReliableService

`net` only grows: receiving a frame leaves it there (duplication, delay,
reordering), never receiving it is loss. `Reboot` calls `arc_reliable_init`
with a session different from the last one; `CrashInReceive` does so after the
ACK left and before `deliver_fn`. `Tick` and `SendReliable` get an arbitrary
clock value, so that any parked frame may be due or not. A send with
`reliable = false` may still carry `ARC_FLAG_RELIABLE` in the caller's `flags`
(`arc_reliable.c:66` only ever adds the flag, and so does `reliable.py:69`), which
the peer then honours.
Receiving an unreliable frame changes no endpoint and is left out. `MaxDraws` and
`MaxReboots` bound a behaviour.

In `MixedNetwork` some nodes run the Python endpoint, whose `ReceiveData`,
`ReceiveAnAck`, `send` and `tick` act on the same `net`; each side reads the SEQs,
sessions and ACK bytes the other side wrote. `ReliableService` is what
applications can rely on: a call is delivered at most once by each incarnation of
its receiver, and confirmed only after a delivery or a restart of the receiver.

### ArcRouter, RouteMap

One action per function. Callers may pass any
`link_idx` from -1 to one past the end, and register links without a `send_fn`.
`out` names the call with its arguments, so the abstract map has to give the
same answer to the same call. The mapping to `RouteMap` forgets slots; `RouteMap`
says that a lookup returns the last binding, that a refusal changes nothing, and
that a table is full only with as many entries as it has slots.

### ArcNode

The functions of the endpoint and `arc_router_route` are cut where they call
back, and `stack` holds the calls in progress. Between two steps of `tick` or
`receive` the application may send from `deliver_fn` or `fail_fn`, a frame to the
node itself goes through `receive` inside its own `send`, its ACK through
`receive` inside that, and a link that polls its input (`PollingLinks`) hands in
frames while it sends. As on the network, an unreliable `send` may carry the
flag. `buf` is what `payload[]` of each slot holds even when the
slot is free, and `at` tells which slot a frame points into.

Assumed of the embedder: `tick` is called from the main loop only; a link that
polls does not hand in again a frame whose reception is in progress (it would be
delivered twice, because the key is stored after the ACK is sent), and has
copied the frame it is sending before it polls.

`FramesKeepTheirPayload` covers the library's own use of a frame and not that of
the application's callbacks, which both get frames in slots that may be free:

* `deliver_fn` of a frame the node sent to itself, whose slot the frame's own ACK
  freed; a reliable `send` from this `deliver_fn` may overwrite the payload while
  the caller, who was told that it is valid "for the duration of the call"
  (`arc_reliable.h:45-46`), still has the frame;
* `fail_fn`, which is called after its slot was freed (`arc_reliable.c:156`); a
  reliable `send` from it may overwrite the payload of the failed frame. The header
  says nothing of how long that frame is valid.

The property with `"deliver_fn"` or `"fail_fn"` among the calls it lists is violated
in the instance of `node`; embedders should copy the payload before they send.

### ArcTopology

`routes` and `default_route` are the tables of `controller_routes` and
`sender_routes` for every pairing of Senders with flight computers; any one link
may be unregistered. One frame starts anywhere. A frame may be refused only where
its own link is missing, or by the Controller when no table names the destination
(`RefusedWithReason`). The flight computers and the
ground station are external: leaves that pass a frame to the node they are wired
to. Two configurations are excepted in `EveryFrameLeaves`, because frames in them
really circulate or stay: `Unpaired` (the Controller's table sends FC_C and FC_L to
fixed Senders, whose default returns the frame when they are not paired with it)
and `Unwired` (a leaf that no Sender is paired with).

### ArcCobs, CobsCoder, ArcFrame, ArcLink

Bytes are smaller (`BYTE` values), and everything the code derives from 256
follows: the longest run `MAX_CODE` (0xFF), the sizes of buffers, frames and
payloads, the SEQ of two bytes. The header's chain of sizes is kept, so that the
longest frame is shorter than the longest run by the same margin as in the code.
`CobsCoder` takes one step per turn of the loops; its encoder gets a buffer of
the documented size or one byte less, its decoder bytes from the encoder or any
bytes. `ArcLink` takes a frame through `arc_frame_build`, a radio link that changes
a byte, `arc_frame_set_flag` at a forwarder, COBS, `arc_frame_parse` and
`arc_frame_build_ack`. The CRC is the shift register of the code over two smaller
bytes, with a polynomial of that width.

### ArcWire, FixedMessages, ReportMessages, ArcMessages

A message of fixed size is the list of its fields with their types, each with the
index the encoder writes it at and the index the decoder reads it from, which the
C code spells out separately, and the size its header defines; `fixed_encode` and
`fixed_decode` are the pattern all of them follow. The five messages with counts
or strings have operators of their own, with the early returns of the code and
what they leave in the struct; the size an encoder needs is computed apart from
what it writes, as in the code. `ArcMessages` decodes payloads one after the other
into one struct, and encodes it at some time. The struct is zeroed or holds
whatever was in memory (`zeroed`); one that was not zeroed is encoded only after a
decode filled it.

Two exceptions are named in the properties: `ReservedState` (SET_OUTPUT checks
the state when it encodes, `arc_messages_power.c:13`, and not when it decodes)
and `CutByNul` (INFO_REPORT is decoded by its length and encoded up to the first
NUL).

### PyReliable, PyEndpoint

`_pending` is a sequence (a dict keeps insertion order), `_seen` a set,
`_source_sessions` a function. An entry has the time until it is `due` in place
of a deadline. A tick is one step per key of the list it made at its start;
callbacks may raise, which ends the tick, and time may pass and calls may be made
while a callback runs. `receive` is atomic: the `send_frame` of an ACK makes no
call, and `tick` is not called from a callback.

## 3. Runs

| Run | Instance | Shows |
|---|---|---|
| `endpoint` | sending: 2 slots, 3 calls, clock of 6 values, timeout 1, 1 retry, ticks at most 2 ms apart, every ACK payload, with fairness | `ParkedInOneSlot`, `DueWhenExpired`, `RetriedInTime`, `FailedAfterAllRetries`, `OutcomeIsFinal`, `EverySendSettles`, `TypeOK` |
| | receiving: `seen[]` of 3, `sources[]` of 2, three peers, one with changing sessions | `TablesHaveNoDuplicates`, `TrackedSessions`, `WindowHolds` |
| `network` | 2 C nodes, 1 Python node, calls C to C, C to Python and Python to C, a receiver that restarts, a receiver that can track one of its two peers | `ImplementsService`, `AckedUnlessCrashed`, `OncePerIncarnation`, `MTypeOK` |
| `node` | 2 slots, 4 calls (to the node, to a peer, to nowhere), 2 arrivals, a polling link | `SlotsKeepTheirFrames`, `NewFramesWait`, `LoopbackSettles`, `FramesKeepTheirPayload` |
| `router_tables` | 2 links, 2 route slots, 4 destinations | `OneRoutePerDst`, `NoDanglingLink`, `ImplementsRouteMap`, `RTypeOK` |
| `py_endpoint` | 2 calls, ACKs, two peers, one with a changing session, with fairness | `PendingMatchesCalls`, `OutcomeIsFinal`, `EverySendSettles`, `AckedIsDelivered`, `DeliveredOnce` |
| `topology` | all 256 pairings, any missing link, all starts and destinations, with fairness | `EveryFrameLeaves`, `RefusedWithReason` |
| `cobs_coder` | bytes of 8 values; inputs up to 9 bytes; as chunks, what the encoder wrote, all strings of up to 5 bytes and those of up to 9 bytes of 0, 1 and `MAX_CODE` | `EncodedFits`, `DelimiterIsOnlyZero`, `RoundTrip`, `DecodedFits` |
| `link` | bytes of 32 values; frames from empty to one byte too long, every one-byte damage | `CleanFrameArrives`, `DamageIsDetected`, `AckFindsItsWayBack` |
| `messages` | bytes of 16 values; all 22 messages, up to two payloads into one struct, zeroed or not; arrays of up to 2 entries | `PayloadComesBack`, `MessageComesBack`, `StaysEncodable`, `WritesWithinCapacity` |

Three runs show where the code does less than its documentation says; the quotes
are in `PROJECT.json` under `findings`:

| Run | Counterexample |
|---|---|
| `endpoint_fifo` | two peers fill `seen[]`, one restarts, the slot of its key is freed and takes its new key; the next eviction takes the key at `seen_next_idx`, which is this newest key of the restarted peer, while the older key of the other peer stays |
| `network_stale_ack` | the sender restarts with the same `first_seq`; a late ACK of its earlier session frees the slot of a new frame that was never delivered |
| `cobs_overhead` | an input that is one longest run (254 bytes in the code) takes `len + 3` bytes, where the header and the encoder's check have `len + 2` |

**Limits of the code** that the bounds and exceptions above stay within, each
visible by changing a constant or dropping an exception:

* a sender in `CanReboot` (`network`): a late frame of its earlier session looks
  like another session change, empties the peer's keys and is delivered again;
* `MaxDraws` beyond `SEQ_VALUES`: a SEQ wraps while its old key is still known,
  and a new frame is acknowledged as a duplicate and not delivered. In C, 16
  newer frames push the key out; in Python it stays for the whole session;
* COBS inputs longer than the longest frame: `EncodedFits` without its bound is
  `AnyInputFits`, which `cobs_overhead` refutes;
* a Sender that is not paired with the flight computer the Controller reaches
  through it (`EveryFrameLeaves` without `Unpaired`): the two pass a frame for it
  to each other for ever;
* `arc_frame_set_flag` recomputes the CRC of a frame that was damaged before
  (`DamageIsDetected` without `restamped`);
* SET_OUTPUT with a reserved state is decoded (`ReservedState`).

**Bounds.** A behaviour of `endpoint` uses the sending or the receiving side and
not both (`OneSideSpec`): receiving a data frame reads neither the clock nor
`pending[]`, and sending touches no other table; they share the SEQ counter, which
both wrap, and `network` and the theorems have them together. Its calls do not
send frames that look like ACKs, which only a receiver would tell apart. The clock is long enough for a deadline on either side of a wrap and
for a late tick (`timeout_ms + TICK_PERIOD` reaches half its range). With
`BYTE = 2` a SEQ has four values, so both ACK bytes matter, and `first_seq = 3`
makes the counter wrap at the first send. Three calls for two slots reach the
full table and the reuse of a slot. `MaxDraws` is below the number of SEQ values
in the network, which is the case in which no SEQ is reused. `HALF_CLOCK = 1`
there has a clock of two values: any frame may be due or not. In `node` the clock
does not wrap (`NodeWiring`); two ticks, two arrivals and four calls are enough
for a slot to be freed and reused below a scan and for three calls to be nested.
No run draws a SEQ twice; the theorems about one endpoint do not need that.
COBS inputs reach three bytes past the longest run (6 literals); literals
other than zero are not told apart by the code. The payloads of `messages` have counts from zero to one past the maximum
and names from empty to one past `NAME_CAP`; two decodes are what a leftover of
the first needs to show in the second.

**Symmetry** is not used.

**Deadlock** is checked in the runs of the endpoints, the network and the router:
`Tick` is always possible for an endpoint, time passes, and the router answers
every call. It is not in `node`, `topology`, `cobs_coder`, `link` and `messages`,
which follow one frame, one coding or a bounded number of calls to their end.

**Fairness.** In `ReliableEndpoint` and `PyEndpoint`: time passes
(`AdvanceClock`) and the embedder keeps calling `tick`, as the header asks; in
Python also a tick that has begun goes on (`TickTurn`), with callbacks that return
or raise. In `ArcTopology`: a node that has a frame routes it, since `route` is a
call that returns. Nothing is assumed of ACKs, links or applications.

## 4. Proofs

All theorems hold for every table size, width of SEQ and clock, timer
parameters, set of addresses, sessions and calls, and set of inbound frames
that the named assumptions of the modules allow: `TableSizes`, `Widths`,
`Timers`, `InitArguments`, `Destinations`, `InboundFrames`, `TickPeriod`,
`Population`, `RouterSizes`, `NodeWiring`, `NodeFrames`, `ByteWidth`,
`ByteStrings`, `PyParameters`, `PyArguments`, and that `Free` is no entry of a
table (`FreeIsNoEntry`, `FreeIsNoKey`, `FreeIsNoRoute`, `FreeIsNoSlot`). What a
theorem asks beyond that is a hypothesis in its statement.

`TableLemmas` (`FirstSlot` of a nonempty set of slots is its least element) and
`ArcReliableLemmas` (what each operator of `ArcReliable` does to the tables, for
all addresses, sessions and payloads; and that a counter which took at most
`SEQ_VALUES` values took no value twice) carry the lemmas the others share.

**One endpoint (`ReliableEndpointProofs`).**

* `EndpointTypes`. The bound on `tx` is not inductive alone: it follows from
  the retry counter in the slot, so the invariant is `TypeOK` together with
  `ParkedInOneSlot` (restated as `SlotCalls` for the tables before and after a
  step).
* `OneSlotPerCall`, `FailureMeansAllRetries`, `OutcomesAreFinal` come from the
  same invariant: every slot that `tick` or an ACK touches belongs to a call
  that is `parked`, no two slots to the same call, so the history updates and
  the slot updates meet one to one.
* `NoDuplicateEntries` and `SessionsAreTracked` need the strengthening
  `KeysTracked`: while `sources[]` has a free slot, the source of every key in
  `seen[]` is in `sources[]`. Without it a peer could enter `sources[]` late,
  with keys of another session still in `seen[]`.
* `WindowIsRemembered`. `WindowHolds` speaks of the last deliveries and not of
  where their keys are. `WindowInv` says it (`Ring`): while no peer restarted,
  `seen[]` is filled from slot 0 on and then used as a ring that starts at
  `seen_next_idx`, with the keys of the last deliveries in order.
* `TimersAreExact` and `RetriesAreInTime`. The invariant `TimerInv` ties the
  deadline in a slot to the real time since the last transmission:
  `now_ms - deadline_ms` is `age - timeout_ms` plus -1, 0 or 1 turns of the
  clock, `age` is at most `timeout_ms` plus the time since the last tick, and a
  call not yet made has age 0. With `timeout_ms` and `TICK_PERIOD` below half the
  clock, `age - timeout_ms` lies strictly between minus half and half a turn,
  where the signed comparison is exact; and a tick leaves no frame behind that
  is older than `timeout_ms`.

**Endpoints on a network (`ReliableNetworkProofs`).** Each theorem comes twice:
for C endpoints (`NSpec`), and for any division of the nodes into C and Python
endpoints (`MSpec`, the names with `Mixed`). `NetworkTypes` and
`MixedNetworkTypes` need no hypothesis; the latter (`MTypeOK`) is about the tables
of the C nodes and the dicts, keys and sessions of the Python nodes, and bounds
the retries of every entry of a dict. The others hold for any number of nodes,
calls, copies, retries and restarts of receivers, under

* `SendersStay`, nodes that send do not restart: a restarted sender may match a
  stale ACK with a new frame, which is the finding of `NetworkStaleAck.cfg`;
* `SeqsAreEnough`, no incarnation takes more SEQs than there are: the receiver
  would take a new frame with an old key for a copy;
* for the last two, `SeenIsEnough`, `seen[]` of a C node has room for the calls
  to it: the network of the model may deliver a copy at any later time, also
  after its key was replaced. The general case is `WindowIsRemembered`. Python
  nodes are exempt: their `_seen` is not bounded.

`MixedNetwork.cfg` satisfies all three. The theorems are

* `AcknowledgedIsDelivered`, `MixedAcknowledgedIsDelivered`
  (`AckedUnlessCrashed`), from `DeliveryInv`: a call
  has one data frame on the network, and so has a SEQ of its sender; an ACK names
  a frame that was delivered, or comes from a node that restarted; a key in
  `seen[]` is that of a delivered frame.
* `DeliveredAtMostOnce`, `MixedDeliveredAtMostOnce` (`OncePerIncarnation`),
  from `OnceInv`: what the present incarnation delivered has its key in `seen[]`.
  That keys are not replaced is a
  pigeonhole argument (`RoomForKey`): the keys in `seen[]` are those of different
  calls to the node, so that a slot is free for one more.
* `NetworkImplementsService`, `MixedNetworkImplementsService`
  (`ImplementsService`): every action is a step of
  `ReliableService` or leaves its variables alone. It rests on both invariants:
  a delivery is a step of the service only if the receiver had not delivered
  before, an acknowledgement only if it was delivered or the receiver restarted.

The invariants take the set of C nodes as a parameter (`Nodes` or `CNodes`).
With Python endpoints they are joined by `PyDeliveryInv` and `PyOnceInv`, which say
the same of the dict, `_seen` and `_source_sessions`: an entry of the dict is a
frame under way of a parked call, a key in `_seen` is that of a delivered frame,
what was delivered has its key there and its sender's session noted. A step of a
Python node is one of three kinds (`PySends`, `PyReceives`, `PySettles`), and the
invariants are shown for the kind; `CEffects` is what a step of a C node does to
the frames and histories a Python node relies on. What a whole tick leaves of the
dict is defined by recursion over its entries; the facts about it are shown by
taking the first entry at which they would fail.

**A node with re-entrant callbacks (`ArcNodeProofs`).**
`SlotsChangeHandsCleanly`, `TickLeavesNewFrames` and `PayloadsAreNotOverwritten`
come from one invariant, `NodeInv`, and hold for every depth of nested calls:

* `SlotsInv`: what `SlotsKeepTheirFrames` says, slot by slot, between the calls
  of a nested stack too;
* `DeadlinesInv`: a tick in progress began in the past, and what was parked
  since is due after its `now_ms`. The clock stays below half its range
  (`NodeWiring`: `MaxClock + timeout_ms < HALF_CLOCK`); the wrapping clock is the
  subject of the timer theorems;
* `NestingInv`: where on the stack the calls may be that hold a frame whose
  payload lies in a slot. Nothing that could send, and so reuse the slot, is
  called while they are in progress; from it follows `FramesKeepTheirPayload`.

`LoopbackIsDeliveredOnce` (`LoopbackSettles`: a reliable send to the node's own
address is delivered once, and acknowledged, before the send returns) holds under

* `SeqsAreEnough`, the node does not draw a SEQ twice (at most two for a call, one
  for its frame and one for an ACK, and one for each arrival): with a SEQ whose
  key is still in `seen[]` the node takes its own new frame for a copy, answers,
  and the call is acknowledged without a delivery;
* `NoEcho`, no peer sends under the node's own address: such a frame could leave
  the key of the next own frame in `seen[]`.

`ArcNode.cfg` satisfies both. `LoopInv` says how far a send to oneself has come
(`PhaseInv`): nothing under way (`Quiet`), the frame on its way down and its slot
parked (`Sending`), the ACK on top of it on the stack (`AckComes`), the ACK matched
and the delivery still to come (`Settling`). `SeqsInv` counts the SEQs taken by the
calls, the arrivals and the ACKs under way; with `OwnSlots` and `OwnCalls` it gives
that the key of a frame in hand is not yet in `seen[]`, and that the ACK finds the
slot of that frame and no other. A frame to oneself that has the flag from the
caller's `flags` only is acknowledged too, but has no slot; the phases are about
frames in slots (`LoopsBack`), and its ACK matches no entry.

**The Python endpoint (`PyEndpointProofs`).** For every behaviour of callbacks:

* `DictHoldsWaitingCalls` (`PendingMatchesCalls`) and `PyOutcomesAreFinal`
  (`OutcomeIsFinal`), under `SeqsAreEnough`: with a SEQ drawn twice, a new frame
  to the same peer would replace the entry of an old one in the dict, and the old
  call would never settle. The invariant is `EntriesInv` (entries and
  waiting calls correspond one to one, keys are different) with `SeqInv`: the
  SEQs of parked frames are among the last `draws` ones before `next_seq`.
* `PyAckedIsDelivered` (`AckedIsDelivered`), under `KeysAreFrames`, that peers do
  not give two frames one key: `_seen` forgets nothing during a session, and
  would take the second for a copy. The invariant `SeenInv`: the key of a frame
  is in `_seen` only if the frame was delivered, which is where the order of
  `_send_ack` and `_seen.add` matters when the former raises.
* `PyDeliveredOnce` (`DeliveredOnce`), without hypotheses, from `OnceInv`: a
  delivered frame of a steady peer keeps its key in `_seen` and its session in
  `_source_sessions`, whatever other peers do.

**The router (`ArcRouterProofs`).** `RouterTypes`, `RoutesAreUnique` and
`LinksDoNotDangle` are inductive given the types. `RouterImplementsRouteMap`
also needs `LinksFilled`: the registered links are the first slots of `links[]`,
so that the index `add_link` returns is the number of links before.

**COBS (`CobsCoderProofs`).** For every number of values of a byte and all inputs:

* `EncoderStaysInBuffer`, `EncodedHasOneZero`, `DecoderStaysInBuffer` from
  `CoderInv`: the encoder has written one byte per byte read and one code, as
  long as no run reached the longest length; its output has no zero but in the
  place reserved for the next code; the decoder makes at most one byte of each
  byte it reads, and none of the last code.
* `DecodingInvertsEncoding` (`RoundTrip`) from `RoundTripInv`: there is a function
  `src` that says, for each code byte of the wire, how much of the input the runs
  before it account for. The encoder extends it run by run, and the decoder
  retraces it.

Only model-checked:

* liveness (`EverySendSettles` of both endpoints, `EveryFrameLeaves`), which is
  beyond the prover;
* `RefusedWithReason` of `ArcTopology`, finite tables of the deployed network
  that TLC covers completely;
* `ArcLink` and `ArcMessages`: `ArcFrame` uses the bitwise operators, the codecs
  of the reports recursive ones, and such modules cannot carry proofs; what the
  CRC detects depends on a polynomial and a width and has no general statement;
* the three runs that show a disagreement with a comment (section 3).

## 5. Plan

Done: every component with run-time state, alone and composed, and theorems for
the endpoints of both languages, alone and together on a network, the node, the
router and COBS.

Left: the tables of `ArcTopology` are those of the deployed network, and TLC covers
them completely; a statement for every topology in which each node has a default
or a route for each destination would need a model of topologies in general.

## 6. Not modelled

* Framing in Python (`protocol.py`): the loops of `arc_protocol.c` again, with
  exceptions in place of capacities and result codes.
* Message codecs in Python (`messages.py`, `messages_generated.py`): immutable
  dataclasses built with `struct`; no struct is half written, and what remains is
  the layouts, which are those of `FixedMessages` and `ReportMessages`.
* The generator, the schema and the vector generator: no run-time behaviour.
* NULL arguments, which every function refuses before it does anything. NULL
  callbacks are the same as callbacks that ignore their argument.
