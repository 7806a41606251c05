# TLA+ verification of Netrex RakNet

This directory holds TLA+ models of the RakNet implementation in `src/`, the
TLC configurations that check them on small instances, and TLAPS proofs of
every safety invariant the passing runs check: the send queue's type
correctness, retransmission invariant, unique reliable indices and refinement
of an abstract packet log, the connection's type correctness, increasing
outbound sequences and ACKs of received sequences only, and the server's type
correctness. `../spec.md` is the protocol description the code is
compared against.

## The system

| Part | Source | Role |
|------|--------|------|
| SendQueue | `src/connection/queue/send.rs` | The outbound reliability layer of one connection. `insert` frames a payload, numbers it and sends it now or defers it to `ready`. `update` (one tick) drains `ready` and resends what the recovery queue hands back. `ack`/`nack` apply the peer's acknowledgements. |
| Frame codec | `src/frame/mod.rs` | `Frame` and `FramePacket` with their `parse` (encode) and `compose` (decode). |
| Connection | `src/conn.rs` | The receive path of one peer. It handles offline packets and frame packets, and keeps its own ACK/NACK queues, fragment store and send queue of byte streams. |
| RakNetServer | `src/server.rs` | Two threads. A receive thread routes each datagram to its connection, creating the connection if needed. A sender thread ticks every connection every 50 ms and writes out its send queue. They share the connection map under one Mutex. |
| Utilities | `src/util.rs`, `src/lib.rs` | Address encoding and decoding, and the `MAGIC` constant. |

Some helpers the send queue calls are not under `src/`: `RecoveryQueue`, `Reliability`, the ACK records, `SafeGenerator` and `FragmentQueue`. They are modelled from `spec.md` and marked `spec_modelled` in `PROJECT.json`. The generator's `next()` returns the counter and then increments it; `get()` returns the current value. This matches scenario S2, where the first reliable frame has `reliable_index = 0`.

## Modules

### `SendQueue.tla`: the send queue

**State.** One variable per field of `SendQueue` that changes:
- `sendSeq`, `reliableSeq`: the two generators.
- `recovery`: the recovery queue, a function from key to packet.
- `orderChannels`: channel ↦ `[seq, idx]`.
- `fragQueue`
- `ready`

Three variables observe the system:
- `wire`: the set of datagrams written to the socket. The peer may receive any of them, any number of times, in any order, so loss, duplication and reordering are all covered by the peer's choice.
- `nInserts`: counts `insert` calls. It is also the identity of each payload.
- `acked`: the sequences the peer has ACKed.

**Data.** A payload is a pair: its identity and its length. A frame is a record of the fields `Frame::parse` writes. `FrameSize` and `DatagramSize` compute the encoded size exactly as `Frame::parse` and `FramePacket::parse` lay it out:
- a frame: flags (1) + bit length (2) + 3 per present index + 1 for the channel byte + the body;
- a packet: 4 bytes of header.

`send.rs` imports its `Frame` and `FramePacket` from `crate::protocol::frame`, which is not in `src/`. The layout is taken from `frame/mod.rs`, the one frame codec that is in `src/`; the two are assumed to encode alike. Only `DatagramWithinMtu` depends on these sizes.

**Actions.**
- `Insert(len, rel, imm, ch)` is one `insert` call. Its three disjuncts follow the code's control flow:
  - `InsertDirect`: the `Unreliable`/`Reliable` match arm, which calls `send_frame` whatever the length.
  - `InsertSplit`: the oversized branch. `split_insert` produces ⌈len/MTU⌉ fragments. The order counters and reliable index advance, and a frameless `FramePacket` is sent and stored under its sequence.
  - `InsertFit`: indices are set by `FitFrame` and the counters by `FitChannels`. Then `send_frame` runs now (`imm`) or the frame is pushed to `ready`.
- `send_frame` is not an action of its own. It is part of every action that calls it:
  - `FramePk` is the packet it builds;
  - `FrameStore` is the recovery insert under `reliable_seq.get()`.
- `send_packet` is `insert` with channel `None`. A parse failure returns before any state changes.
- `Update` is the whole of `update()`. It runs `send_frame` on every ready frame in order: the i-th frame takes sequence `sendSeq + i - 1`, and reliable index `reliableSeq` plus the number of earlier reliable frames. It then empties `ready`. It then resends a nondeterministic subset of the recovery queue, unchanged. That subset is `RecoveryQueue::flush`, which is not in `src/`.
- `Ack(rec)` and `Nack(rec)` are `Ackable::ack` and `Ackable::nack` for one record. `nack` returns the stored packets rather than writing them; the model puts them on the wire, as a caller outside `src/` that handles NACKs would. `PeerRecords` is every `Single` or `Range` record over sequences that were sent. A packet of several records is several such steps. `RecordSeqs` walks a range as the code does: `start..end` with the end excluded.

**Constants.**
- `MTU`, `OVERHEAD`;
- `Lengths`, `Channels`, `RelInputs`: the payload lengths, channels and reliabilities a caller passes;
- `None`: the absent `Option`;
- `RecordKinds`: the record kinds the peer uses;
- `MaxInserts`: the bound on `insert` calls, the only unbounded input.

### `MCSendQueue.tla` and the configurations

`MCSendQueue` gives the set-valued constants values. The constants used:
- `MTU = 1400`, `OVERHEAD = 60`. These are the values of spec scenario S2.
- Lengths 100 (fits) and 2000 (must be split).
- Channels 0 and 1.
- Reliabilities `Unreliable`, `Reliable`, `ReliableOrd` and `UnreliableSeq`. Each one takes a different branch of `insert`.
- Three inserts.

Three inserts are enough for every pairwise interleaving of the three insert paths, with ticks and ACK/NACKs in between. They also allow two deferred frames in one `update` batch, which is where the reliable-index arithmetic matters. TLC explores 47,837 distinct states in about 10 s.

### `PacketLog.tla`: what the send queue promises

`PacketLog` is the abstract specification of numbering. Its state is:
- `next`: the next sequence;
- `log`: the datagram each sequence below `next` names;
- `emitted`: the datagrams written.

Its one action `Send` may hand out any number of new sequences at once. Each new sequence names a datagram that is written in the same step. Earlier sequences keep their datagram. Anything written is the datagram of some sequence, so a resend adds nothing new.

`SendQueue` maps onto it by `next <- sendSeq`, `log <- LogOf` (the datagram on the wire under each sequence) and `emitted <- wire`. The `sendqueue` run checks `PacketLogSpec == PL!Spec` as a temporal property. Under that mapping:
- `update`'s batch is one `Send` of several sequences;
- a NACK resend and an ACK are stutters.

### `ConnectionOps.tla` and `Connection.tla`: one peer's receive path

`conn.rs` and `send.rs` come from different generations of the code and never call each other, so the connection is a component of its own. Each call into a `Connection` runs under the server's connection-map Mutex and holds `&mut self`. So each call is one atomic step, except that `recv` of a FramePacket is split at the loop of `handle_frames`: one step up to the loop, then one step per frame. No other step of the connection can run until the loop ends, so the split changes no outcome. It exposes the intermediate states to the invariants, and it lets the proofs reason about the loop one turn at a time.

`ConnectionOps` holds the connection as a record, with one field per field of `Connection`. It also holds the operations as pure operators from a record to a record:
- `NewConnection`;
- `SendOp`;
- `RecvOfflineOp`, `RecvAckOp` and `RecvFramePacketOp`, with `Recv` choosing among them as `recv` does.

`Connection` applies them to one connection held in variables. `Server` applies them to the connection of each address.

**State.** One variable per field that changes:
- `state`, `mtu`, `sendQueue`, `sendQueueLarge`, `fragmented`, `fragmentId`, `sendSeq`, `ackQ`, `nackQ`.

Four more variables observe the system or bound it:
- `delivered`: the payloads handed to the recv callback, in order.
- `received`: the sequences `handle_frames` has taken.
- `crashed`: `fragment()` underflowed. That is a panic in a debug build and an endless loop holding the lock in a release build. Either way the connection takes no more steps.
- `loopFrames`: the frames the loop of `handle_frames` has still to handle. It is empty outside the loop.
- `nRecv`, `nSends`: bounds on the peer's datagrams and on `send` calls.

**Data.** A datagram in `sendQueue` is a record of its kind (offline reply, FramePacket, ACK, NACK), its sequence, its body kind and the sequences an ACK/NACK names. Byte layout is left out. A reply body is its length (`ReplyLen`), because only the length decides between `fragment()` and a single frame.

**Actions.**
- `Send(instant)` is `send`.
- `RecvOffline(pk)`, `RecvAck(seqs)` and `RecvFramePacket(s)` are the three branches of `recv`.
- `RecvFramePacket(s)` is the branch up to the loop:
  - `AckFlush` of an empty ACK: the "hack" at `conn.rs:159`, which flushes both queues;
  - the push of `s` to the AckQueue;
  - `loopFrames` is set to the packet's frames.
- `HandleFrame` is one turn of the loop of `handle_frames` (`FrameStep` on the head of `loopFrames`). `FrameStep` calls `HandleFullFrame` and `Fragment`. After a panic the loop never goes on.
- `Send` and every branch of `recv` require `loopFrames = <<>>`.
- The peer is the environment. It may send any datagram of the small sets, in any order and any number of times. That covers loss, duplication and reordering. Its FramePacket with sequence `s` always has the frames `PacketOf[s]`, as a retransmission would.
- `do_tick` is empty (`conn.rs:293-295`). It is a stutter and not an action.
- `handle_offline`, `handle_online`, `make_ack`/`make_nack` and `FragmentStore` are not in `src/`. They are modelled from spec 4.2 and 4.4.

**Instance** (`MCConnection`).
- The peer's FramePackets 0..3 carry, in turn:
  - a Connection Request (96-byte reply);
  - New Incoming Connection, a game payload and fragment 0 of a compound;
  - fragment 1 and a Connected Ping (17-byte reply);
  - a Disconnect.
- The peer may also send two ACK sets.
- MTUs are 1400 and 48. With 48 the 96-byte reply goes through `fragment()` without underflow.
- `FragIdWrap = 2` makes the fragment-id reset reachable in two calls.
- There are 6 received datagrams and 2 sends.
- The run explores 1,342,561 states in about 15 s.
- Deadlock checking is off, because a connection whose peer is silent takes no step.

### `Server.tla`: the dispatcher and the sender thread

**State.**
- `conns`: the connection map, address ↦ connection record.
- `writes[a][i]`: how many times the i-th datagram of `a`'s send queue has been written to the socket, saturating at 2.
- `loops`: the address whose `recv` is in the loop of `handle_frames`, mapped to the frames still to handle. It is an empty function when the receive thread is not in a loop (`Idle`).
- `nRecv`, `nSends`: bounds.

`writes` only observes.

**Actions.** Each action holds the Mutex for its whole turn, so each is atomic.
- `Receive(a, d)` is one turn of the receive thread:
  - the connection is created by `Connection::new` if the address is new;
  - then `recv` runs, up to the loop of `handle_frames` for a FramePacket.
- `HandleFrame(a)` is one turn of that loop, with the Mutex still held. `Receive`, `SendStream` and `Tick` require `Idle`.
- `SendStream(a, instant)` is `send_stream`. It does nothing for an unknown address.
- `Tick` is one turn of the sender thread:
  - it evicts connections in state `Offline`;
  - it ticks the rest;
  - it writes every datagram of every send queue.

  The code clears the send queue of a clone of the map (`server.rs:106,125`), so the map's queues keep their datagrams.
- `Alive` guards every action. A panic in `recv` poisons the Mutex, and every later `lock().unwrap()` panics.
- Socket errors are `continue` in the code and change nothing.

**Instance** (`MCServer`). The instance has:
- two addresses;
- the datagrams, MTUs and packets of `MCConnectionOps` (shared with `MCConnection`);
- 4 received datagrams and 1 `send_stream`.

That is enough for a handshake, a FramePacket with a reply, a Disconnect and a second handshake on one address, or for both addresses to interleave. The `server` run explores 1,000,022 states in about 75 s. The violation runs use 3 or 4 datagrams. The saturation of `writes` keeps the space finite without bounding the ticks.

### `SendQueueProofs.tla`: proofs

This module proves `TypeCorrect`: `Spec => []TypeOK`, for every value of the constants that satisfies `ConstAssumption` and `RelInputsAssumption`.

The proof is by the usual induction: `Init => TypeOK`, and every step keeps `TypeOK`. There is one lemma per action:
- `InsertDirectType`, `InsertSplitType`, `InsertFitType`, `UpdateType`, `AckType`, `NackType`.

These rest on lemmas about the operators the model is built from:
- `FrameSetRi` and `FrameSetOiSi`: setting an index keeps a frame a frame.
- `FramePkType`, `StoreAtType`, `FrameStoreType`, `FitChannelsType`, `BatchPkType`, `BatchKeyPkType`.
- `RelBeforeNat`: the count of earlier reliable frames is finite and natural. It uses `FS_Interval`, `FS_Subset` and `FS_CardinalityType` from FiniteSetTheorems.
- `PeerRecordNat`: the peer's records name natural sequences, so an ACKed range is a set of naturals.

`TypeOK` is inductive as it stands. The one fact it needed from outside was that ACK records come from `PeerRecords`.

The module also proves `ResendIdenticalHolds`: `Spec => []ResendIdentical`. `ResendIdentical` alone is not inductive. A step that sends a fresh packet could reuse a sequence already on the wire, and a NACK could resend something that is not on the wire. The inductive invariant is `IInv == TypeOK /\ WireInv`, where `WireInv` adds two conjuncts:
- `SeqsBelow`: every sequence on the wire is below `sendSeq`. So a packet numbered from `sendSeq` is new.
- `RecoveryOnWire`: every recovery entry is already on the wire. So a resend adds nothing.

TLC checked `IInv` on all 47,837 states before the proof was written. The proof has one lemma per action (`InsertWire`, `UpdateWire`, `AckWire`, `NackWire`). They rest on `FreshSend`, which says that adding packets with sequences at or above `sendSeq` keeps `ResendIdentical`.

### `SendQueueRefinement.tla`: the refinement proof

This module proves `PacketLogRefinement`: `Spec => PacketLogSpec`, for every value of the constants. The argument has four parts.

1. **The invariant.** `IInv` of `SendQueueProofs` is strengthened with `Gapless`: every sequence below `sendSeq` is on the wire. `GaplessStep` shows that each action keeps it:
   - an insert that sends numbers one packet `sendSeq`;
   - `update`'s batch covers `sendSeq .. sendSeq + Len(ready) - 1`;
   - the other actions leave `sendSeq` as it is.
2. **What the invariant gives.** With `SeqsBelow`, `Gapless` makes the sequences on the wire exactly `0 .. sendSeq - 1` (`SentSeqsExact`).
3. **The mapping is stable.** `ResendIdentical` makes `LogOf` well defined. `ChooseLog` and `ChooseStable` show that `LogOf` picks the one packet of each sequence, and that a larger wire does not change that pick. `Grows` shows that no step lowers `sendSeq` or removes from the wire.
4. **The step.** `RefineStep` turns these facts into `PL!Send`. The theorem then combines `Init => PL!Init`, the invariant and the step `BY PTL`.

### `SendQueueIndexProofs.tla`: reliable indices are unique

This module proves `ReliableIndexUniqueHolds`: `Spec => []ReliableIndexUnique`, for every value of the constants. `ReliableIndexUnique` is not inductive alone: a fresh send could take an index some datagram on the wire already has. The inductive invariant is `RiInv == IInv /\ RiBelow /\ ReadyUnrel /\ ReliableIndexUnique`:
- `RiBelow`: every reliable index on the wire is below `reliableSeq`. So an index taken from `reliableSeq` is fresh.
- `ReadyUnrel`: a frame waiting in `ready` that is not reliable carries no index. So `update`, which stamps only the reliable ones, leaves no stale index behind.

TLC checked `RiInv` on all 47,837 states before the proof was written. The lemmas:
- `AddFresh`: adding packets whose indices lie in `lo..hi-1` to a wire whose indices lie below `lo` keeps the indices unique and below `hi`.
- `RelBeforeGrows`: in `update`, the index stamped on a reliable frame of `ready` is below that of every later reliable frame. The count of earlier reliable frames grows strictly past a reliable one.
- `UpdateWireSet` (in `SendQueueProofs`): after `update`, the wire is the old wire plus the batch, and every recovery entry is on it.
- One lemma per action (`InsertRi`, `UpdateRi`, and the ACK and NACK cases of `RiStep`, which leave the wire as it is up to resends).

### `ConnectionOpsProofs.tla`, `ConnectionProofs.tla`, `ServerProofs.tla`: the connection and the server

`ConnectionOpsProofs` is about the operators of `ConnectionOps` on a connection record. `Good(c)` says that:
- `c` is well typed (`ConnTypeOK`);
- the FramePackets of its `sendQueue` have sequences below `sendSeq`, in strictly increasing order;
- its ACKs and its AckQueue name only received sequences.

Each operation keeps a record `Good`: `SendOpGood`, `RecvOfflineGood`, `RecvAckGood`, `RecvFramePacketGood`, `FrameStepGood` (through `HandleFullFrameGood`, `FragmentGood` and `HandleOnlineGood`), and `RecvGood` for `Recv` as the server calls it. `Grows` says that each only appends to `sendQueue`. The lemmas about the queue are `AppendOK`, `QueueOKWeaken` and `AckFlushOK`.

The two facts `Good` adds to the properties are what makes it inductive:
- a FramePacket is queued under `sendSeq`, which then advances, so the new one is above every earlier one only because they are all below `sendSeq`;
- `make_ack` builds the ACK from the AckQueue, so the ACK names received sequences only because the AckQueue does.

`ConnectionProofs` proves, for `Connection`, `TypeCorrect` (`Spec => []TypeOK`), `OutSeqsIncreaseHolds` and `AckOnlyReceivedHolds`. All three come from the invariant `Inv == TypeOK /\ Good(Conn)`. `BecomeGood` carries `Good` from the record a step computes to the variables.

`ServerProofs` proves `TypeCorrect` for `Server`. Its invariant `SInv` adds two facts to `TypeOK`: every connection of the map is `Good`, and the loop of the receive thread has frames left whenever it is in it. The write counts stay one per datagram because `Extend` pads them by exactly as much as the queue grew (`ExtendType`), and the queue only grows. TLC checked `Inv` and `SInv` on the states of the `connection` and `server` runs before the proofs were written.

The loop of `handle_frames` is a step per frame, not a fold over the frames, so that these proofs can exist. A fold (`FoldLeft` of SequencesExt) reaches the RECURSIVE operators of Folds. TLAPS cannot use a module that reaches those, and cannot unfold a recursive function either.

## Runs

| Run | Config | Expect | What it shows |
|-----|--------|--------|---------------|
| `sendqueue` | `MCSendQueue.cfg` | pass | See below. |
| `ack_releases` | `MCSendQueue_AckReleasesPacket.cfg` | violation | The ACK of sequence 0 leaves the reliable packet queued, because it was stored under key 1 (`send.rs:225`). The run uses single records only, so the trace shows this bug and not the range bug. |
| `datagram_mtu` | `MCSendQueue_DatagramWithinMtu.cfg` | violation | A 2000-byte `Unreliable` payload goes out as one 2007-byte datagram (`send.rs:113`). |
| `payload_transmitted` | `MCSendQueue_PayloadTransmitted.cfg` | violation | A split payload never reaches the wire, because only a frameless packet is sent (`send.rs:162`). |
| `connection` | `MCConnection.cfg` | pass | See below. |
| `deliver_once` | `MCConnection_DeliverOnce.cfg` | violation | A duplicated FramePacket delivers its game payload twice: no `has_seq` check (`conn.rs:225`, spec 8.2). |
| `nack_missing` | `MCConnection_NackNamesMissing.cfg` | violation | The peer's ACK of our sequence 0 makes `handle_ack` emit a NACK for 0 before any packet was received (`conn.rs:184`). |
| `recv_panics` | `MCConnection_RecvNeverPanics.cfg` | violation | With MTU 50, the 96-byte Connection Accepted reply underflows `fragment()`'s offset (`conn.rs:320`). |
| `ack_eventually` | `MCConnection_AckEventuallySent.cfg` | violation | The last FramePacket's sequence stays in the AckQueue for ever when the peer sends nothing more, because `do_tick` is empty (`conn.rs:294`). |
| `server` | `MCServer.cfg` | pass | `QueuedEventuallyWritten`: under the sender thread's fairness, every datagram a connection queues is eventually written to the socket. |
| `written_once` | `MCServer_WrittenOnce.cfg` | violation | An offline reply is written again on the second tick, because the tick clears the clone's queue (`server.rs:125`). Spec 4.5 drains the queue. |
| `closed_evicted` | `MCServer_ClosedEvicted.cfg` | violation | A connection closed by a Disconnect frame after its handshake is still in the map after the next tick, because the sender thread evicts only `Offline` connections (`server.rs:107`); spec 3 and 4.6(f) evict `Disconnected` ones. The trace is handshake, FramePacket with a Disconnect frame, tick. A peer that handshakes again then gets its old `Connection` back (`server.rs:86`). |

The `sendqueue` run checks four properties:
- `TypeOK`.
- `ResendIdentical`: two datagrams with the same sequence are identical, across first sends, update flushes and NACK resends.
- `ReliableIndexUnique`: packets with different sequences never share a reliable index. This matters because a deferred frame takes one reliable index at insert and another when `update` sends it.
- `PacketLogSpec`: the send queue implements `PacketLog` (proved as well).

The `connection` run checks three properties:
- `TypeOK`, which includes `fragment_id` staying below its wrap point 65535.
- `OutSeqsIncrease`: FramePackets queued by `send` and by `handle_full_frame`'s replies carry strictly increasing sequences (spec 3).
- `AckOnlyReceived`: an emitted ACK names only sequences that `handle_frames` took.

Each passing property has a mutant in `PROJECT.json` that TLC must catch. Each mutant is a plausible slip in the code:
- `FitChannelsSub`: subtracting instead of adding to the order index.
- `InsertSplitNoAdvance`: the split path reusing `send_seq.get()`.
- `InsertDirectNoNext`: forgetting `reliable_seq.next()`.
- `FragmentNoReset`: no reset of `fragment_id`.
- `HandleFullFrameNoInc`: a reply queued without `send_seq + 1`.
- `AckFlushIntoAck`: the peer's records pushed to the AckQueue instead of the NAckQueue.
- `BatchPkOffByOne`: `update`'s batch numbered from `send_seq + 1`, leaving a gap. This breaks `PacketLogSpec`.
- `TickEvictDisconnected`: the tick evicting `Disconnected` connections along with `Offline` ones. A new connection starts `Disconnected`, so its offline reply is dropped before it is written. This breaks `QueuedEventuallyWritten`.

Four defects are plain in the code and get no run of their own. Each is listed as a hazard in `PROJECT.json`:
- `ack` walks a range record as `start..end` with the end excluded (`send.rs:311`). The model's `RecordSeqs` does the same.
- The fit path never sets the frame's order channel (`send.rs:188`).
- Nothing in `src/` calls `SendQueue::update`: `do_tick` is empty (`conn.rs:293`), so a frame inserted with `immediate = false` is never sent. No liveness property is checked for it (see Fairness).

## Fairness

`SendQueue`'s `Spec` assumes no fairness. `update` is the queue's tick, but nothing in `src/` calls it: the sender thread calls `Connection::do_tick` (`server.rs:112`), which is empty. Insert, ACK and NACK come from the application and the peer, and are not obliged to happen either. So no liveness property of the send queue is checked; a property that deferred frames reach the wire would fail only by stuttering, which is what the code does.

`Server`'s `Spec` assumes `WF_vars(Tick)`, for two reasons:
- the sender thread loops for ever with a 50 ms sleep (`server.rs:103-105`);
- the receive thread and `send_stream` hold the Mutex only for one datagram or one call.

So a sender turn that can run is not put off for ever. It also assumes `WF_vars(\E a : HandleFrame(a))`: once `recv` has started the loop of `handle_frames`, the receive thread runs it to the end unless it panics. The receive thread's next datagram and the application get no fairness.

`Connection`'s `Spec` assumes `WF_vars(HandleFrame)` for the same reason, and nothing else. Every other step of a connection is a call made by the peer or by the application, and neither is obliged to call again. The one scheduled step, `do_tick`, does nothing. `AckEventuallySent` is therefore violated: nothing in the code flushes the ACK queue without a new datagram.

## What is only model-checked

The following are checked by TLC on the instance above, not proved:
- The liveness property `QueuedEventuallyWritten`, and the violated properties.
- Liveness and `ENABLED` are beyond TLAPS. What a recursive definition computes is also beyond it, because induction over data would need an operator parameter, and tlapm cannot unfold a recursive function even at its base case. `DatagramSize` is written as a recursive function so that the proof modules may extend `SendQueue`. No theorem depends on its value.

Every safety invariant that a passing run checks is also proved for every value of the constants: `TypeOK`, `ResendIdentical`, `ReliableIndexUnique` and `PacketLogSpec` of the send queue; and `TypeOK`, `OutSeqsIncrease` and `AckOnlyReceived` of the connection. `TypeOK` of the server, which no run checks on its own, is proved as well.

## Plan for the next sittings

1. **Add `NackResendsRange`**, a property that a NACK of a range resends every packet of the range. It needs a transmission history, because the wire is a set.
2. **Model `fragment` as a pure function**, checked against a reference split of a buffer into MTU-sized pieces.
3. **Prove an action property of the connection:** a step only appends to `send_queue`. `Grows` of `ConnectionOpsProofs` is most of it.
4. **Add a fault model for the socket:** a failed `send_to` of the sender thread. The code ignores the error, so that datagram is lost until the next tick.

## Not modelled

- `Frame::compose` and `FramePacket::compose` (decoding). These are pure byte parsers. Their slicing bugs are listed as hazards in `PROJECT.json`.
- `util.rs` address conversion. This is pure string and byte conversion. Its IPv6 defects are listed as hazards.
- Socket errors in `send_stream` and in the server's `recv_from`/`send_to`. They are ignored and change no state.
- `RakNetVersion::to_u8`, a constant table; `set_reciever`, which replaces the callback (the model records deliveries, not the callback); `lib.rs`, which only declares modules and `MAGIC`.
- Widths of the wire fields: the u24 sequence and the u16 bit length. Counters are naturals, so wraparound after 2^24 packets is out of reach of these runs. It is listed as a hazard.
