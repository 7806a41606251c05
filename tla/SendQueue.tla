----------------------------- MODULE SendQueue -----------------------------
(***************************************************************************)
(* The outbound reliability pipeline of one RakNet connection: SendQueue  *)
(* in src/connection/queue/send.rs.  A user buffer enters through insert, *)
(* is framed, numbered with the packet sequence, the reliable index and   *)
(* the per-channel order/sequence indices, and is either written to the   *)
(* socket at once (send_frame) or parked in `ready` until the next tick   *)
(* (update).  Reliable packets are kept in the recovery queue until the   *)
(* peer ACKs them; a NACK or a stale entry makes them go out again.       *)
(*                                                                         *)
(* Data is abstracted: a payload is its identity (the number of the       *)
(* insert call that carried it) and its length; a datagram is the record  *)
(* of the fields its encoding writes, and its size is computed from them  *)
(* the way Frame::parse lays them out.  The socket is the set of          *)
(* datagrams written to it: the peer may receive any of them, so loss,    *)
(* duplication and reordering are all in the peer's choice of what it     *)
(* ACKs or NACKs.                                                          *)
(***************************************************************************)
EXTENDS Naturals, FiniteSets, Sequences

CONSTANTS
    MTU,          \* mtu_size of the connection (u16)
    OVERHEAD,     \* RAKNET_HEADER_FRAME_OVERHEAD
    Lengths,      \* payload lengths a caller may pass to insert
    Channels,     \* order channels a caller may name (u8)
    RelInputs,    \* reliabilities a caller may request
    None,         \* the value of an absent Option
    RecordKinds,  \* the ACK/NACK record kinds the peer emits
    MaxInserts    \* bound on the number of insert calls

ASSUME ConstAssumption ==
    /\ MTU \in Nat \ {0}
    /\ OVERHEAD \in Nat
    /\ Lengths \subseteq Nat \ {0}
    /\ Channels \subseteq 0..255
    /\ 0 \in Channels
    /\ None \notin Nat
    /\ RecordKinds \subseteq {"single", "range"}
    /\ MaxInserts \in Nat

(***************************************************************************)
(* Reliability (protocol/reliability.rs is not in src/): the eight        *)
(* variants and the conventional RakNet predicates over them.             *)
(***************************************************************************)
Reliabilities == {"Unreliable", "UnreliableSeq", "Reliable", "ReliableOrd",
                  "ReliableSeq", "UnreliableAck", "ReliableAck",
                  "ReliableOrdAck"}

ASSUME RelInputsAssumption == RelInputs \subseteq Reliabilities

IsReliable(r) == r \in {"Reliable", "ReliableOrd", "ReliableSeq",
                        "ReliableAck", "ReliableOrdAck"}
IsSequenced(r) == r \in {"UnreliableSeq", "ReliableSeq"}
IsOrdered(r) == r \in {"UnreliableSeq", "ReliableOrd", "ReliableSeq",
                       "ReliableOrdAck"}

Index == Nat \cup {None}

(* A frame: the fields Frame::parse writes, the payload reduced to its    *)
(* identity and length.                                                    *)
Frames == [rel : Reliabilities, ri : Index, si : Index, oi : Index,
           ch : Channels \cup {None}, pid : Nat, len : Nat]

(* A FramePacket: 24-bit sequence, the reliability tag, its frames.       *)
Packets == [seq : Nat, rel : Reliabilities, frames : Seq(Frames)]

(* Frame::new(reliability, Some(packet)): no index is set yet.            *)
NewFrame(r, pid, len) ==
    [rel |-> r, ri |-> None, si |-> None, oi |-> None, ch |-> None,
     pid |-> pid, len |-> len]

(* Encoded sizes, as Frame::parse and FramePacket::parse lay them out:    *)
(* flags (1), bit length (2), each present 24-bit index (3), the order    *)
(* channel byte (1), the body; a packet adds its id byte and a u24.       *)
FrameSize(f) ==
    3 + (IF f.ri # None THEN 3 ELSE 0) + (IF f.si # None THEN 3 ELSE 0)
      + (IF f.oi # None THEN 4 ELSE 0) + f.len

DatagramSize(pk) ==
    LET acc[i \in 0..Len(pk.frames)] ==
            IF i = 0 THEN 4 ELSE acc[i - 1] + FrameSize(pk.frames[i])
    IN  acc[Len(pk.frames)]

(* An ACK/NACK record: a single sequence or a range of them.              *)
Single(s) == [kind |-> "single", start |-> s, end |-> s]
RangeRecord(a, b) == [kind |-> "range", start |-> a, end |-> b]

(* The sequences Ackable::ack and ::nack visit for a record: a range is   *)
(* walked as start..end with end excluded (`for i in ranged.start..ranged.end`). *)
RecordSeqs(rec) ==
    IF rec.kind = "single" THEN {rec.start} ELSE rec.start..(rec.end - 1)

-----------------------------------------------------------------------------
VARIABLES
    sendSeq,        \* send_seq: the next FramePacket sequence
    reliableSeq,    \* reliable_seq: the next reliable index
    recovery,       \* ack: the RecoveryQueue, key -> FramePacket
    orderChannels,  \* order_channels: channel -> (seq, idx)
    fragQueue,      \* fragment_queue: compounds split but kept back
    ready,          \* ready: frames waiting for the next update
    wire,           \* the datagrams written to the socket so far
    nInserts,       \* the number of insert calls so far (payload ids)
    acked           \* the sequences the peer has ACKed so far

vars == <<sendSeq, reliableSeq, recovery, orderChannels, fragQueue, ready,
          wire, nInserts, acked>>

(* The sequences of the datagrams on the wire: what the peer can name.    *)
SentSeqs == {pk.seq : pk \in wire}

(* RecoveryQueue::insert_id: a HashMap insert, so an old entry under the  *)
(* same key is replaced.                                                   *)
StoreAt(q, k, pk) ==
    [x \in DOMAIN q \cup {k} |-> IF x = k THEN pk ELSE q[x]]

(* send_frame(frame) with the counters at s and r: the packet it builds    *)
(* (a reliable frame takes reliable_seq.next()) ...                        *)
FramePk(f, s, r) ==
    [seq |-> s, rel |-> f.rel,
     frames |-> <<IF IsReliable(f.rel) THEN [f EXCEPT !.ri = r] ELSE f>>]

(* ... and the recovery queue after it: the clone is stored under          *)
(* reliable_seq.get(), the counter after next(), not under pk.sequence.    *)
FrameStore(q, f, s, r) ==
    IF IsReliable(f.rel) THEN StoreAt(q, r + 1, FramePk(f, s, r)) ELSE q

Init ==
    /\ sendSeq = 0
    /\ reliableSeq = 0
    /\ recovery = [k \in {} |-> CHOOSE pk \in Packets : TRUE]
    /\ orderChannels = [c \in Channels |-> [seq |-> 0, idx |-> 0]]
    /\ fragQueue = <<>>
    /\ ready = <<>>
    /\ wire = {}
    /\ nInserts = 0
    /\ acked = {}

-----------------------------------------------------------------------------
(***************************************************************************)
(* insert(packet, reliability, immediate, channel), the whole call.       *)
(***************************************************************************)
ChannelOf(c) == IF c = None THEN 0 ELSE c

(* Mutant of InsertDirect: send_frame forgets reliable_seq.next().       *)
InsertDirectNoNext(len, rel) ==
    LET f == NewFrame(rel, nInserts, len)
    IN  /\ rel \in {"Unreliable", "Reliable"}
        /\ sendSeq' = sendSeq + 1
        /\ reliableSeq' = reliableSeq
        /\ recovery' = FrameStore(recovery, f, sendSeq, reliableSeq)
        /\ wire' = wire \cup {FramePk(f, sendSeq, reliableSeq)}
        /\ UNCHANGED <<orderChannels, fragQueue, ready>>

(* `reliability` is Unreliable or Reliable: send_frame at once, whatever  *)
(* the length (the match is on the requested reliability).                *)
InsertDirect(len, rel) ==
    LET f == NewFrame(rel, nInserts, len)
    IN  /\ rel \in {"Unreliable", "Reliable"}
        /\ sendSeq' = sendSeq + 1
        /\ reliableSeq' = IF IsReliable(rel) THEN reliableSeq + 1
                                             ELSE reliableSeq
        /\ recovery' = FrameStore(recovery, f, sendSeq, reliableSeq)
        /\ wire' = wire \cup {FramePk(f, sendSeq, reliableSeq)}
        /\ UNCHANGED <<orderChannels, fragQueue, ready>>

(* Mutant of InsertSplit: the packet takes send_seq.get(), not next().   *)
InsertSplitNoAdvance(len, rel, ch) ==
    LET c   == ChannelOf(ch)
        n   == (len + MTU - 1) \div MTU
        oc  == [seq |-> orderChannels[c].seq + 1, idx |-> orderChannels[c].idx + 1]
        pk  == [seq |-> sendSeq, rel |-> rel, frames |-> <<>>]
    IN  /\ rel \notin {"Unreliable", "Reliable"}
        /\ len > MTU + OVERHEAD
        /\ sendSeq' = sendSeq
        /\ orderChannels' = [orderChannels EXCEPT ![c] = oc]
        /\ reliableSeq' = IF IsReliable(rel) THEN reliableSeq + n ELSE reliableSeq
        /\ fragQueue' = Append(fragQueue, [pid |-> nInserts, count |-> n,
                                           ch |-> c, oi |-> oc.idx])
        /\ wire' = wire \cup {pk}
        /\ recovery' = StoreAt(recovery, sendSeq, pk)
        /\ UNCHANGED ready

(* The buffer exceeds mtu_size + RAKNET_HEADER_FRAME_OVERHEAD: a packet   *)
(* takes the next sequence, split_insert keeps the fragments (one per     *)
(* mtu_size bytes) in the fragment queue, the channel's counters and the  *)
(* reliable index advance for them, and the packet, which was never given *)
(* a frame, is written and stored under its sequence.                     *)
InsertSplit(len, rel, ch) ==
    LET c   == ChannelOf(ch)
        n   == (len + MTU - 1) \div MTU
        oc  == [seq |-> orderChannels[c].seq + 1, idx |-> orderChannels[c].idx + 1]
        pk  == [seq |-> sendSeq, rel |-> rel, frames |-> <<>>]
    IN  /\ rel \notin {"Unreliable", "Reliable"}
        /\ len > MTU + OVERHEAD
        /\ sendSeq' = sendSeq + 1
        /\ orderChannels' = [orderChannels EXCEPT ![c] = oc]
        /\ reliableSeq' = IF IsReliable(rel) THEN reliableSeq + n ELSE reliableSeq
        /\ fragQueue' = Append(fragQueue, [pid |-> nInserts, count |-> n,
                                           ch |-> c, oi |-> oc.idx])
        /\ wire' = wire \cup {pk}
        /\ recovery' = StoreAt(recovery, sendSeq, pk)
        /\ UNCHANGED ready

(* The buffer fits: the frame takes a reliable index if reliable, and the *)
(* channel's order index (ordered) or sequence index (sequenced); the     *)
(* order channel itself is never written into the frame.                  *)
FitFrame(len, rel, c) ==
    LET base == NewFrame(rel, nInserts, len)
        withRi == IF IsReliable(rel) THEN [base EXCEPT !.ri = reliableSeq] ELSE base
        oc == orderChannels[c]
    IN  IF IsOrdered(rel)
          THEN [withRi EXCEPT !.oi = oc.idx + 1, !.si = sendSeq]
        ELSE IF IsSequenced(rel)
          THEN [withRi EXCEPT !.oi = oc.idx, !.si = oc.seq + 1]
        ELSE withRi

(* Mutant of FitChannels: the order index is stepped with wrapping_sub   *)
(* instead of wrapping_add.                                                *)
FitChannelsSub(rel, c) ==
    LET oc == orderChannels[c]
    IN  IF IsOrdered(rel)
          THEN [orderChannels EXCEPT ![c] = [oc EXCEPT !.idx = oc.idx - 1]]
        ELSE IF IsSequenced(rel)
          THEN [orderChannels EXCEPT ![c] = [oc EXCEPT !.seq = oc.seq + 1]]
        ELSE orderChannels

FitChannels(rel, c) ==
    LET oc == orderChannels[c]
    IN  IF IsOrdered(rel)
          THEN [orderChannels EXCEPT ![c] = [oc EXCEPT !.idx = oc.idx + 1]]
        ELSE IF IsSequenced(rel)
          THEN [orderChannels EXCEPT ![c] = [oc EXCEPT !.seq = oc.seq + 1]]
        ELSE orderChannels

InsertFit(len, rel, imm, ch) ==
    LET c  == ChannelOf(ch)
        f  == FitFrame(len, rel, c)
        r1 == IF IsReliable(rel) THEN reliableSeq + 1 ELSE reliableSeq
    IN  /\ rel \notin {"Unreliable", "Reliable"}
        /\ len <= MTU + OVERHEAD
        /\ orderChannels' = FitChannels(rel, c)
        /\ UNCHANGED fragQueue
        /\ \/ /\ imm
              /\ sendSeq' = sendSeq + 1
              /\ reliableSeq' = IF IsReliable(rel) THEN r1 + 1 ELSE r1
              /\ recovery' = FrameStore(recovery, f, sendSeq, r1)
              /\ wire' = wire \cup {FramePk(f, sendSeq, r1)}
              /\ UNCHANGED ready
           \/ /\ ~imm
              /\ ready' = Append(ready, f)
              /\ reliableSeq' = r1
              /\ UNCHANGED <<sendSeq, recovery, wire>>

Insert(len, rel, imm, ch) ==
    /\ nInserts < MaxInserts
    /\ \/ InsertDirect(len, rel)
       \/ InsertSplit(len, rel, ch)
       \/ InsertFit(len, rel, imm, ch)
    /\ nInserts' = nInserts + 1
    /\ UNCHANGED acked

-----------------------------------------------------------------------------
(***************************************************************************)
(* update(): send_frame for every ready frame in order, then retransmit  *)
(* what RecoveryQueue::flush hands back.                                  *)
(***************************************************************************)

(* The number of reliable frames among ready[1..i-1]: each takes one      *)
(* reliable_seq.next() in its send_frame.                                 *)
RelBefore(i) == Cardinality({j \in 1..(i - 1) : IsReliable(ready[j].rel)})

(* Mutant of BatchPk: the batch numbered from send_seq + 1.               *)
BatchPkOffByOne(i) == FramePk(ready[i], sendSeq + i, reliableSeq + RelBefore(i))

BatchPk(i) == FramePk(ready[i], sendSeq + i - 1, reliableSeq + RelBefore(i))

BatchKeys == {reliableSeq + RelBefore(i) + 1 :
                 i \in {j \in 1..Len(ready) : IsReliable(ready[j].rel)}}

BatchKeyPk(k) ==
    BatchPk(CHOOSE i \in 1..Len(ready) :
                IsReliable(ready[i].rel) /\ reliableSeq + RelBefore(i) + 1 = k)

Update ==
    LET q == [k \in DOMAIN recovery \cup BatchKeys |->
                 IF k \in BatchKeys THEN BatchKeyPk(k) ELSE recovery[k]]
    IN  /\ sendSeq' = sendSeq + Len(ready)
        /\ reliableSeq' = reliableSeq + RelBefore(Len(ready) + 1)
        /\ recovery' = q
        /\ ready' = <<>>
        \* the recovery queue's stale entries go out again, unchanged
        /\ \E stale \in SUBSET DOMAIN q :
              wire' = wire \cup {BatchPk(i) : i \in 1..Len(ready)}
                           \cup {q[k] : k \in stale}
        /\ UNCHANGED <<orderChannels, fragQueue, nInserts, acked>>

-----------------------------------------------------------------------------
(***************************************************************************)
(* The peer's acknowledgements, as Ackable for SendQueue handles them.    *)
(* The peer names sequences it was sent; a record is one Single or Range *)
(* (an ACK of several records is these steps one after the other).       *)
(***************************************************************************)
PeerRecords ==
    {Single(s) : s \in IF "single" \in RecordKinds THEN SentSeqs ELSE {}}
      \cup UNION {{RangeRecord(a, b) : b \in {x \in SentSeqs : a < x /\ a..x \subseteq SentSeqs}} :
                   a \in IF "range" \in RecordKinds THEN SentSeqs ELSE {}}

(* ack(): remove every visited sequence from the recovery queue.          *)
Ack(rec) ==
    /\ recovery' = [k \in DOMAIN recovery \ RecordSeqs(rec) |-> recovery[k]]
    /\ acked' = acked \cup (rec.start..rec.end)
    /\ UNCHANGED <<sendSeq, reliableSeq, orderChannels, fragQueue, ready,
                   wire, nInserts>>

(* nack(): the recovery entries under the visited sequences, resent as    *)
(* they were stored.                                                       *)
Nack(rec) ==
    /\ wire' = wire \cup {recovery[k] : k \in RecordSeqs(rec) \cap DOMAIN recovery}
    /\ UNCHANGED <<sendSeq, reliableSeq, recovery, orderChannels, fragQueue,
                   ready, nInserts, acked>>

-----------------------------------------------------------------------------
Next ==
    \/ \E len \in Lengths, rel \in RelInputs, imm \in BOOLEAN,
          ch \in Channels \cup {None} : Insert(len, rel, imm, ch)
    \/ Update
    \/ \E rec \in PeerRecords : Ack(rec) \/ Nack(rec)

(* No fairness: update() is the queue's tick, but nothing in src calls it *)
(* (Connection::do_tick, conn.rs:293, is empty), so no step of the queue *)
(* is scheduled by the code.                                               *)
Spec == Init /\ [][Next]_vars

-----------------------------------------------------------------------------
(***************************************************************************)
(* Refinement: the send queue implements PacketLog.  The log maps each    *)
(* sequence on the wire to the packet sent under it, next is send_seq and *)
(* the wire is what has been emitted.                                      *)
(***************************************************************************)
LogOf == [s \in SentSeqs |-> CHOOSE p \in wire : p.seq = s]

PL == INSTANCE PacketLog WITH Pkts <- Packets, next <- sendSeq, log <- LogOf,
                              emitted <- wire

-----------------------------------------------------------------------------
TypeOK ==
    /\ sendSeq \in Nat
    /\ reliableSeq \in Nat
    /\ DOMAIN recovery \subseteq Nat
    /\ \A k \in DOMAIN recovery : recovery[k] \in Packets
    /\ orderChannels \in [Channels -> [seq : Nat, idx : Nat]]
    /\ fragQueue \in Seq([pid : Nat, count : Nat, ch : Channels, oi : Nat])
    /\ ready \in Seq(Frames)
    /\ wire \subseteq Packets
    /\ nInserts \in Nat
    /\ acked \subseteq Nat

-----------------------------------------------------------------------------
(* The frames carried by the datagrams on the wire.                       *)
WireFrames == UNION {{pk.frames[i] : i \in 1..Len(pk.frames)} : pk \in wire}

(* Retransmission is faithful: whatever path a datagram takes out again   *)
(* (update's recovery flush, a NACK), every two datagrams written under   *)
(* the same FramePacket sequence are the same datagram.  It fails if a    *)
(* path numbers a new packet with a sequence already used, or resends a   *)
(* packet changed after it first went out.                                *)
ResendIdentical ==
    \A p1, p2 \in wire : p1.seq = p2.seq => p1 = p2

(* Two reliable frames of different packets never share a reliable index *)
(* (the peer drops the second as a duplicate), across the immediate,     *)
(* deferred and fragmenting paths of insert and update.                  *)
ReliableIndexUnique ==
    \A p1, p2 \in wire :
        p1.seq # p2.seq =>
            \A i \in 1..Len(p1.frames), j \in 1..Len(p2.frames) :
                p1.frames[i].ri # None => p1.frames[i].ri # p2.frames[j].ri

(* The send queue numbers its FramePackets as PacketLog promises: send_seq *)
(* only grows, every sequence below it names exactly one packet on the    *)
(* wire, with no gaps, and whatever insert, update, or a NACK writes is   *)
(* such a numbered packet.                                                 *)
PacketLogSpec == PL!Spec

(* An ACK releases what it acknowledges: once the peer has ACKed a       *)
(* sequence, no packet with that sequence is held for retransmission     *)
(* (spec 4.4, scenario S2).                                               *)
AckReleasesPacket ==
    \A k \in DOMAIN recovery : recovery[k].seq \notin acked

(* No datagram written to the socket is larger than the MTU (spec 8.7):  *)
(* a buffer too large for one frame must be fragmented first.            *)
DatagramWithinMtu ==
    \A pk \in wire : DatagramSize(pk) <= MTU

(* insert returned Ok for every payload, so each one is either waiting in *)
(* `ready` or has been put on the wire in some frame.                     *)
PayloadTransmitted ==
    \A p \in 0..(nInserts - 1) :
        \/ \E i \in 1..Len(ready) : ready[i].pid = p
        \/ \E f \in WireFrames : f.pid = p

=============================================================================
