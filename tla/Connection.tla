----------------------------- MODULE Connection -----------------------------
(***************************************************************************)
(* One peer's Connection, src/conn.rs, on its own: the steps are send and *)
(* the three branches of recv, each the operator of ConnectionOps applied *)
(* to the connection's fields.  Each call runs under the server's         *)
(* connection-map Mutex, so one call is one atomic step.                   *)
(*                                                                         *)
(* recv of a FramePacket is split at its loop: RecvFramePacket is recv up *)
(* to the loop of handle_frames, and HandleFrame one turn of that loop,  *)
(* on the frames still in loopFrames.  recv holds &mut self (and, in the  *)
(* server, the map's Mutex) until the loop ends, so no other step of the  *)
(* connection runs while loopFrames is non-empty.                         *)
(*                                                                         *)
(* The peer is the environment: it may send any datagram of the small     *)
(* sets of ConnectionOps, at any time and any number of times, so lost,   *)
(* duplicated and reordered datagrams are all among its choices.          *)
(* Outbound datagrams are appended to send_queue; writing them to the     *)
(* socket is the server's sender thread (Server.tla).  do_tick is empty   *)
(* (conn.rs:293-295) and is a stuttering step.                             *)
(***************************************************************************)
EXTENDS ConnectionOps

CONSTANTS
    MaxRecv,       \* bound on datagrams received
    MaxSends       \* bound on send calls

ASSUME BoundsAssumption == MaxRecv \in Nat /\ MaxSends \in Nat

VARIABLES
    state,          \* ConnectionState
    mtu,            \* mtu_size
    sendQueue,      \* send_queue: datagrams waiting for the sender thread
    sendQueueLarge, \* send_queue_large: non-instant sends
    fragmented,     \* FragmentStore: compound -> fragment indices held
    fragmentId,     \* fragment_id (u16)
    sendSeq,        \* send_seq
    ackQ,           \* ack: the AckQueue of sequences received
    nackQ,          \* nack: the NAckQueue
    delivered,      \* the game payloads passed to the recv callback, in order
    received,       \* every FramePacket sequence handle_frames has taken
    crashed,        \* the thread running recv panicked or spins for ever
    loopFrames,     \* the frames handle_frames has still to handle
    nRecv,          \* datagrams received so far
    nSends          \* send calls so far

vars == <<state, mtu, sendQueue, sendQueueLarge, fragmented, fragmentId,
          sendSeq, ackQ, nackQ, delivered, received, crashed, loopFrames,
          nRecv, nSends>>

(* The connection's fields as a record, and a step to the record c.       *)
Conn == [state |-> state, mtu |-> mtu, sendQueue |-> sendQueue,
         sendQueueLarge |-> sendQueueLarge, fragmented |-> fragmented,
         fragmentId |-> fragmentId, sendSeq |-> sendSeq, ackQ |-> ackQ,
         nackQ |-> nackQ, delivered |-> delivered, received |-> received,
         crashed |-> crashed]

Become(c) ==
    /\ state' = c.state /\ mtu' = c.mtu /\ sendQueue' = c.sendQueue
    /\ sendQueueLarge' = c.sendQueueLarge /\ fragmented' = c.fragmented
    /\ fragmentId' = c.fragmentId /\ sendSeq' = c.sendSeq /\ ackQ' = c.ackQ
    /\ nackQ' = c.nackQ /\ delivered' = c.delivered /\ received' = c.received
    /\ crashed' = c.crashed

(* Connection::new.                                                        *)
Init ==
    /\ state = NewConnection.state
    /\ mtu = NewConnection.mtu
    /\ sendQueue = NewConnection.sendQueue
    /\ sendQueueLarge = NewConnection.sendQueueLarge
    /\ fragmented = NewConnection.fragmented
    /\ fragmentId = NewConnection.fragmentId
    /\ sendSeq = NewConnection.sendSeq
    /\ ackQ = NewConnection.ackQ
    /\ nackQ = NewConnection.nackQ
    /\ delivered = NewConnection.delivered
    /\ received = NewConnection.received
    /\ crashed = NewConnection.crashed
    /\ loopFrames = <<>>
    /\ nRecv = 0
    /\ nSends = 0

-----------------------------------------------------------------------------
(***************************************************************************)
(* The operations.  A panic ends every call (the Mutex is poisoned).      *)
(***************************************************************************)

(* send(stream, instant).                                                  *)
Send(instant) ==
    /\ ~crashed
    /\ loopFrames = <<>>
    /\ nSends < MaxSends
    /\ Become(SendOp(Conn, instant))
    /\ nSends' = nSends + 1
    /\ UNCHANGED <<nRecv, loopFrames>>

(* Every branch of recv takes one datagram of the peer.                   *)
Receiving ==
    /\ ~crashed
    /\ loopFrames = <<>>
    /\ nRecv < MaxRecv
    /\ nRecv' = nRecv + 1
    /\ UNCHANGED nSends

(* recv while Disconnected: the offline handler.                          *)
RecvOffline(pk) ==
    /\ Receiving
    /\ state = "Disconnected"
    /\ Become(RecvOfflineOp(Conn, pk))
    /\ UNCHANGED loopFrames

(* recv of an ACK or NACK in any other state.                             *)
RecvAck(seqs) ==
    /\ Receiving
    /\ state # "Disconnected"
    /\ Become(RecvAckOp(Conn, seqs))
    /\ UNCHANGED loopFrames

(* recv of the peer's FramePacket with sequence s in any other state, up *)
(* to the loop over its frames.                                            *)
RecvFramePacket(s) ==
    /\ Receiving
    /\ state # "Disconnected"
    /\ Become(RecvFramePacketOp(Conn, s))
    /\ loopFrames' = PacketOf[s]

(* One turn of the loop of handle_frames, on its next frame.  After a     *)
(* panic the loop never goes on.                                          *)
HandleFrame ==
    /\ ~crashed
    /\ loopFrames # <<>>
    /\ Become(FrameStep(Conn, Head(loopFrames)))
    /\ loopFrames' = Tail(loopFrames)
    /\ UNCHANGED <<nRecv, nSends>>

Next ==
    \/ \E instant \in BOOLEAN : Send(instant)
    \/ \E pk \in OfflineIn : RecvOffline(pk)
    \/ \E seqs \in AckSets : RecvAck(seqs)
    \/ \E s \in Seqs : RecvFramePacket(s)
    \/ HandleFrame

(* recv runs its loop to the end unless it panics: the loop is weakly    *)
(* fair.  Nothing makes the peer send or the application call send.       *)
Spec == Init /\ [][Next]_vars /\ WF_vars(HandleFrame)

-----------------------------------------------------------------------------
(***************************************************************************)
(* Properties.                                                             *)
(***************************************************************************)

(* Every field keeps its type; fragment_id stays a u16 below 65535.       *)
TypeOK ==
    /\ ConnTypeOK(Conn)
    /\ loopFrames \in Seq(Frames)
    /\ nRecv \in 0..MaxRecv /\ nSends \in 0..MaxSends

(* The FramePackets the connection emits, from send and from the replies  *)
(* of handle_full_frame, carry strictly increasing sequences in the order *)
(* they were queued (spec 3: FramePacket.sequence is strictly increasing  *)
(* per connection).                                                        *)
OutSeqsIncrease ==
    \A i, j \in 1..Len(sendQueue) :
        /\ i < j
        /\ sendQueue[i].k = "frame"
        /\ sendQueue[j].k = "frame"
        => sendQueue[i].seq < sendQueue[j].seq

(* An ACK the connection emits from handle_ack names only sequences of   *)
(* FramePackets that handle_frames has received: the peer's ACK records  *)
(* never leak into our AckQueue.                                          *)
AckOnlyReceived ==
    \A i \in 1..Len(sendQueue) :
        sendQueue[i].k = "ack" => sendQueue[i].seqs \subseteq received

(* Dedup (spec 8.2): however often the peer's FramePacket is delivered,   *)
(* the recv callback sees each of its game payloads once.  In the model   *)
(* instances every payload occurs in one FramePacket only.                *)
DeliverOnce ==
    \A i, j \in 1..Len(delivered) : i < j => delivered[i] # delivered[j]

(* A NACK that handle_ack emits names only sequences observed missing:    *)
(* never received, and below some sequence that was (spec 3, NackQueue).  *)
NackNamesMissing ==
    [][\A i \in (Len(sendQueue) + 1)..Len(sendQueue') :
          sendQueue'[i].k = "nack" =>
             \A s \in sendQueue'[i].seqs :
                s \notin received /\ \E r \in received : s < r]_vars

(* No datagram of the peer makes recv panic or loop for ever (spec 7:     *)
(* datagram-level errors never crash the server); here, fragment() on a  *)
(* handshake reply longer than the negotiated MTU.                        *)
RecvNeverPanics == ~crashed

(* Every FramePacket sequence handle_frames pushes to the AckQueue is     *)
(* eventually acknowledged in an ACK datagram (spec 4.5: the tick flushes *)
(* the AckQueue); do_tick does nothing, so the ACK waits for the peer's  *)
(* next datagram.                                                          *)
AckEventuallySent ==
    \A s \in Seqs :
        s \in ackQ ~> \E i \in 1..Len(sendQueue) :
                         sendQueue[i].k = "ack" /\ s \in sendQueue[i].seqs

=============================================================================
