-------------------------- MODULE ConnectionProofs --------------------------
(***************************************************************************)
(* Proofs about one connection (Connection.tla, src/conn.rs): its fields  *)
(* keep their types, the FramePackets it queues carry strictly increasing *)
(* sequences, and the ACKs it queues name only received sequences.  The   *)
(* three hold because every step makes the connection's fields a record  *)
(* that ConnectionOpsProofs shows Good.                                    *)
(***************************************************************************)
EXTENDS Connection, ConnectionOpsProofs, TLAPS

USE BoundsAssumption

(* Become(c) makes the connection's variables the fields of c, so they   *)
(* are Good when c is.                                                      *)
LEMMA BecomeGood ==
    ASSUME NEW c, Good(c), Become(c)
    PROVE  Good(Conn')
<1>1. /\ Conn'.state = c.state /\ Conn'.mtu = c.mtu
      /\ Conn'.sendQueue = c.sendQueue /\ Conn'.sendQueueLarge = c.sendQueueLarge
      /\ Conn'.fragmented = c.fragmented /\ Conn'.fragmentId = c.fragmentId
      /\ Conn'.sendSeq = c.sendSeq /\ Conn'.ackQ = c.ackQ /\ Conn'.nackQ = c.nackQ
      /\ Conn'.delivered = c.delivered /\ Conn'.received = c.received
      /\ Conn'.crashed = c.crashed
    BY DEF Become, Conn
<1>2. DOMAIN Conn' = DOMAIN c
    BY DEF Conn, Good, ConnTypeOK
<1>. QED BY <1>1, <1>2 DEF Good, ConnTypeOK

-----------------------------------------------------------------------------
(***************************************************************************)
(* The invariant of Connection and its theorems.                           *)
(***************************************************************************)

Inv == TypeOK /\ Good(Conn)

LEMMA InitInv == Init => Inv
<1>. SUFFICES ASSUME Init PROVE Inv
    OBVIOUS
<1>1. FragIdWrap \in Nat \ {0, 1}
    BY ConnAssumption
<1>. QED BY <1>1 DEF Init, Inv, TypeOK, Good, Conn, NewConnection, ConnTypeOK, States,
                   QueueOK, SeqsBelow, SeqsIncrease, AcksIn

(* The counters and loopFrames after a step that keeps the connection    *)
(* record Good.                                                            *)
LEMMA StepInv ==
    ASSUME NEW c, Inv, Good(c), Become(c),
           loopFrames' \in Seq(Frames), nRecv' \in 0..MaxRecv, nSends' \in 0..MaxSends
    PROVE  Inv'
BY BecomeGood DEF Inv, TypeOK, Good

LEMMA NextInv == Inv /\ [Next]_vars => Inv'
<1>. SUFFICES ASSUME Inv, [Next]_vars PROVE Inv'
    OBVIOUS
<1>1. Good(Conn) /\ nRecv \in 0..MaxRecv /\ nSends \in 0..MaxSends
      /\ loopFrames \in Seq(Frames)
    BY DEF Inv, TypeOK
<1>2. ASSUME NEW instant \in BOOLEAN, Send(instant) PROVE Inv'
    <2>1. Good(SendOp(Conn, instant))
        BY <1>1, SendOpGood
    <2>. QED BY <1>1, <1>2, <2>1, StepInv DEF Send
<1>3. ASSUME NEW pk \in OfflineIn, RecvOffline(pk) PROVE Inv'
    <2>1. Good(RecvOfflineOp(Conn, pk))
        BY <1>1, RecvOfflineGood
    <2>. QED BY <1>1, <1>3, <2>1, StepInv DEF RecvOffline, Receiving
<1>4. ASSUME NEW seqs \in AckSets, RecvAck(seqs) PROVE Inv'
    <2>1. seqs \in SUBSET Seqs
        BY ConnAssumption
    <2>2. Good(RecvAckOp(Conn, seqs))
        BY <1>1, <2>1, RecvAckGood
    <2>. QED BY <1>1, <1>4, <2>2, StepInv DEF RecvAck, Receiving
<1>5. ASSUME NEW s \in Seqs, RecvFramePacket(s) PROVE Inv'
    <2>1. PacketOf[s] \in Seq(Frames)
        BY ConnAssumption
    <2>2. Good(RecvFramePacketOp(Conn, s))
        BY <1>1, RecvFramePacketGood
    <2>. QED BY <1>1, <1>5, <2>1, <2>2, StepInv DEF RecvFramePacket, Receiving
<1>6. ASSUME HandleFrame PROVE Inv'
    <2>1. loopFrames # <<>>
        BY <1>6 DEF HandleFrame
    <2>2. Head(loopFrames) \in Frames /\ Tail(loopFrames) \in Seq(Frames)
        BY <1>1, <2>1, HeadTailProperties
    <2>3. Good(FrameStep(Conn, Head(loopFrames)))
        BY <1>1, <2>2, FrameStepGood
    <2>. QED BY <1>1, <1>6, <2>2, <2>3, StepInv DEF HandleFrame
<1>7. CASE UNCHANGED vars
    <2>1. Become(Conn)
        BY <1>7 DEF vars, Become, Conn
    <2>. QED BY <1>1, <1>7, <2>1, StepInv DEF vars
<1>. QED BY <1>2, <1>3, <1>4, <1>5, <1>6, <1>7 DEF Next

(* Every field of the connection keeps its type along every run: in      *)
(* particular fragment() keeps fragment_id below its wrap point 65535    *)
(* (conn.rs:303), and the frames the loop of handle_frames has left are  *)
(* frames of the peer's packet.                                            *)
THEOREM TypeCorrect == Spec => []TypeOK
<1>1. Inv => TypeOK
    BY DEF Inv
<1>. QED BY InitInv, NextInv, <1>1, PTL DEF Spec

(* The FramePackets that send and the replies of handle_full_frame queue  *)
(* carry strictly increasing sequences, in queue order: both take         *)
(* send_seq and advance it, and a turn of the loop sees the send_seq the *)
(* last turn left.                                                          *)
THEOREM OutSeqsIncreaseHolds == Spec => []OutSeqsIncrease
<1>1. Inv => OutSeqsIncrease
    BY DEF Inv, Good, QueueOK, SeqsIncrease, OutSeqsIncrease, Conn
<1>. QED BY InitInv, NextInv, <1>1, PTL DEF Spec

(* The ACKs handle_ack queues name only sequences handle_frames has      *)
(* received: make_ack empties the AckQueue, and only handle_frames pushes *)
(* to it, with a sequence it records as received.                          *)
THEOREM AckOnlyReceivedHolds == Spec => []AckOnlyReceived
<1>1. Inv => AckOnlyReceived
    BY DEF Inv, Good, QueueOK, AcksIn, AckOnlyReceived, Conn
<1>. QED BY InitInv, NextInv, <1>1, PTL DEF Spec

====
