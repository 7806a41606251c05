----------------------------- MODULE ConnectionOps ---------------------------
(***************************************************************************)
(* The operations of a Connection, src/conn.rs, as operators on a record  *)
(* of its fields: send, recv with its three branches, and what recv calls *)
(* (handle_ack, handle_frames, handle_full_frame, fragment).  Connection  *)
(* makes them the steps of one connection; Server applies them to the    *)
(* connections of its map.                                                 *)
(*                                                                         *)
(* The handlers this file calls but that are not in src/ (handle_offline, *)
(* handle_online, AckQueue, NAckQueue, FragmentStore) are modelled from   *)
(* the spec's description of them.                                        *)
(***************************************************************************)
EXTENDS Naturals, FiniteSets, Sequences

CONSTANTS
    Seqs,          \* FramePacket sequences the peer uses
    AckSets,       \* the sequence sets the peer's ACKs and NACKs name
    Payloads,      \* game payloads (GamePacket 0xfe) the peer sends
    Compounds,     \* fragment ids the peer uses
    CompoundOf,    \* the payload each compound reassembles to
    CompoundSize,  \* the number of fragments of each compound
    PeerMtus,      \* MTUs a client may propose in Open Connection Request 1/2
    ReplyLen,      \* handle_online: reply length per online packet kind
    PacketOf,      \* the frames of the peer's FramePacket with each sequence
    FragIdWrap,    \* 65535, the fragment_id reset point (conn.rs:303)
    None

OnlineKinds == {"ConnectionRequest", "NewIncomingConnection", "ConnectedPing",
                "Disconnect"}

States == {"Connecting", "Connected", "Disconnected", "Offline"}

(* A frame of the peer: a whole game payload, a whole online packet, or   *)
(* fragment idx of a compound (fragment_info present).                    *)
GameFrame(p) == [k |-> "game", body |-> p]
OnlineFrame(o) == [k |-> "online", body |-> o]
FragFrame(c, i) == [k |-> "frag", cid |-> c, idx |-> i]

Frames == {GameFrame(p) : p \in Payloads} \cup {OnlineFrame(o) : o \in OnlineKinds}
            \cup UNION {{FragFrame(c, i) : i \in 0..(CompoundSize[c] - 1)} : c \in Compounds}

(* The payload a frame delivers once whole.                               *)
Whole(b) == IF b \in Payloads THEN GameFrame(b) ELSE OnlineFrame(b)

ASSUME ConnAssumption ==
    /\ Seqs \subseteq Nat /\ AckSets \subseteq SUBSET Seqs /\ PeerMtus \subseteq Nat \ {0}
    /\ CompoundOf \in [Compounds -> Payloads \cup OnlineKinds]
    /\ CompoundSize \in [Compounds -> Nat \ {0}]
    /\ ReplyLen \in [OnlineKinds -> Nat]
    /\ PacketOf \in [Seqs -> Seq(Frames)]
    /\ FragIdWrap \in Nat \ {0, 1}

(* Offline packets (Unconnected Ping, Open Connection Request 1 and 2),  *)
(* the last two with the client's MTU.                                    *)
OfflineIn == {[k |-> "ping", mtu |-> 0]}
               \cup {[k |-> k, mtu |-> m] : k \in {"ocr1", "ocr2"}, m \in PeerMtus}

(* An outbound datagram in send_queue: an offline reply, a FramePacket    *)
(* with one frame, or an ACK/NACK naming a set of sequences.              *)
OutDatagrams ==
    [k : {"offline"}, seq : {None}, body : {"ping", "ocr1", "ocr2"}, seqs : {{}}]
      \cup [k : {"frame"}, seq : Nat, body : Payloads \cup OnlineKinds \cup {"user"},
            seqs : {{}}]
      \cup [k : {"ack", "nack"}, seq : {None}, body : {None}, seqs : SUBSET Seqs]


(* The type of a connection record: the fields of Connection that change. *)
ConnTypeOK(c) ==
    /\ DOMAIN c = {"state", "mtu", "sendQueue", "sendQueueLarge", "fragmented",
                   "fragmentId", "sendSeq", "ackQ", "nackQ", "delivered",
                   "received", "crashed"}
    /\ c.state \in States
    /\ c.mtu \in {0} \cup PeerMtus
    /\ c.sendQueue \in Seq(OutDatagrams)
    /\ c.sendQueueLarge \in Seq({"user"})
    /\ DOMAIN c.fragmented \subseteq Compounds
    /\ \A k \in DOMAIN c.fragmented : c.fragmented[k] \subseteq 0..(CompoundSize[k] - 1)
    /\ c.fragmentId \in 0..(FragIdWrap - 1)
    /\ c.sendSeq \in Nat
    /\ c.ackQ \subseteq Seqs /\ c.nackQ \subseteq Seqs /\ c.received \subseteq Seqs
    /\ c.delivered \in Seq(Payloads)
    /\ c.crashed \in BOOLEAN

(* Connection::new: the state starts Disconnected, the MTU 0.             *)
NewConnection ==
    [state |-> "Disconnected", mtu |-> 0, sendQueue |-> <<>>,
     sendQueueLarge |-> <<>>, fragmented |-> [c \in {} |-> {}], fragmentId |-> 0,
     sendSeq |-> 0, ackQ |-> {}, nackQ |-> {}, delivered |-> <<>>,
     received |-> {}, crashed |-> FALSE]

FrameOut(s, b) == [k |-> "frame", seq |-> s, body |-> b, seqs |-> {}]
AckOut(k, S) == [k |-> k, seq |-> None, body |-> None, seqs |-> S]

-----------------------------------------------------------------------------
(***************************************************************************)
(* The handlers called within one recv, as operators on the connection   *)
(* record st, which handle_frames threads through its loop over frames.   *)
(***************************************************************************)

(* handle_online (not in src/; spec 4.2): New Incoming Connection makes   *)
(* the connection Connected, Disconnect makes it Disconnected; the reply, *)
(* if any, has length ReplyLen[o].                                        *)
HandleOnline(st, o) ==
    CASE o = "NewIncomingConnection" -> [st EXCEPT !.state = "Connected"]
      [] o = "Disconnect"            -> [st EXCEPT !.state = "Disconnected"]
      [] OTHER                       -> st

(* fragment(stream): fragment_id is reset when the next id would be 65535 *)
(* and advanced at the end.  The loop subtracts mtu_size from the offset  *)
(* without ever advancing the stream, so it ends only when mtu_size       *)
(* divides the length; otherwise the usize subtraction underflows: a      *)
(* panic in a debug build, an endless loop holding the lock in a release  *)
(* build.  The fragments it builds are dropped (the push is commented    *)
(* out), so the reply is lost either way.                                 *)
(* Mutant of Fragment: no reset of fragment_id at 65535.                  *)
FragmentNoReset(st, len) ==
    LET fid == st.fragmentId
    IN  IF st.mtu # 0 /\ len % st.mtu = 0
          THEN [st EXCEPT !.fragmentId = fid + 1]
          ELSE [st EXCEPT !.fragmentId = fid, !.crashed = TRUE]

Fragment(st, len) ==
    LET fid == IF st.fragmentId + 1 = FragIdWrap THEN 0 ELSE st.fragmentId
    IN  IF st.mtu # 0 /\ len % st.mtu = 0
          THEN [st EXCEPT !.fragmentId = fid + 1]
          ELSE [st EXCEPT !.fragmentId = fid, !.crashed = TRUE]

(* Mutant of HandleFullFrame: the reply reuses send_seq without the      *)
(* increment.                                                             *)
HandleFullFrameNoInc(st, fr) ==
    IF fr.k = "game"
      THEN [st EXCEPT !.delivered = Append(st.delivered, fr.body)]
      ELSE LET st1 == HandleOnline(st, fr.body)
               len == ReplyLen[fr.body]
           IN  IF len = 0 THEN st1
               ELSE IF len > st.mtu THEN Fragment(st1, len)
               ELSE [st1 EXCEPT !.sendQueue = Append(st1.sendQueue,
                                                      FrameOut(st1.sendSeq, fr.body))]

(* handle_full_frame: a GamePacket goes to the recv callback; any other  *)
(* online packet to handle_online, whose non-empty reply is fragmented if *)
(* longer than mtu_size and otherwise queued as an Unreliable frame under *)
(* send_seq, which then advances.                                         *)
HandleFullFrame(st, fr) ==
    IF fr.k = "game"
      THEN [st EXCEPT !.delivered = Append(st.delivered, fr.body)]
      ELSE LET st1 == HandleOnline(st, fr.body)
               len == ReplyLen[fr.body]
           IN  IF len = 0 THEN st1
               ELSE IF len > st.mtu THEN Fragment(st1, len)
               ELSE [st1 EXCEPT !.sendQueue = Append(st1.sendQueue,
                                                      FrameOut(st1.sendSeq, fr.body)),
                                !.sendSeq = st1.sendSeq + 1]

(* The fragment indices the store holds for compound c.                   *)
Held(store, c) == IF c \in DOMAIN store THEN store[c] ELSE {}

(* One turn of the loop of handle_frames.  A fragment is added to the    *)
(* FragmentStore; when its compound is complete (reassemble_frame is     *)
(* Some) the whole frame is handled and the compound removed.  A panic   *)
(* ends the loop: the steps that take a turn require ~st.crashed.         *)
FrameStep(st, fr) ==
    IF fr.k = "frag"
      THEN LET held  == Held(st.fragmented, fr.cid) \cup {fr.idx}
               store == [c \in DOMAIN st.fragmented \cup {fr.cid} |->
                            IF c = fr.cid THEN held ELSE st.fragmented[c]]
               st1   == [st EXCEPT !.fragmented = store]
           IN  IF held = 0..(CompoundSize[fr.cid] - 1)
                 THEN LET st2 == HandleFullFrame(st1, Whole(CompoundOf[fr.cid]))
                      IN  [st2 EXCEPT !.fragmented =
                              [c \in DOMAIN st2.fragmented \ {fr.cid} |-> st2.fragmented[c]]]
                 ELSE st1
    ELSE HandleFullFrame(st, fr)

(* handle_ack on a received ACK/NACK naming the sequences seqs: every one *)
(* not in the AckQueue is pushed to the NAckQueue; then a non-empty       *)
(* AckQueue is emitted as an ACK and a non-empty NAckQueue as a NACK,     *)
(* each emptied by make_ack / make_nack (spec 4.4).                       *)
(* Mutant of AckFlush: the peer's records pushed to the AckQueue.         *)
AckFlushIntoAck(q, aq, nq, seqs) ==
    LET aq1 == aq \cup seqs
        q1  == IF aq1 # {} THEN Append(q, AckOut("ack", aq1)) ELSE q
    IN  IF nq # {} THEN Append(q1, AckOut("nack", nq)) ELSE q1

AckFlush(q, aq, nq, seqs) ==
    LET nq1 == nq \cup {s \in seqs : s \notin aq}
        q1  == IF aq # {} THEN Append(q, AckOut("ack", aq)) ELSE q
    IN  IF nq1 # {} THEN Append(q1, AckOut("nack", nq1)) ELSE q1

-----------------------------------------------------------------------------
(***************************************************************************)
(* The entry points, on a connection record c.                            *)
(***************************************************************************)

(* send(stream, instant): an instant send queues a FramePacket with one   *)
(* Unreliable frame under next_send_seq(); any other is pushed to         *)
(* send_queue_large, which nothing ever drains.                           *)
SendOp(c, instant) ==
    IF instant
      THEN [c EXCEPT !.sendQueue = Append(c.sendQueue, FrameOut(c.sendSeq, "user")),
                     !.sendSeq = c.sendSeq + 1]
      ELSE [c EXCEPT !.sendQueueLarge = Append(c.sendQueueLarge, "user")]

(* recv while Disconnected: handle_offline (not in src/; spec 4.2) records *)
(* the MTU of Open Connection Request 1, and that of Request 2 with the   *)
(* move to Connecting; its reply is pushed to send_queue.                 *)
RecvOfflineOp(c, pk) ==
    [c EXCEPT !.sendQueue = Append(c.sendQueue, [k |-> "offline", seq |-> None,
                                                  body |-> pk.k, seqs |-> {}]),
              !.mtu = IF pk.k = "ping" THEN c.mtu ELSE pk.mtu,
              !.state = IF pk.k = "ocr2" THEN "Connecting" ELSE c.state]

(* recv of an ACK or NACK naming the sequences seqs: handle_ack, which   *)
(* flushes and empties both queues.                                       *)
RecvAckOp(c, seqs) ==
    [c EXCEPT !.sendQueue = AckFlush(c.sendQueue, c.ackQ, c.nackQ, seqs),
              !.ackQ = {}, !.nackQ = {}]

(* recv of the peer's FramePacket with sequence s, up to the loop of     *)
(* handle_frames: first the handle_ack of an empty ACK (the "hack" of     *)
(* conn.rs:157-159), which flushes both queues, then the push of s to the *)
(* AckQueue, with no duplicate check.  The loop then handles the frames  *)
(* of PacketOf[s] in order, one FrameStep per turn, still within recv.    *)
RecvFramePacketOp(c, s) ==
    LET c0 == RecvAckOp(c, {})
    IN  [c0 EXCEPT !.ackQ = {s}, !.received = c0.received \cup {s}]

(* A datagram of the peer: an offline packet, an ACK/NACK, a FramePacket. *)
Inbound ==
    [k : {"offline"}, pk : OfflineIn] \cup [k : {"ack"}, seqs : AckSets]
      \cup [k : {"frame"}, s : Seqs]

(* The datagrams modelled in each state: a Disconnected connection passes *)
(* everything to handle_offline, which is modelled for offline packets   *)
(* only.                                                                   *)
CanRecv(c, d) == c.state = "Disconnected" => d.k = "offline"

(* recv: the offline handler while Disconnected; otherwise ACK/NACK to    *)
(* handle_ack, a FramePacket to handle_frames, and any other packet (an   *)
(* offline one included) is ignored.                                      *)
Recv(c, d) ==
    CASE c.state = "Disconnected" -> RecvOfflineOp(c, d.pk)
      [] d.k = "ack"              -> RecvAckOp(c, d.seqs)
      [] d.k = "frame"            -> RecvFramePacketOp(c, d.s)
      [] OTHER                    -> c

(* The frames whose loop recv(c, d) goes on to run: those of a FramePacket *)
(* received outside the Disconnected state, none otherwise.              *)
LoopFrames(c, d) ==
    IF c.state # "Disconnected" /\ d.k = "frame" THEN PacketOf[d.s] ELSE <<>>

=============================================================================
