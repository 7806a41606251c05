------------------------- MODULE ConnectionOpsProofs -------------------------
(***************************************************************************)
(* Lemmas about the operations of a connection (ConnectionOps.tla,        *)
(* src/conn.rs) on a connection record: each keeps the record Good, that  *)
(* is well typed, with the FramePackets of its send_queue below send_seq  *)
(* and in increasing order of sequence, and with its ACKs and its         *)
(* AckQueue naming only received sequences.  Connection.tla and           *)
(* Server.tla make these operators their steps, so ConnectionProofs and   *)
(* ServerProofs rest on these lemmas.                                      *)
(*                                                                         *)
(* Good needs two facts beyond the properties the runs check: every       *)
(* queued FramePacket has a sequence below send_seq (so the next one,     *)
(* queued under send_seq, is above all of them), and the AckQueue holds   *)
(* only received sequences (so the ACK that make_ack builds from it does  *)
(* too).                                                                    *)
(***************************************************************************)
EXTENDS ConnectionOps, SequenceTheorems, TLAPS

(* The FramePackets of queue q have sequences below n.                    *)
SeqsBelow(q, n) ==
    \A i \in 1..Len(q) : q[i].k = "frame" => q[i].seq < n

(* The FramePackets of q, in queue order, have strictly increasing        *)
(* sequences.                                                              *)
SeqsIncrease(q) ==
    \A i, j \in 1..Len(q) :
        i < j /\ q[i].k = "frame" /\ q[j].k = "frame" => q[i].seq < q[j].seq

(* The ACKs of q name only sequences of R.                                *)
AcksIn(q, R) ==
    \A i \in 1..Len(q) : q[i].k = "ack" => q[i].seqs \subseteq R

QueueOK(q, n, R) == SeqsBelow(q, n) /\ SeqsIncrease(q) /\ AcksIn(q, R)

(* A connection record that is well typed and whose send_queue is in     *)
(* order with its send_seq and its received set.                          *)
Good(c) ==
    /\ ConnTypeOK(c)
    /\ QueueOK(c.sendQueue, c.sendSeq, c.received)
    /\ c.ackQ \subseteq c.received

-----------------------------------------------------------------------------
(***************************************************************************)
(* Lemmas about send_queue.                                                *)
(***************************************************************************)

(* Appending a datagram keeps the queue in order when a FramePacket is    *)
(* queued under a sequence at or above the bound n of the earlier ones,   *)
(* and an ACK names only sequences of the (possibly larger) set R2.       *)
LEMMA AppendOK ==
    ASSUME NEW q \in Seq(OutDatagrams), NEW x \in OutDatagrams,
           NEW n \in Nat, NEW m \in Nat, NEW R, NEW R2,
           QueueOK(q, n, R), n <= m, R \subseteq R2,
           x.k = "frame" => x.seq >= n /\ x.seq < m,
           x.k = "ack" => x.seqs \subseteq R2
    PROVE  /\ Append(q, x) \in Seq(OutDatagrams)
           /\ QueueOK(Append(q, x), m, R2)
<1>. DEFINE q2 == Append(q, x)
<1>1. /\ q2 \in Seq(OutDatagrams)
      /\ Len(q2) = Len(q) + 1
      /\ \A i \in 1..Len(q) : q2[i] = q[i]
      /\ q2[Len(q) + 1] = x
    BY AppendProperties
<1>2. \A i \in 1..Len(q) : q[i] \in OutDatagrams
    OBVIOUS
<1>3. \A i \in 1..Len(q) : q[i].k = "frame" => q[i].seq \in Nat
    BY <1>2 DEF OutDatagrams
<1>4. x.k = "frame" => x.seq \in Nat
    BY DEF OutDatagrams
<1>5. SeqsBelow(q2, m)
    BY <1>1, <1>3, <1>4 DEF QueueOK, SeqsBelow
<1>6. SeqsIncrease(q2)
    <2>1. SUFFICES ASSUME NEW i \in 1..Len(q2), NEW j \in 1..Len(q2), i < j,
                          q2[i].k = "frame", q2[j].k = "frame"
                   PROVE  q2[i].seq < q2[j].seq
        BY DEF SeqsIncrease
    <2>2. i \in 1..Len(q)
        BY <2>1, <1>1
    <2>3. CASE j \in 1..Len(q)
        BY <2>1, <2>2, <2>3, <1>1 DEF QueueOK, SeqsIncrease
    <2>4. CASE j = Len(q) + 1
        <3>1. q[i].seq < n /\ q[i].seq \in Nat
            BY <2>1, <2>2, <1>1, <1>3 DEF QueueOK, SeqsBelow
        <3>2. x.seq >= n /\ x.seq \in Nat
            BY <2>1, <2>4, <1>1, <1>4
        <3>. QED BY <2>1, <3>1, <3>2, <2>2, <2>4, <1>1
    <2>. QED BY <2>1, <2>3, <2>4, <1>1
<1>7. AcksIn(q2, R2)
    BY <1>1 DEF QueueOK, AcksIn
<1>. QED BY <1>1, <1>5, <1>6, <1>7 DEF QueueOK

(* A larger bound and a larger set keep a queue in order.                 *)
LEMMA QueueOKWeaken ==
    ASSUME NEW q \in Seq(OutDatagrams), NEW n \in Nat, NEW m \in Nat,
           NEW R, NEW R2, QueueOK(q, n, R), n <= m, R \subseteq R2
    PROVE  QueueOK(q, m, R2)
<1>1. \A i \in 1..Len(q) : q[i].k = "frame" => q[i].seq \in Nat
    BY DEF OutDatagrams
<1>. QED BY <1>1 DEF QueueOK, SeqsBelow, AcksIn

(* The two queues handle_ack appends to send_queue: an ACK of the         *)
(* AckQueue aq and a NACK, each only when non-empty.  When aq holds only  *)
(* received sequences the queue stays in order.                           *)
LEMMA AckFlushOK ==
    ASSUME NEW q \in Seq(OutDatagrams), NEW n \in Nat, NEW R,
           NEW aq \in SUBSET Seqs, NEW nq \in SUBSET Seqs, NEW seqs \in SUBSET Seqs,
           QueueOK(q, n, R), aq \subseteq R
    PROVE  /\ AckFlush(q, aq, nq, seqs) \in Seq(OutDatagrams)
           /\ QueueOK(AckFlush(q, aq, nq, seqs), n, R)
<1>. DEFINE nq1 == nq \cup {s \in seqs : s \notin aq}
            q1  == IF aq # {} THEN Append(q, AckOut("ack", aq)) ELSE q
<1>1. q1 \in Seq(OutDatagrams) /\ QueueOK(q1, n, R)
    <2>1. CASE aq # {}
        <3>1. AckOut("ack", aq) \in OutDatagrams
            BY DEF AckOut, OutDatagrams
        <3>. QED BY <2>1, <3>1, AppendOK DEF AckOut
    <2>. QED BY <2>1
<1>2. nq1 \in SUBSET Seqs
    OBVIOUS
<1>3. AckOut("nack", nq1) \in OutDatagrams
    BY <1>2 DEF AckOut, OutDatagrams
<1>4. AckFlush(q, aq, nq, seqs) = IF nq1 # {} THEN Append(q1, AckOut("nack", nq1)) ELSE q1
    BY DEF AckFlush
<1>5. CASE nq1 # {}
    <2>1. (AckOut("nack", nq1)).k = "nack"
        BY DEF AckOut
    <2>2. PICK p \in Seq(OutDatagrams) : p = q1 /\ QueueOK(p, n, R)
        BY <1>1
    <2>3. PICK y \in OutDatagrams : y = AckOut("nack", nq1) /\ y.k = "nack"
        BY <1>3, <2>1
    <2>4. /\ Append(p, y) \in Seq(OutDatagrams)
          /\ QueueOK(Append(p, y), n, R)
        <3>1. y.k # "frame" /\ y.k # "ack" /\ n <= n /\ R \subseteq R
            BY <2>3
        <3>. QED BY <2>2, <3>1, AppendOK
    <2>. QED BY <1>4, <1>5, <2>2, <2>3, <2>4
<1>6. CASE nq1 = {}
    BY <1>1, <1>4, <1>6
<1>. QED BY <1>5, <1>6

-----------------------------------------------------------------------------
(***************************************************************************)
(* Each operation of ConnectionOps keeps a connection record Good.        *)
(***************************************************************************)

(* send queues a FramePacket under send_seq, then advances send_seq.     *)
LEMMA SendOpGood ==
    ASSUME NEW c, Good(c), NEW instant \in BOOLEAN
    PROVE  Good(SendOp(c, instant))
<1>1. CASE instant
    <2>1. FrameOut(c.sendSeq, "user") \in OutDatagrams
        BY DEF Good, ConnTypeOK, FrameOut, OutDatagrams
    <2>2. /\ c.sendQueue \in Seq(OutDatagrams) /\ c.sendSeq \in Nat
          /\ QueueOK(c.sendQueue, c.sendSeq, c.received)
        BY DEF Good, ConnTypeOK
    <2>3. /\ FrameOut(c.sendSeq, "user").k = "frame"
          /\ FrameOut(c.sendSeq, "user").seq = c.sendSeq
        BY DEF FrameOut
    <2>4. /\ Append(c.sendQueue, FrameOut(c.sendSeq, "user")) \in Seq(OutDatagrams)
          /\ QueueOK(Append(c.sendQueue, FrameOut(c.sendSeq, "user")),
                     c.sendSeq + 1, c.received)
        BY <2>1, <2>2, <2>3, AppendOK
    <2>. QED BY <1>1, <2>2, <2>4 DEF Good, ConnTypeOK, SendOp
<1>2. CASE ~instant
    <2>1. Append(c.sendQueueLarge, "user") \in Seq({"user"})
        BY AppendProperties DEF Good, ConnTypeOK
    <2>. QED BY <1>2, <2>1 DEF Good, ConnTypeOK, SendOp
<1>. QED BY <1>1, <1>2

(* handle_offline records the MTU and the state, and queues its reply.   *)
LEMMA RecvOfflineGood ==
    ASSUME NEW c, Good(c), NEW pk \in OfflineIn
    PROVE  Good(RecvOfflineOp(c, pk))
<1>. DEFINE r == [k |-> "offline", seq |-> None, body |-> pk.k, seqs |-> {}]
<1>1. r \in OutDatagrams /\ r.k = "offline"
    BY DEF OfflineIn, OutDatagrams
<1>2. /\ Append(c.sendQueue, r) \in Seq(OutDatagrams)
      /\ QueueOK(Append(c.sendQueue, r), c.sendSeq, c.received)
    BY <1>1, AppendOK DEF Good, ConnTypeOK
<1>3. (IF pk.k = "ping" THEN c.mtu ELSE pk.mtu) \in {0} \cup PeerMtus
    BY DEF Good, ConnTypeOK, OfflineIn
<1>. QED BY <1>2, <1>3 DEF Good, ConnTypeOK, RecvOfflineOp, States

(* handle_ack flushes and empties both queues.                             *)
LEMMA RecvAckGood ==
    ASSUME NEW c, Good(c), NEW seqs \in SUBSET Seqs
    PROVE  Good(RecvAckOp(c, seqs))
<1>1. /\ AckFlush(c.sendQueue, c.ackQ, c.nackQ, seqs) \in Seq(OutDatagrams)
      /\ QueueOK(AckFlush(c.sendQueue, c.ackQ, c.nackQ, seqs), c.sendSeq, c.received)
    BY AckFlushOK DEF Good, ConnTypeOK
<1>. QED BY <1>1 DEF Good, ConnTypeOK, RecvAckOp

(* recv of a FramePacket up to its loop: the flush of the empty ACK, then *)
(* the push of its sequence, which is also received.                      *)
LEMMA RecvFramePacketGood ==
    ASSUME NEW c, Good(c), NEW s \in Seqs
    PROVE  Good(RecvFramePacketOp(c, s))
<1>. DEFINE c0 == RecvAckOp(c, {})
<1>1. Good(c0)
    BY RecvAckGood
<1>2. QueueOK(c0.sendQueue, c0.sendSeq, c0.received \cup {s})
    BY <1>1, QueueOKWeaken DEF Good, ConnTypeOK
<1>. QED BY <1>1, <1>2 DEF Good, ConnTypeOK, RecvFramePacketOp

-----------------------------------------------------------------------------
(***************************************************************************)
(* The turns of the loop of handle_frames.                                 *)
(***************************************************************************)

(* A whole frame: a game payload or an online packet.                     *)
FullFrame(fr) ==
    \/ fr.k = "game" /\ fr.body \in Payloads
    \/ fr.k = "online" /\ fr.body \in OnlineKinds

(* A frame of the peer is whole or a fragment of a known compound.        *)
LEMMA FrameKinds ==
    ASSUME NEW fr \in Frames
    PROVE  \/ FullFrame(fr)
           \/ /\ fr.k = "frag" /\ fr.cid \in Compounds
              /\ fr.idx \in 0..(CompoundSize[fr.cid] - 1)
BY DEF Frames, FullFrame, GameFrame, OnlineFrame, FragFrame

(* A reassembled compound is a whole frame.                                *)
LEMMA WholeFull ==
    ASSUME NEW b \in Payloads \cup OnlineKinds
    PROVE  FullFrame(Whole(b))
BY DEF Whole, FullFrame, GameFrame, OnlineFrame

(* handle_online changes the state only.                                   *)
LEMMA HandleOnlineGood ==
    ASSUME NEW st, Good(st), NEW o \in OnlineKinds
    PROVE  /\ Good(HandleOnline(st, o))
           /\ HandleOnline(st, o).mtu = st.mtu
BY DEF Good, ConnTypeOK, HandleOnline, States

(* fragment changes fragment_id, kept below its wrap point, and may       *)
(* crash.                                                                   *)
LEMMA FragmentGood ==
    ASSUME NEW st, Good(st), NEW len \in Nat
    PROVE  Good(Fragment(st, len))
<1>1. FragIdWrap \in Nat \ {0, 1}
    BY ConnAssumption
<1>2. LET fid == IF st.fragmentId + 1 = FragIdWrap THEN 0 ELSE st.fragmentId
      IN  /\ fid \in 0..(FragIdWrap - 1)
          /\ fid + 1 \in 0..(FragIdWrap - 1)
    BY <1>1 DEF Good, ConnTypeOK
<1>. QED BY <1>2 DEF Good, ConnTypeOK, Fragment

(* handle_full_frame: the callback takes a game payload; an online packet *)
(* goes to handle_online and its reply to fragment or, under send_seq, to  *)
(* send_queue.                                                              *)
LEMMA HandleFullFrameGood ==
    ASSUME NEW st, Good(st), NEW fr, FullFrame(fr)
    PROVE  Good(HandleFullFrame(st, fr))
<1>1. CASE fr.k = "game"
    <2>1. fr.body \in Payloads
        BY <1>1 DEF FullFrame
    <2>2. Append(st.delivered, fr.body) \in Seq(Payloads)
        BY <2>1, AppendProperties DEF Good, ConnTypeOK
    <2>. QED BY <1>1, <2>2 DEF Good, ConnTypeOK, HandleFullFrame
<1>2. CASE fr.k # "game"
    <2>. DEFINE st1 == HandleOnline(st, fr.body)
                len == ReplyLen[fr.body]
                out == FrameOut(st1.sendSeq, fr.body)
    <2>1. fr.body \in OnlineKinds
        BY <1>2 DEF FullFrame
    <2>2. Good(st1) /\ st1.mtu = st.mtu
        BY <2>1, HandleOnlineGood
    <2>3. len \in Nat
        BY <2>1, ConnAssumption
    <2>4. HandleFullFrame(st, fr) =
            IF len = 0 THEN st1
            ELSE IF len > st.mtu THEN Fragment(st1, len)
            ELSE [st1 EXCEPT !.sendQueue = Append(st1.sendQueue, out),
                             !.sendSeq = st1.sendSeq + 1]
        BY <1>2 DEF HandleFullFrame
    <2>5. CASE len # 0 /\ ~(len > st.mtu)
        <3>1. /\ st1.sendQueue \in Seq(OutDatagrams) /\ st1.sendSeq \in Nat
              /\ QueueOK(st1.sendQueue, st1.sendSeq, st1.received)
            BY <2>2 DEF Good, ConnTypeOK
        <3>2. out \in OutDatagrams /\ out.k = "frame" /\ out.seq = st1.sendSeq
            BY <2>1, <3>1 DEF FrameOut, OutDatagrams
        <3>3. /\ Append(st1.sendQueue, out) \in Seq(OutDatagrams)
              /\ QueueOK(Append(st1.sendQueue, out), st1.sendSeq + 1, st1.received)
            <4>1. st1.sendSeq <= st1.sendSeq + 1 /\ st1.received \subseteq st1.received
                BY <3>1
            <4>. QED BY <3>1, <3>2, <4>1, AppendOK
        <3>. QED BY <2>2, <2>4, <2>5, <3>1, <3>3 DEF Good, ConnTypeOK
    <2>. QED BY <2>2, <2>3, <2>4, <2>5, FragmentGood
<1>. QED BY <1>1, <1>2

(* One turn of the loop: a fragment goes to the FragmentStore, a          *)
(* complete compound is handled whole and removed, a whole frame is       *)
(* handled.                                                                  *)
LEMMA FrameStepGood ==
    ASSUME NEW st, Good(st), NEW fr \in Frames
    PROVE  Good(FrameStep(st, fr))
<1>1. CASE fr.k = "frag"
    <2>1. fr.cid \in Compounds /\ fr.idx \in 0..(CompoundSize[fr.cid] - 1)
        BY <1>1, FrameKinds DEF FullFrame
    <2>. DEFINE held  == Held(st.fragmented, fr.cid) \cup {fr.idx}
                store == [c \in DOMAIN st.fragmented \cup {fr.cid} |->
                            IF c = fr.cid THEN held ELSE st.fragmented[c]]
                st1   == [st EXCEPT !.fragmented = store]
                st2   == HandleFullFrame(st1, Whole(CompoundOf[fr.cid]))
    <2>2. held \subseteq 0..(CompoundSize[fr.cid] - 1)
        BY <2>1 DEF Good, ConnTypeOK, Held
    <2>3. Good(st1)
        BY <2>1, <2>2 DEF Good, ConnTypeOK
    <2>4. FrameStep(st, fr) =
            IF held = 0..(CompoundSize[fr.cid] - 1)
              THEN [st2 EXCEPT !.fragmented =
                       [c \in DOMAIN st2.fragmented \ {fr.cid} |-> st2.fragmented[c]]]
              ELSE st1
        BY <1>1 DEF FrameStep
    <2>5. Good(st2)
        <3>1. CompoundOf[fr.cid] \in Payloads \cup OnlineKinds
            BY <2>1, ConnAssumption
        <3>. QED BY <2>3, <3>1, WholeFull, HandleFullFrameGood
    <2>6. Good([st2 EXCEPT !.fragmented =
                  [c \in DOMAIN st2.fragmented \ {fr.cid} |-> st2.fragmented[c]]])
        BY <2>5 DEF Good, ConnTypeOK
    <2>. QED BY <2>3, <2>4, <2>6
<1>2. CASE fr.k # "frag"
    <2>1. FullFrame(fr)
        BY <1>2, FrameKinds
    <2>. QED BY <1>2, <2>1, HandleFullFrameGood DEF FrameStep
<1>. QED BY <1>1, <1>2

(* Connection::new is Good.                                               *)
LEMMA NewConnectionGood == Good(NewConnection)
<1>1. FragIdWrap \in Nat \ {0, 1}
    BY ConnAssumption
<1>. QED BY <1>1 DEF NewConnection, Good, ConnTypeOK, States, QueueOK, SeqsBelow,
                   SeqsIncrease, AcksIn

-----------------------------------------------------------------------------
(***************************************************************************)
(* send_queue only grows, and recv dispatches on the datagram.             *)
(***************************************************************************)

(* The send_queue and send_seq of a Good record.                          *)
LEMMA GoodQueue ==
    ASSUME NEW c, Good(c)
    PROVE  c.sendQueue \in Seq(OutDatagrams) /\ c.sendSeq \in Nat
BY DEF Good, ConnTypeOK

(* The send_queue of d extends that of c.                                  *)
Grows(c, d) == Len(c.sendQueue) <= Len(d.sendQueue)

LEMMA AckFlushGrows ==
    ASSUME NEW q \in Seq(OutDatagrams), NEW aq \in SUBSET Seqs,
           NEW nq \in SUBSET Seqs, NEW seqs \in SUBSET Seqs
    PROVE  Len(q) <= Len(AckFlush(q, aq, nq, seqs))
<1>. DEFINE nq1 == nq \cup {s \in seqs : s \notin aq}
            q1  == IF aq # {} THEN Append(q, AckOut("ack", aq)) ELSE q
<1>1. q1 \in Seq(OutDatagrams) /\ Len(q) <= Len(q1)
    <2>1. AckOut("ack", aq) \in OutDatagrams
        BY DEF AckOut, OutDatagrams
    <2>. QED BY <2>1, AppendProperties
<1>2. AckOut("nack", nq1) \in OutDatagrams
    BY DEF AckOut, OutDatagrams
<1>3. Len(q1) <= Len(IF nq1 # {} THEN Append(q1, AckOut("nack", nq1)) ELSE q1)
    BY <1>1, <1>2, AppendProperties
<1>. QED BY <1>1, <1>3 DEF AckFlush

LEMMA RecvAckGrows ==
    ASSUME NEW c, Good(c), NEW seqs \in SUBSET Seqs
    PROVE  Grows(c, RecvAckOp(c, seqs))
BY AckFlushGrows DEF Good, ConnTypeOK, RecvAckOp, Grows

LEMMA SendOpGrows ==
    ASSUME NEW c, Good(c), NEW instant \in BOOLEAN
    PROVE  Grows(c, SendOp(c, instant))
<1>1. FrameOut(c.sendSeq, "user") \in OutDatagrams
    BY DEF Good, ConnTypeOK, FrameOut, OutDatagrams
<1>. QED BY <1>1, AppendProperties DEF Good, ConnTypeOK, SendOp, Grows

LEMMA HandleFullFrameGrows ==
    ASSUME NEW st, Good(st), NEW fr, FullFrame(fr)
    PROVE  Grows(st, HandleFullFrame(st, fr))
<1>1. CASE fr.k = "game"
    BY <1>1 DEF Good, ConnTypeOK, HandleFullFrame, Grows
<1>2. CASE fr.k # "game"
    <2>. DEFINE st1 == HandleOnline(st, fr.body)
                len == ReplyLen[fr.body]
                out == FrameOut(st1.sendSeq, fr.body)
    <2>1. fr.body \in OnlineKinds
        BY <1>2 DEF FullFrame
    <2>2. Good(st1) /\ st1.sendQueue = st.sendQueue
        BY <2>1, HandleOnlineGood DEF HandleOnline
    <2>3. HandleFullFrame(st, fr) =
            IF len = 0 THEN st1
            ELSE IF len > st.mtu THEN Fragment(st1, len)
            ELSE [st1 EXCEPT !.sendQueue = Append(st1.sendQueue, out),
                             !.sendSeq = st1.sendSeq + 1]
        BY <1>2 DEF HandleFullFrame
    <2>4. Fragment(st1, len).sendQueue = st.sendQueue
        BY <2>2 DEF Good, ConnTypeOK, Fragment
    <2>5. out \in OutDatagrams
        BY <2>1, <2>2 DEF Good, ConnTypeOK, FrameOut, OutDatagrams
    <2>6. Len(st.sendQueue) <= Len(Append(st1.sendQueue, out))
        BY <2>2, <2>5, AppendProperties DEF Good, ConnTypeOK
    <2>. QED BY <2>2, <2>3, <2>4, <2>6 DEF Good, ConnTypeOK, Grows
<1>. QED BY <1>1, <1>2

LEMMA FrameStepGrows ==
    ASSUME NEW st, Good(st), NEW fr \in Frames
    PROVE  Grows(st, FrameStep(st, fr))
<1>1. CASE fr.k = "frag"
    <2>1. fr.cid \in Compounds /\ fr.idx \in 0..(CompoundSize[fr.cid] - 1)
        BY <1>1, FrameKinds DEF FullFrame
    <2>. DEFINE held  == Held(st.fragmented, fr.cid) \cup {fr.idx}
                store == [c \in DOMAIN st.fragmented \cup {fr.cid} |->
                            IF c = fr.cid THEN held ELSE st.fragmented[c]]
                st1   == [st EXCEPT !.fragmented = store]
                st2   == HandleFullFrame(st1, Whole(CompoundOf[fr.cid]))
    <2>2. Good(st1) /\ st1.sendQueue = st.sendQueue
        <3>1. held \subseteq 0..(CompoundSize[fr.cid] - 1)
            BY <2>1 DEF Good, ConnTypeOK, Held
        <3>. QED BY <2>1, <3>1 DEF Good, ConnTypeOK
    <2>3. Grows(st1, st2) /\ Good(st2)
        <3>1. CompoundOf[fr.cid] \in Payloads \cup OnlineKinds
            BY <2>1, ConnAssumption
        <3>. QED BY <2>2, <3>1, WholeFull, HandleFullFrameGrows, HandleFullFrameGood
    <2>4. FrameStep(st, fr) =
            IF held = 0..(CompoundSize[fr.cid] - 1)
              THEN [st2 EXCEPT !.fragmented =
                       [c \in DOMAIN st2.fragmented \ {fr.cid} |-> st2.fragmented[c]]]
              ELSE st1
        BY <1>1 DEF FrameStep
    <2>5. [st2 EXCEPT !.fragmented =
             [c \in DOMAIN st2.fragmented \ {fr.cid} |-> st2.fragmented[c]]].sendQueue
          = st2.sendQueue
        BY <2>3 DEF Good, ConnTypeOK
    <2>6. Len(st.sendQueue) <= Len(st2.sendQueue)
        BY <2>2, <2>3 DEF Grows
    <2>7. Len(st.sendQueue) <= Len(st1.sendQueue)
        BY <2>2, GoodQueue
    <2>. QED BY <2>4, <2>5, <2>6, <2>7 DEF Grows
<1>2. CASE fr.k # "frag"
    <2>1. FullFrame(fr)
        BY <1>2, FrameKinds
    <2>. QED BY <1>2, <2>1, HandleFullFrameGrows DEF FrameStep
<1>. QED BY <1>1, <1>2

LEMMA RecvOfflineGrows ==
    ASSUME NEW c, Good(c), NEW pk \in OfflineIn
    PROVE  Grows(c, RecvOfflineOp(c, pk))
BY AppendProperties DEF Good, ConnTypeOK, RecvOfflineOp, Grows

LEMMA RecvFramePacketGrows ==
    ASSUME NEW c, Good(c), NEW s \in Seqs
    PROVE  Grows(c, RecvFramePacketOp(c, s))
<1>1. Grows(c, RecvAckOp(c, {})) /\ Good(RecvAckOp(c, {}))
    BY RecvAckGrows, RecvAckGood
<1>. QED BY <1>1 DEF Good, ConnTypeOK, RecvFramePacketOp, Grows

(* recv on a datagram the model gives it keeps the record Good, extends  *)
(* its send_queue and leaves frames of the peer to the loop.               *)
LEMMA RecvGood ==
    ASSUME NEW c, Good(c), NEW d \in Inbound, CanRecv(c, d)
    PROVE  /\ Good(Recv(c, d))
           /\ Grows(c, Recv(c, d))
           /\ LoopFrames(c, d) \in Seq(Frames)
<1>1. CASE c.state = "Disconnected"
    <2>1. d.k = "offline" /\ d.pk \in OfflineIn
        BY <1>1 DEF CanRecv, Inbound
    <2>2. Recv(c, d) = RecvOfflineOp(c, d.pk)
        BY <1>1, <2>1 DEF Recv
    <2>3. LoopFrames(c, d) = <<>>
        BY <1>1 DEF LoopFrames
    <2>. QED BY <2>1, <2>2, <2>3, RecvOfflineGood, RecvOfflineGrows
<1>2. CASE c.state # "Disconnected" /\ d.k = "ack"
    <2>1. d.seqs \in SUBSET Seqs
        BY <1>2, ConnAssumption DEF Inbound
    <2>2. Recv(c, d) = RecvAckOp(c, d.seqs)
        BY <1>2 DEF Recv
    <2>3. LoopFrames(c, d) = <<>>
        BY <1>2 DEF LoopFrames
    <2>. QED BY <2>1, <2>2, <2>3, RecvAckGood, RecvAckGrows
<1>3. CASE c.state # "Disconnected" /\ d.k = "frame"
    <2>1. d.s \in Seqs
        BY <1>3 DEF Inbound
    <2>2. Recv(c, d) = RecvFramePacketOp(c, d.s)
        BY <1>3 DEF Recv
    <2>3. LoopFrames(c, d) = PacketOf[d.s] /\ PacketOf[d.s] \in Seq(Frames)
        BY <1>3, <2>1, ConnAssumption DEF LoopFrames
    <2>. QED BY <2>1, <2>2, <2>3, RecvFramePacketGood, RecvFramePacketGrows
<1>4. CASE c.state # "Disconnected" /\ d.k = "offline"
    <2>1. Recv(c, d) = c
        BY <1>4 DEF Recv
    <2>2. LoopFrames(c, d) = <<>>
        BY <1>4 DEF LoopFrames
    <2>. QED BY <2>1, <2>2 DEF Grows
<1>. QED BY <1>1, <1>2, <1>3, <1>4 DEF Inbound

====
