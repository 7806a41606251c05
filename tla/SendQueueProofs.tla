-------------------------- MODULE SendQueueProofs --------------------------
(***************************************************************************)
(* Proofs about SendQueue that hold for every value of the constants.     *)
(***************************************************************************)
EXTENDS SendQueue, FiniteSetTheorems, TLAPS

USE ConstAssumption, RelInputsAssumption

(* The recovery queue is a map from natural keys to packets.              *)
RecoveryOK(q) == DOMAIN q \subseteq Nat /\ \A k \in DOMAIN q : q[k] \in Packets

-----------------------------------------------------------------------------
(* Lemmas about the operators the model is built from.                    *)

LEMMA RelBeforeNat ==
    ASSUME NEW i \in Nat
    PROVE  RelBefore(i) \in Nat
<1>1. IsFiniteSet(1..(i - 1))
    BY FS_Interval
<1>2. IsFiniteSet({j \in 1..(i - 1) : IsReliable(ready[j].rel)})
    BY <1>1, FS_Subset
<1>. QED
    BY <1>2, FS_CardinalityType DEF RelBefore

LEMMA FrameSetRi ==
    ASSUME NEW f \in Frames, NEW a \in Nat
    PROVE  [f EXCEPT !.ri = a] \in Frames
BY DEF Frames, Index

LEMMA FrameSetOiSi ==
    ASSUME NEW f \in Frames, NEW a \in Nat, NEW b \in Nat
    PROVE  [f EXCEPT !.oi = a, !.si = b] \in Frames
<1>1. [f EXCEPT !.oi = a] \in Frames
    BY DEF Frames, Index
<1>2. [[f EXCEPT !.oi = a] EXCEPT !.si = b] \in Frames
    BY <1>1 DEF Frames, Index
<1>. QED
    BY <1>2, Zenon

LEMMA FramePkType ==
    ASSUME NEW f \in Frames, NEW s \in Nat, NEW r \in Nat
    PROVE  FramePk(f, s, r) \in Packets
<1>. DEFINE g == IF IsReliable(f.rel) THEN [f EXCEPT !.ri = r] ELSE f
<1>1. g \in Frames
    <2>1. CASE IsReliable(f.rel)
        BY <2>1, FrameSetRi
    <2>2. CASE ~IsReliable(f.rel)
        BY <2>2
    <2>. QED
        BY <2>1, <2>2
<1>2. <<g>> \in Seq(Frames)
    BY <1>1
<1>3. f.rel \in Reliabilities
    BY DEF Frames
<1>. QED
    BY <1>2, <1>3 DEF FramePk, Packets

LEMMA StoreAtType ==
    ASSUME NEW q, RecoveryOK(q), NEW k \in Nat, NEW pk \in Packets
    PROVE  RecoveryOK(StoreAt(q, k, pk))
BY DEF RecoveryOK, StoreAt

LEMMA FrameStoreType ==
    ASSUME NEW q, RecoveryOK(q), NEW f \in Frames, NEW s \in Nat, NEW r \in Nat
    PROVE  RecoveryOK(FrameStore(q, f, s, r))
BY FramePkType, StoreAtType DEF FrameStore

LEMMA NewFrameType ==
    ASSUME NEW r \in Reliabilities, NEW p \in Nat, NEW len \in Nat
    PROVE  NewFrame(r, p, len) \in Frames
BY DEF NewFrame, Frames, Index

-----------------------------------------------------------------------------
(* Each action keeps the types.                                           *)

LEMMA InsertDirectType ==
    ASSUME TypeOK, NEW len \in Lengths, NEW rel \in RelInputs,
           InsertDirect(len, rel)
    PROVE  /\ sendSeq' \in Nat /\ reliableSeq' \in Nat
           /\ RecoveryOK(recovery') /\ wire' \subseteq Packets
           /\ orderChannels' = orderChannels /\ fragQueue' = fragQueue
           /\ ready' = ready
<1>1. NewFrame(rel, nInserts, len) \in Frames
    BY NewFrameType DEF TypeOK
<1>2. RecoveryOK(recovery)
    BY DEF TypeOK, RecoveryOK
<1>. QED
    BY <1>1, <1>2, FrameStoreType, FramePkType DEF InsertDirect, TypeOK

LEMMA InsertSplitType ==
    ASSUME TypeOK, NEW len \in Lengths, NEW rel \in RelInputs,
           NEW ch \in Channels \cup {None}, InsertSplit(len, rel, ch)
    PROVE  /\ sendSeq' \in Nat /\ reliableSeq' \in Nat
           /\ RecoveryOK(recovery') /\ wire' \subseteq Packets
           /\ orderChannels' \in [Channels -> [seq : Nat, idx : Nat]]
           /\ fragQueue' \in Seq([pid : Nat, count : Nat, ch : Channels, oi : Nat])
           /\ ready' = ready
<1>. DEFINE c == ChannelOf(ch)
            n == (len + MTU - 1) \div MTU
            pk == [seq |-> sendSeq, rel |-> rel, frames |-> <<>>]
<1>1. c \in Channels
    BY DEF ChannelOf
<1>2. n \in Nat
    OBVIOUS
<1>3. pk \in Packets
    BY DEF Packets, TypeOK
<1>4. RecoveryOK(recovery)
    BY DEF TypeOK, RecoveryOK
<1>5. RecoveryOK(recovery')
    <2>1. recovery' = StoreAt(recovery, sendSeq, pk)
        BY DEF InsertSplit
    <2>. QED
        BY <1>3, <1>4, <2>1, StoreAtType DEF TypeOK
<1>6. orderChannels[c] \in [seq : Nat, idx : Nat]
    BY <1>1, Zenon DEF TypeOK
<1>7. fragQueue' \in Seq([pid : Nat, count : Nat, ch : Channels, oi : Nat])
    <2>. DEFINE cmp == [pid |-> nInserts, count |-> n, ch |-> c,
                        oi |-> orderChannels[c].idx + 1]
    <2>1. fragQueue' = Append(fragQueue, cmp)
        BY DEF InsertSplit
    <2>2. cmp \in [pid : Nat, count : Nat, ch : Channels, oi : Nat]
        BY <1>1, <1>2, <1>6 DEF TypeOK
    <2>. QED
        BY <2>1, <2>2 DEF TypeOK
<1>8. orderChannels' \in [Channels -> [seq : Nat, idx : Nat]]
    <2>1. orderChannels' = [orderChannels EXCEPT ![c] =
              [seq |-> orderChannels[c].seq + 1, idx |-> orderChannels[c].idx + 1]]
        BY DEF InsertSplit
    <2>. QED
        BY <1>1, <1>6, <2>1 DEF TypeOK
<1>9. wire' \subseteq Packets
    BY <1>3 DEF InsertSplit, TypeOK
<1>10. sendSeq' \in Nat /\ reliableSeq' \in Nat /\ ready' = ready
    BY <1>2 DEF InsertSplit, TypeOK
<1>. QED
    BY <1>5, <1>7, <1>8, <1>9, <1>10

LEMMA FitFrameType ==
    ASSUME TypeOK, NEW len \in Lengths, NEW rel \in RelInputs, NEW c \in Channels
    PROVE  FitFrame(len, rel, c) \in Frames
<1>. DEFINE base == NewFrame(rel, nInserts, len)
            withRi == IF IsReliable(rel) THEN [base EXCEPT !.ri = reliableSeq]
                                         ELSE base
            oc == orderChannels[c]
<1>0. reliableSeq \in Nat /\ sendSeq \in Nat /\ nInserts \in Nat
    BY DEF TypeOK
<1>1. base \in Frames
    BY <1>0, NewFrameType
<1>2. withRi \in Frames
    <2>1. CASE IsReliable(rel)
        BY <1>0, <1>1, <2>1, FrameSetRi
    <2>2. CASE ~IsReliable(rel)
        BY <1>1, <2>2
    <2>. QED
        BY <2>1, <2>2
<1>3. oc \in [seq : Nat, idx : Nat]
    BY Zenon DEF TypeOK
<1>4. CASE IsOrdered(rel)
    <2>1. FitFrame(len, rel, c) = [withRi EXCEPT !.oi = oc.idx + 1, !.si = sendSeq]
        BY <1>4 DEF FitFrame
    <2>2. oc.idx + 1 \in Nat
        BY <1>3
    <2>3. [withRi EXCEPT !.oi = oc.idx + 1, !.si = sendSeq] \in Frames
        BY <1>0, <1>2, <2>2, FrameSetOiSi
    <2>. QED
        BY <2>1, <2>3
<1>5. CASE ~IsOrdered(rel) /\ IsSequenced(rel)
    <2>1. FitFrame(len, rel, c) = [withRi EXCEPT !.oi = oc.idx, !.si = oc.seq + 1]
        BY <1>5 DEF FitFrame
    <2>2. oc.idx \in Nat /\ oc.seq + 1 \in Nat
        BY <1>3
    <2>3. [withRi EXCEPT !.oi = oc.idx, !.si = oc.seq + 1] \in Frames
        BY <1>2, <2>2, FrameSetOiSi
    <2>. QED
        BY <2>1, <2>3
<1>6. CASE ~IsOrdered(rel) /\ ~IsSequenced(rel)
    BY <1>2, <1>6 DEF FitFrame
<1>. QED
    BY <1>4, <1>5, <1>6

LEMMA FitChannelsType ==
    ASSUME TypeOK, NEW rel, NEW c \in Channels
    PROVE  FitChannels(rel, c) \in [Channels -> [seq : Nat, idx : Nat]]
<1>. DEFINE oc == orderChannels[c]
<1>1. orderChannels \in [Channels -> [seq : Nat, idx : Nat]]
    BY DEF TypeOK
<1>2. oc \in [seq : Nat, idx : Nat]
    BY <1>1, Zenon
<1>3. CASE IsOrdered(rel)
    <2>1. [oc EXCEPT !.idx = oc.idx + 1] \in [seq : Nat, idx : Nat]
        BY <1>2
    <2>. QED
        BY <1>1, <1>3, <2>1 DEF FitChannels
<1>4. CASE ~IsOrdered(rel) /\ IsSequenced(rel)
    <2>1. [oc EXCEPT !.seq = oc.seq + 1] \in [seq : Nat, idx : Nat]
        BY <1>2
    <2>. QED
        BY <1>1, <1>4, <2>1 DEF FitChannels
<1>5. CASE ~IsOrdered(rel) /\ ~IsSequenced(rel)
    BY <1>1, <1>5 DEF FitChannels
<1>. QED
    BY <1>3, <1>4, <1>5

LEMMA InsertFitType ==
    ASSUME TypeOK, NEW len \in Lengths, NEW rel \in RelInputs,
           NEW imm \in BOOLEAN, NEW ch \in Channels \cup {None},
           InsertFit(len, rel, imm, ch)
    PROVE  /\ sendSeq' \in Nat /\ reliableSeq' \in Nat
           /\ RecoveryOK(recovery') /\ wire' \subseteq Packets
           /\ orderChannels' \in [Channels -> [seq : Nat, idx : Nat]]
           /\ fragQueue' = fragQueue
           /\ ready' \in Seq(Frames)
<1>. DEFINE c == ChannelOf(ch)
            f == FitFrame(len, rel, c)
            r1 == IF IsReliable(rel) THEN reliableSeq + 1 ELSE reliableSeq
<1>1. c \in Channels
    BY DEF ChannelOf
<1>2. f \in Frames
    BY <1>1, FitFrameType
<1>3. r1 \in Nat /\ sendSeq \in Nat
    BY DEF TypeOK
<1>4. orderChannels' \in [Channels -> [seq : Nat, idx : Nat]]
    <2>1. orderChannels' = FitChannels(rel, c)
        BY DEF InsertFit
    <2>. QED
        BY <1>1, <2>1, FitChannelsType
<1>5. RecoveryOK(recovery) /\ wire \subseteq Packets /\ ready \in Seq(Frames)
    BY DEF TypeOK, RecoveryOK
<1>6. fragQueue' = fragQueue
    BY DEF InsertFit
<1>7. CASE imm
    <2>1. /\ sendSeq' = sendSeq + 1
          /\ reliableSeq' = IF IsReliable(rel) THEN r1 + 1 ELSE r1
          /\ recovery' = FrameStore(recovery, f, sendSeq, r1)
          /\ wire' = wire \cup {FramePk(f, sendSeq, r1)}
          /\ ready' = ready
        BY <1>7 DEF InsertFit
    <2>2. RecoveryOK(recovery')
        BY <1>2, <1>3, <1>5, <2>1, FrameStoreType
    <2>3. wire' \subseteq Packets
        BY <1>2, <1>3, <1>5, <2>1, FramePkType
    <2>. QED
        BY <1>3, <1>4, <1>5, <1>6, <2>1, <2>2, <2>3
<1>8. CASE ~imm
    <2>1. /\ ready' = Append(ready, f)
          /\ reliableSeq' = r1
          /\ UNCHANGED <<sendSeq, recovery, wire>>
        BY <1>8 DEF InsertFit
    <2>. QED
        BY <1>2, <1>3, <1>4, <1>5, <1>6, <2>1
<1>. QED
    BY <1>7, <1>8

LEMMA BatchPkType ==
    ASSUME TypeOK, NEW i \in 1..Len(ready)
    PROVE  BatchPk(i) \in Packets
<1>1. RelBefore(i) \in Nat
    BY RelBeforeNat
<1>. QED
    BY <1>1, FramePkType DEF BatchPk, TypeOK

LEMMA BatchKeyPkType ==
    ASSUME TypeOK, NEW k \in BatchKeys
    PROVE  BatchKeyPk(k) \in Packets
<1>1. \E i \in 1..Len(ready) :
          IsReliable(ready[i].rel) /\ reliableSeq + RelBefore(i) + 1 = k
    BY DEF BatchKeys
<1>. QED
    BY <1>1, BatchPkType DEF BatchKeyPk

LEMMA UpdateType ==
    ASSUME TypeOK, Update
    PROVE  /\ sendSeq' \in Nat /\ reliableSeq' \in Nat
           /\ RecoveryOK(recovery') /\ wire' \subseteq Packets
           /\ ready' \in Seq(Frames)
           /\ UNCHANGED <<orderChannels, fragQueue, nInserts, acked>>
<1>. DEFINE q == [k \in DOMAIN recovery \cup BatchKeys |->
                     IF k \in BatchKeys THEN BatchKeyPk(k) ELSE recovery[k]]
<1>0. Len(ready) \in Nat /\ sendSeq \in Nat /\ reliableSeq \in Nat
    BY DEF TypeOK
<1>1. RelBefore(Len(ready) + 1) \in Nat
    BY <1>0, RelBeforeNat
<1>2. BatchKeys \subseteq Nat
    <2> SUFFICES ASSUME NEW k \in BatchKeys PROVE k \in Nat
        OBVIOUS
    <2>1. PICK i \in 1..Len(ready) :
              IsReliable(ready[i].rel) /\ k = reliableSeq + RelBefore(i) + 1
        BY DEF BatchKeys
    <2>2. RelBefore(i) \in Nat
        BY RelBeforeNat
    <2>. QED
        BY <1>0, <2>1, <2>2
<1>3. RecoveryOK(q)
    <2>1. DOMAIN q \subseteq Nat
        BY <1>2 DEF TypeOK
    <2>2. ASSUME NEW k \in DOMAIN q PROVE q[k] \in Packets
        <3>1. CASE k \in BatchKeys
            BY <3>1, BatchKeyPkType
        <3>2. CASE k \notin BatchKeys
            BY <3>2 DEF TypeOK
        <3>. QED
            BY <3>1, <3>2
    <2>. QED
        BY <2>1, <2>2 DEF RecoveryOK
<1>4. /\ sendSeq' = sendSeq + Len(ready)
      /\ reliableSeq' = reliableSeq + RelBefore(Len(ready) + 1)
      /\ recovery' = q
      /\ ready' = <<>>
      /\ UNCHANGED <<orderChannels, fragQueue, nInserts, acked>>
    BY DEF Update
<1>5. {BatchPk(i) : i \in 1..Len(ready)} \subseteq Packets
    BY BatchPkType
<1>6. PICK stale \in SUBSET DOMAIN q :
          wire' = wire \cup {BatchPk(i) : i \in 1..Len(ready)}
                       \cup {q[k] : k \in stale}
    BY DEF Update
<1>7. {q[k] : k \in stale} \subseteq Packets
    BY <1>3 DEF RecoveryOK
<1>8. wire \subseteq Packets
    BY DEF TypeOK
<1>9. wire' \subseteq Packets
    BY <1>5, <1>6, <1>7, <1>8, Zenon
<1>. QED
    BY <1>0, <1>1, <1>3, <1>4, <1>9

LEMMA PeerRecordNat ==
    ASSUME TypeOK, NEW rec \in PeerRecords
    PROVE  rec.start \in Nat /\ rec.end \in Nat
<1>1. SentSeqs \subseteq Nat
    BY DEF SentSeqs, TypeOK, Packets
<1>2. CASE \E s \in SentSeqs : rec = Single(s)
    BY <1>1, <1>2 DEF Single
<1>3. CASE \E a, b \in SentSeqs : rec = RangeRecord(a, b)
    BY <1>1, <1>3 DEF RangeRecord
<1>. QED
    BY <1>2, <1>3 DEF PeerRecords

LEMMA AckType ==
    ASSUME TypeOK, NEW rec \in PeerRecords, Ack(rec)
    PROVE  TypeOK'
<1>1. recovery' = [k \in DOMAIN recovery \ RecordSeqs(rec) |-> recovery[k]]
    BY DEF Ack
<1>2. RecoveryOK(recovery')
    BY <1>1 DEF TypeOK, RecoveryOK
<1>3. acked' \subseteq Nat
    <2>1. acked' = acked \cup (rec.start..rec.end)
        BY DEF Ack
    <2>2. rec.start \in Nat /\ rec.end \in Nat
        BY PeerRecordNat
    <2>3. acked \subseteq Nat
        BY DEF TypeOK
    <2>4. rec.start..rec.end \subseteq Nat
        BY <2>2
    <2>. QED
        BY <2>1, <2>3, <2>4, Zenon
<1>4. UNCHANGED <<sendSeq, reliableSeq, orderChannels, fragQueue, ready,
                  wire, nInserts>>
    BY DEF Ack
<1>. QED
    BY <1>2, <1>3, <1>4 DEF TypeOK, RecoveryOK

LEMMA NackType ==
    ASSUME TypeOK, NEW rec, Nack(rec)
    PROVE  TypeOK'
BY DEF Nack, TypeOK

-----------------------------------------------------------------------------
(* Every step of the send queue keeps the types.                          *)
LEMMA TypeStep ==
    TypeOK /\ [Next]_vars => TypeOK'
<1> SUFFICES ASSUME TypeOK, [Next]_vars PROVE TypeOK'
    OBVIOUS
<1>1. ASSUME NEW len \in Lengths, NEW rel \in RelInputs, NEW imm \in BOOLEAN,
             NEW ch \in Channels \cup {None}, Insert(len, rel, imm, ch)
      PROVE  TypeOK'
    <2>1. nInserts' \in Nat /\ acked' \subseteq Nat
        BY <1>1 DEF Insert, TypeOK
    <2>2. CASE InsertDirect(len, rel)
        BY <2>1, <2>2, InsertDirectType DEF TypeOK, RecoveryOK
    <2>3. CASE InsertSplit(len, rel, ch)
        BY <2>1, <2>3, InsertSplitType DEF TypeOK, RecoveryOK
    <2>4. CASE InsertFit(len, rel, imm, ch)
        BY <2>1, <2>4, InsertFitType DEF TypeOK, RecoveryOK
    <2>. QED
        BY <1>1, <2>2, <2>3, <2>4 DEF Insert
<1>2. CASE Update
    BY <1>2, UpdateType DEF TypeOK, RecoveryOK
<1>3. ASSUME NEW rec \in PeerRecords, Ack(rec) \/ Nack(rec)
      PROVE  TypeOK'
    BY <1>3, AckType, NackType
<1>4. CASE UNCHANGED vars
    BY <1>4 DEF vars, TypeOK
<1>. QED
    BY <1>1, <1>2, <1>3, <1>4 DEF Next

(* Type correctness: in every state send_frame, insert, update, ack and   *)
(* nack can reach, the counters are naturals, the recovery queue maps     *)
(* natural keys to FramePackets and the socket has only been written      *)
(* well-formed FramePackets.                                               *)
THEOREM TypeCorrect == Spec => []TypeOK
<1>1. Init => TypeOK
    BY DEF Init, TypeOK
<1>. QED
    BY <1>1, TypeStep, PTL DEF Spec

-----------------------------------------------------------------------------
(***************************************************************************)
(* ResendIdentical is not inductive by itself: a step that sends a new    *)
(* packet must know its sequence is fresh, and a step that resends from   *)
(* the recovery queue must know what it resends was already sent.  The    *)
(* strengthening says both.                                                *)
(***************************************************************************)
(* Every sequence on the wire was handed out by send_seq.next() already.  *)
SeqsBelow == \A p \in wire : p.seq < sendSeq

(* Every packet the recovery queue holds has been written to the socket.  *)
RecoveryOnWire == \A k \in DOMAIN recovery : recovery[k] \in wire

WireInv == SeqsBelow /\ RecoveryOnWire /\ ResendIdentical

IInv == TypeOK /\ WireInv

(* Sending a packet under a fresh sequence s keeps the sequences below    *)
(* s + 1 and distinct datagrams under distinct sequences.                  *)
LEMMA FreshSend ==
    ASSUME NEW W \in SUBSET Packets, NEW s \in Nat, NEW pk \in Packets,
           pk.seq = s,
           \A p \in W : p.seq < s,
           \A p1, p2 \in W : p1.seq = p2.seq => p1 = p2
    PROVE  /\ \A p \in W \cup {pk} : p.seq < s + 1
           /\ \A p1, p2 \in W \cup {pk} : p1.seq = p2.seq => p1 = p2
BY DEF Packets

LEMMA StoreAtOnWire ==
    ASSUME NEW q, NEW W, NEW k, NEW pk, \A x \in DOMAIN q : q[x] \in W
    PROVE  \A x \in DOMAIN StoreAt(q, k, pk) : StoreAt(q, k, pk)[x] \in W \cup {pk}
BY DEF StoreAt

LEMMA FrameStoreOnWire ==
    ASSUME NEW q, NEW W, NEW f, NEW s, NEW r, \A x \in DOMAIN q : q[x] \in W
    PROVE  \A x \in DOMAIN FrameStore(q, f, s, r) :
               FrameStore(q, f, s, r)[x] \in W \cup {FramePk(f, s, r)}
BY StoreAtOnWire DEF FrameStore

(* A send_frame step (direct insert or immediate fit): the packet it      *)
(* writes and the one it stores are the same fresh packet.                *)
LEMMA SendFrameWire ==
    ASSUME TypeOK, WireInv, NEW f \in Frames, NEW r \in Nat,
           wire' = wire \cup {FramePk(f, sendSeq, r)},
           sendSeq' = sendSeq + 1,
           recovery' = FrameStore(recovery, f, sendSeq, r)
    PROVE  WireInv'
<1>. DEFINE pk == FramePk(f, sendSeq, r)
<1>1. pk \in Packets /\ pk.seq = sendSeq
    BY FramePkType DEF TypeOK, FramePk
<1>2. /\ \A p \in wire \cup {pk} : p.seq < sendSeq + 1
      /\ \A p1, p2 \in wire \cup {pk} : p1.seq = p2.seq => p1 = p2
    <2>1. wire \in SUBSET Packets /\ sendSeq \in Nat
        BY DEF TypeOK
    <2>2. \A p \in wire : p.seq < sendSeq
        BY DEF WireInv, SeqsBelow
    <2>3. \A p1, p2 \in wire : p1.seq = p2.seq => p1 = p2
        BY DEF WireInv, ResendIdentical
    <2>. QED
        BY <1>1, <2>1, <2>2, <2>3, FreshSend
<1>3. \A x \in DOMAIN recovery' : recovery'[x] \in wire \cup {pk}
    BY FrameStoreOnWire DEF WireInv, RecoveryOnWire
<1>. QED
    BY <1>2, <1>3 DEF WireInv, SeqsBelow, RecoveryOnWire, ResendIdentical

LEMMA InsertWire ==
    ASSUME TypeOK, WireInv, NEW len \in Lengths, NEW rel \in RelInputs,
           NEW imm \in BOOLEAN, NEW ch \in Channels \cup {None},
           Insert(len, rel, imm, ch)
    PROVE  WireInv'
<1>1. CASE InsertDirect(len, rel)
    <2>1. NewFrame(rel, nInserts, len) \in Frames /\ reliableSeq \in Nat
        BY NewFrameType DEF TypeOK
    <2>. QED
        BY <1>1, <2>1, SendFrameWire DEF InsertDirect
<1>2. CASE InsertSplit(len, rel, ch)
    <2>. DEFINE pk == [seq |-> sendSeq, rel |-> rel, frames |-> <<>>]
    <2>1. pk \in Packets
        BY DEF Packets, TypeOK
    <2>2. /\ wire' = wire \cup {pk} /\ sendSeq' = sendSeq + 1
          /\ recovery' = StoreAt(recovery, sendSeq, pk)
        BY <1>2 DEF InsertSplit
    <2>3. /\ \A p \in wire \cup {pk} : p.seq < sendSeq + 1
          /\ \A p1, p2 \in wire \cup {pk} : p1.seq = p2.seq => p1 = p2
        <3>1. wire \in SUBSET Packets /\ sendSeq \in Nat
            BY DEF TypeOK
        <3>2. \A p \in wire : p.seq < sendSeq
            BY DEF WireInv, SeqsBelow
        <3>3. \A p1, p2 \in wire : p1.seq = p2.seq => p1 = p2
            BY DEF WireInv, ResendIdentical
        <3>. QED
            BY <2>1, <3>1, <3>2, <3>3, FreshSend
    <2>4. \A x \in DOMAIN recovery' : recovery'[x] \in wire \cup {pk}
        BY <2>2, StoreAtOnWire DEF WireInv, RecoveryOnWire
    <2>. QED
        BY <2>2, <2>3, <2>4 DEF WireInv, SeqsBelow, RecoveryOnWire, ResendIdentical
<1>3. CASE InsertFit(len, rel, imm, ch) /\ imm
    <2>. DEFINE f == FitFrame(len, rel, ChannelOf(ch))
                r1 == IF IsReliable(rel) THEN reliableSeq + 1 ELSE reliableSeq
    <2>1. f \in Frames /\ r1 \in Nat
        BY FitFrameType DEF ChannelOf, TypeOK
    <2>. QED
        BY <1>3, <2>1, SendFrameWire DEF InsertFit
<1>4. CASE InsertFit(len, rel, imm, ch) /\ ~imm
    BY <1>4 DEF InsertFit, WireInv, SeqsBelow, RecoveryOnWire, ResendIdentical
<1>. QED
    BY <1>1, <1>2, <1>3, <1>4 DEF Insert

(* update() writes its batch and resends entries of the recovery queue,   *)
(* each of which is the batch or already on the wire: the wire grows by   *)
(* the batch exactly.                                                      *)
LEMMA UpdateWireSet ==
    ASSUME TypeOK, WireInv, Update
    PROVE  /\ wire' = wire \cup {BatchPk(i) : i \in 1..Len(ready)}
           /\ \A k \in DOMAIN recovery' :
                 recovery'[k] \in wire \cup {BatchPk(i) : i \in 1..Len(ready)}
<1>. DEFINE B == {BatchPk(i) : i \in 1..Len(ready)}
            q == [k \in DOMAIN recovery \cup BatchKeys |->
                     IF k \in BatchKeys THEN BatchKeyPk(k) ELSE recovery[k]]
<1>1. \A k \in DOMAIN q : q[k] \in wire \cup B
    <2> SUFFICES ASSUME NEW k \in DOMAIN q PROVE q[k] \in wire \cup B
        OBVIOUS
    <2>1. CASE k \in BatchKeys
        <3>1. \E i \in 1..Len(ready) :
                  IsReliable(ready[i].rel) /\ reliableSeq + RelBefore(i) + 1 = k
            BY <2>1 DEF BatchKeys
        <3>2. BatchKeyPk(k) \in B
            BY <3>1 DEF BatchKeyPk
        <3>. QED
            BY <2>1, <3>2
    <2>2. CASE k \notin BatchKeys
        BY <2>2 DEF WireInv, RecoveryOnWire
    <2>. QED
        BY <2>1, <2>2
<1>2. PICK stale \in SUBSET DOMAIN q : wire' = wire \cup B \cup {q[k] : k \in stale}
    BY DEF Update
<1>3. recovery' = q
    BY DEF Update
<1>4. wire' = wire \cup B
    BY <1>1, <1>2
<1>5. \A k \in DOMAIN recovery' : recovery'[k] \in wire \cup B
    BY <1>1, <1>3
<1>. QED
    BY <1>4, <1>5

(* update(): the batch takes the sequences sendSeq .. sendSeq+Len(ready)-1 *)
(* one by one, and what the flush resends is the batch or was sent before. *)
LEMMA UpdateWire ==
    ASSUME TypeOK, WireInv, Update
    PROVE  WireInv'
<1>. DEFINE B == {BatchPk(i) : i \in 1..Len(ready)}
            q == [k \in DOMAIN recovery \cup BatchKeys |->
                     IF k \in BatchKeys THEN BatchKeyPk(k) ELSE recovery[k]]
<1>0. sendSeq \in Nat /\ Len(ready) \in Nat /\ wire \subseteq Packets
    BY DEF TypeOK
<1>1. \A i \in 1..Len(ready) : BatchPk(i).seq = sendSeq + i - 1
    BY DEF BatchPk, FramePk
<1>2. \A k \in DOMAIN recovery' : recovery'[k] \in wire \cup B
    BY UpdateWireSet
<1>4. wire' = wire \cup B
    BY UpdateWireSet
<1>5. recovery' = q /\ sendSeq' = sendSeq + Len(ready)
    BY DEF Update
<1>6. RecoveryOnWire'
    BY <1>2, <1>4 DEF RecoveryOnWire
<1>7. ASSUME NEW p \in wire \cup B PROVE p.seq < sendSeq + Len(ready)
    <2>1. CASE p \in wire
        BY <1>0, <2>1 DEF WireInv, SeqsBelow, Packets
    <2>2. CASE p \in B
        BY <1>0, <1>1, <2>2
    <2>. QED
        BY <2>1, <2>2
<1>8. ASSUME NEW p1 \in wire \cup B, NEW p2 \in wire \cup B, p1.seq = p2.seq
      PROVE  p1 = p2
    <2>1. CASE p1 \in wire /\ p2 \in wire
        BY <1>8, <2>1 DEF WireInv, ResendIdentical
    <2>2. ASSUME NEW x \in wire, NEW y \in B PROVE x.seq # y.seq
        BY <1>0, <1>1 DEF WireInv, SeqsBelow, Packets
    <2>3. CASE p1 \in B /\ p2 \in B
        BY <1>0, <1>1, <1>8, <2>3
    <2>. QED
        BY <1>8, <2>1, <2>2, <2>3
<1>. QED
    BY <1>4, <1>5, <1>6, <1>7, <1>8 DEF WireInv, SeqsBelow, ResendIdentical

LEMMA AckWire ==
    ASSUME WireInv, NEW rec, Ack(rec)
    PROVE  WireInv'
BY DEF Ack, WireInv, SeqsBelow, RecoveryOnWire, ResendIdentical

(* nack() only resends what the recovery queue holds, which was sent.     *)
LEMMA NackWire ==
    ASSUME WireInv, NEW rec, Nack(rec)
    PROVE  WireInv'
<1>1. wire' = wire
    BY DEF Nack, WireInv, RecoveryOnWire
<1>. QED
    BY <1>1 DEF Nack, WireInv, SeqsBelow, RecoveryOnWire, ResendIdentical

LEMMA WireStep ==
    TypeOK /\ WireInv /\ [Next]_vars => WireInv'
<1> SUFFICES ASSUME TypeOK, WireInv, [Next]_vars PROVE WireInv'
    OBVIOUS
<1>1. CASE \E len \in Lengths, rel \in RelInputs, imm \in BOOLEAN,
             ch \in Channels \cup {None} : Insert(len, rel, imm, ch)
    BY <1>1, InsertWire
<1>2. CASE Update
    BY <1>2, UpdateWire
<1>3. CASE \E rec \in PeerRecords : Ack(rec) \/ Nack(rec)
    BY <1>3, AckWire, NackWire
<1>4. CASE UNCHANGED vars
    BY <1>4 DEF vars, WireInv, SeqsBelow, RecoveryOnWire, ResendIdentical
<1>. QED
    BY <1>1, <1>2, <1>3, <1>4 DEF Next

(* Faithful retransmission: whichever way a datagram leaves the send      *)
(* queue (send_frame, the split path, update's flush or a NACK), any two  *)
(* datagrams written under the same FramePacket sequence are identical,   *)
(* for every MTU, channel set and reliability mix.                        *)
THEOREM ResendIdenticalHolds == Spec => []ResendIdentical
<1>1. Init => IInv
    BY DEF Init, IInv, TypeOK, WireInv, SeqsBelow, RecoveryOnWire, ResendIdentical
<1>2. IInv /\ [Next]_vars => IInv'
    BY TypeStep, WireStep DEF IInv
<1>3. IInv => ResendIdentical
    BY DEF IInv, WireInv
<1>. QED
    BY <1>1, <1>2, <1>3, PTL DEF Spec

=============================================================================
