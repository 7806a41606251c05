------------------------- MODULE SendQueueRefinement -------------------------
(***************************************************************************)
(* Proof that the send queue implements PacketLog under the mapping of    *)
(* SendQueue (next <- send_seq, log <- LogOf, emitted <- wire).  It adds  *)
(* one conjunct to the inductive invariant of SendQueueProofs: the wire   *)
(* carries every sequence below send_seq (Gapless).  With SeqsBelow this  *)
(* makes the sequences on the wire exactly 0 .. send_seq - 1, and with    *)
(* ResendIdentical it makes LogOf a numbering that no step changes.       *)
(***************************************************************************)
EXTENDS SendQueueProofs

USE ConstAssumption, RelInputsAssumption

(* Every sequence below send_seq has gone out.                            *)
Gapless == \A s \in 0..(sendSeq - 1) : \E p \in wire : p.seq = s

RInv == IInv /\ Gapless

-----------------------------------------------------------------------------
(* Facts about picking the packet of a sequence from a set of packets in *)
(* which a sequence names one packet only.                                *)

LEMMA ChooseLog ==
    ASSUME NEW W, \A p1, p2 \in W : p1.seq = p2.seq => p1 = p2
    PROVE  LET L == [s \in {p.seq : p \in W} |-> CHOOSE p \in W : p.seq = s]
           IN  /\ \A s \in DOMAIN L : L[s] \in W /\ L[s].seq = s
               /\ \A p \in W : L[p.seq] = p
<1>. DEFINE L == [s \in {p.seq : p \in W} |-> CHOOSE p \in W : p.seq = s]
<1>1. \A s \in DOMAIN L : L[s] \in W /\ L[s].seq = s
    OBVIOUS
<1>2. \A p \in W : L[p.seq] = p
    BY <1>1
<1>. QED
    BY <1>1, <1>2

LEMMA ChooseStable ==
    ASSUME NEW W, NEW W2, W \subseteq W2,
           \A p1, p2 \in W2 : p1.seq = p2.seq => p1 = p2,
           NEW s \in {p.seq : p \in W}
    PROVE  (CHOOSE p \in W2 : p.seq = s) = (CHOOSE p \in W : p.seq = s)
OBVIOUS

-----------------------------------------------------------------------------
(* The sequences on the wire are 0 .. send_seq - 1.                        *)
LEMMA SentSeqsExact ==
    ASSUME TypeOK, WireInv, Gapless
    PROVE  SentSeqs = 0..(sendSeq - 1)
<1>1. \A p \in wire : p.seq \in Nat /\ p.seq < sendSeq
    BY DEF TypeOK, Packets, WireInv, SeqsBelow
<1>2. SentSeqs \subseteq 0..(sendSeq - 1)
    BY <1>1 DEF SentSeqs, TypeOK
<1>3. 0..(sendSeq - 1) \subseteq SentSeqs
    BY DEF SentSeqs, Gapless
<1>. QED
    BY <1>2, <1>3

(* A step that numbers n new packets from send_seq on keeps Gapless.      *)
LEMMA GaplessExtend ==
    ASSUME TypeOK, Gapless, wire \subseteq wire', NEW n \in Nat,
           sendSeq' = sendSeq + n,
           \A s \in sendSeq..(sendSeq + n - 1) : \E p \in wire' : p.seq = s
    PROVE  Gapless'
BY DEF Gapless, TypeOK

(* No step takes back a sequence or a datagram.                            *)
LEMMA Grows ==
    ASSUME TypeOK, [Next]_vars
    PROVE  sendSeq <= sendSeq' /\ wire \subseteq wire'
<1>0. sendSeq \in Nat
    BY DEF TypeOK
<1>1. ASSUME NEW len \in Lengths, NEW rel \in RelInputs, NEW imm \in BOOLEAN,
             NEW ch \in Channels \cup {None}, Insert(len, rel, imm, ch)
      PROVE  sendSeq <= sendSeq' /\ wire \subseteq wire'
    BY <1>0, <1>1 DEF Insert, InsertDirect, InsertSplit, InsertFit
<1>2. ASSUME Update PROVE sendSeq <= sendSeq' /\ wire \subseteq wire'
    <2>1. Len(ready) \in Nat
        BY DEF TypeOK
    <2>. QED
        BY <1>0, <1>2, <2>1 DEF Update
<1>3. ASSUME NEW rec \in PeerRecords, Ack(rec) \/ Nack(rec)
      PROVE  sendSeq <= sendSeq' /\ wire \subseteq wire'
    BY <1>0, <1>3 DEF Ack, Nack
<1>4. ASSUME UNCHANGED vars PROVE sendSeq <= sendSeq' /\ wire \subseteq wire'
    BY <1>0, <1>4 DEF vars
<1>. QED
    BY <1>1, <1>2, <1>3, <1>4 DEF Next

(* Every step keeps the wire free of gaps below send_seq.                 *)
LEMMA GaplessStep ==
    ASSUME TypeOK, Gapless, [Next]_vars
    PROVE  Gapless'
<1>0. sendSeq \in Nat /\ wire \subseteq wire'
    BY Grows DEF TypeOK
<1>1. ASSUME NEW len \in Lengths, NEW rel \in RelInputs, NEW imm \in BOOLEAN,
             NEW ch \in Channels \cup {None}, Insert(len, rel, imm, ch)
      PROVE  Gapless'
    <2>1. CASE InsertDirect(len, rel)
        <3>. DEFINE pk == FramePk(NewFrame(rel, nInserts, len), sendSeq, reliableSeq)
        <3>0. pk \in wire' /\ pk.seq = sendSeq
            BY <2>1 DEF InsertDirect, FramePk
        <3>1. \E p \in wire' : p.seq = sendSeq
            BY <3>0
        <3>. QED
            BY <1>0, <2>1, <3>1, GaplessExtend DEF InsertDirect
    <2>2. CASE InsertSplit(len, rel, ch)
        <3>1. \E p \in wire' : p.seq = sendSeq
            BY <2>2 DEF InsertSplit
        <3>. QED
            BY <1>0, <2>2, <3>1, GaplessExtend DEF InsertSplit
    <2>3. CASE InsertFit(len, rel, imm, ch) /\ imm
        <3>. DEFINE r1 == IF IsReliable(rel) THEN reliableSeq + 1 ELSE reliableSeq
                    pk == FramePk(FitFrame(len, rel, ChannelOf(ch)), sendSeq, r1)
        <3>0. pk \in wire' /\ pk.seq = sendSeq
            BY <2>3 DEF InsertFit, FramePk
        <3>1. \E p \in wire' : p.seq = sendSeq
            BY <3>0
        <3>2. sendSeq' = sendSeq + 1
            BY <2>3 DEF InsertFit
        <3>. QED
            BY <1>0, <3>1, <3>2, GaplessExtend
    <2>4. CASE InsertFit(len, rel, imm, ch) /\ ~imm
        <3>1. sendSeq' = sendSeq + 0
            BY <1>0, <2>4 DEF InsertFit
        <3>. QED
            BY <1>0, <3>1, GaplessExtend
    <2>. QED
        BY <1>1, <2>1, <2>2, <2>3, <2>4 DEF Insert
<1>2. ASSUME Update PROVE Gapless'
    <2>. DEFINE B == {BatchPk(i) : i \in 1..Len(ready)}
    <2>1. Len(ready) \in Nat /\ sendSeq' = sendSeq + Len(ready)
        BY <1>2 DEF TypeOK, Update
    <2>2. B \subseteq wire'
        BY <1>2 DEF Update
    <2>3. \A i \in 1..Len(ready) : BatchPk(i).seq = sendSeq + i - 1
        BY DEF BatchPk, FramePk
    <2>4. \A s \in sendSeq..(sendSeq + Len(ready) - 1) : \E p \in wire' : p.seq = s
        <3> SUFFICES ASSUME NEW s \in sendSeq..(sendSeq + Len(ready) - 1)
                     PROVE  \E p \in wire' : p.seq = s
            OBVIOUS
        <3>1. s - sendSeq + 1 \in 1..Len(ready)
            BY <1>0, <2>1
        <3>2. BatchPk(s - sendSeq + 1).seq = s
            BY <1>0, <2>3, <3>1
        <3>. QED
            BY <2>2, <3>1, <3>2
    <2>. QED
        BY <1>0, <2>1, <2>4, GaplessExtend
<1>3. ASSUME NEW rec \in PeerRecords, Ack(rec) \/ Nack(rec) PROVE Gapless'
    <2>1. sendSeq' = sendSeq + 0
        BY <1>0, <1>3 DEF Ack, Nack
    <2>. QED
        BY <1>0, <2>1, GaplessExtend
<1>4. ASSUME UNCHANGED vars PROVE Gapless'
    <2>1. sendSeq' = sendSeq + 0
        BY <1>0, <1>4 DEF vars
    <2>. QED
        BY <1>0, <2>1, GaplessExtend
<1>. QED
    BY <1>1, <1>2, <1>3, <1>4 DEF Next

-----------------------------------------------------------------------------
(* A step between two states of the invariant, in which send_seq and the *)
(* wire do not shrink, is a PacketLog Send under the mapping.              *)
LEMMA RefineStep ==
    ASSUME TypeOK, WireInv, Gapless, TypeOK', WireInv', Gapless',
           sendSeq <= sendSeq', wire \subseteq wire'
    PROVE  PL!Send
<1>1. SentSeqs = 0..(sendSeq - 1)
    BY SentSeqsExact
<1>2. SentSeqs' = 0..(sendSeq' - 1)
    <2>1. \A p \in wire' : p.seq \in Nat /\ p.seq < sendSeq'
        BY DEF TypeOK, Packets, WireInv, SeqsBelow
    <2>2. \A s \in 0..(sendSeq' - 1) : \E p \in wire' : p.seq = s
        BY DEF Gapless
    <2>3. sendSeq' \in Nat
        BY DEF TypeOK
    <2>4. \A x \in SentSeqs' : x \in 0..(sendSeq' - 1)
        BY <2>1, <2>3 DEF SentSeqs
    <2>5. \A x \in 0..(sendSeq' - 1) : x \in SentSeqs'
        BY <2>2 DEF SentSeqs
    <2>. QED
        BY <2>4, <2>5
<1>3. /\ \A p1, p2 \in wire : p1.seq = p2.seq => p1 = p2
      /\ \A p1, p2 \in wire' : p1.seq = p2.seq => p1 = p2
    BY DEF WireInv, ResendIdentical
<1>4. /\ \A s \in DOMAIN LogOf' : LogOf'[s] \in wire' /\ LogOf'[s].seq = s
      /\ \A p \in wire' : LogOf'[p.seq] = p
    <2>1. LogOf' = [s \in {p.seq : p \in wire'} |-> CHOOSE p \in wire' : p.seq = s]
        BY DEF LogOf, SentSeqs
    <2>. QED
        BY <1>3, <2>1, ChooseLog
<1>5. \A s \in 0..(sendSeq - 1) : LogOf'[s] = LogOf[s]
    <2> SUFFICES ASSUME NEW s \in 0..(sendSeq - 1) PROVE LogOf'[s] = LogOf[s]
        OBVIOUS
    <2>1. s \in {p.seq : p \in wire} /\ s \in {p.seq : p \in wire'}
        BY <1>1 DEF SentSeqs
    <2>2. (CHOOSE p \in wire' : p.seq = s) = (CHOOSE p \in wire : p.seq = s)
        BY <1>3, <2>1, ChooseStable
    <2>. QED
        BY <2>1, <2>2 DEF LogOf, SentSeqs
<1>6. DOMAIN LogOf' = 0..(sendSeq' - 1)
    BY <1>2 DEF LogOf
<1>7. wire' \subseteq Packets /\ sendSeq' \in Nat
    BY DEF TypeOK
<1>8. wire' \subseteq {LogOf'[s] : s \in DOMAIN LogOf'}
    BY <1>4, <1>6, <1>7, <1>2 DEF SentSeqs
<1>9. \A s \in sendSeq..(sendSeq' - 1) : LogOf'[s] \in wire'
    <2>1. sendSeq \in Nat
        BY DEF TypeOK
    <2>. QED
        BY <1>4, <1>6, <2>1
<1>10. \A s \in DOMAIN LogOf' : LogOf'[s] \in Packets /\ LogOf'[s].seq = s
    BY <1>4, <1>7
<1>. QED
    BY <1>5, <1>6, <1>7, <1>8, <1>9, <1>10 DEF PL!Send

(* The send queue implements PacketLog: send_seq never goes back, each   *)
(* sequence below it names one datagram that was written and is never     *)
(* renumbered, whichever of insert, update, ack or nack runs, for every   *)
(* MTU, channel set and reliability mix.                                   *)
THEOREM PacketLogRefinement == Spec => PacketLogSpec
<1>1. Init => RInv
    BY DEF Init, RInv, IInv, TypeOK, WireInv, SeqsBelow, RecoveryOnWire,
           ResendIdentical, Gapless
<1>2. RInv /\ [Next]_vars => RInv'
    BY TypeStep, WireStep, GaplessStep DEF RInv, IInv
<1>3. Init => PL!Init
    <2> SUFFICES ASSUME Init PROVE PL!Init
        OBVIOUS
    <2>1. wire = {} /\ sendSeq = 0
        BY DEF Init
    <2>2. LogOf = [s \in {} |-> CHOOSE p \in Packets : TRUE]
        BY <2>1 DEF LogOf, SentSeqs
    <2>. QED
        BY <2>1, <2>2 DEF PL!Init
<1>4. RInv /\ RInv' /\ [Next]_vars => [PL!Send]_PL!plvars
    <2> SUFFICES ASSUME RInv, RInv', [Next]_vars PROVE [PL!Send]_PL!plvars
        OBVIOUS
    <2>1. sendSeq <= sendSeq' /\ wire \subseteq wire'
        BY Grows DEF RInv, IInv
    <2>. QED
        BY <2>1, RefineStep DEF RInv, IInv
<1>. QED
    BY <1>1, <1>2, <1>3, <1>4, PTL DEF Spec, PacketLogSpec, PL!Spec

=============================================================================
