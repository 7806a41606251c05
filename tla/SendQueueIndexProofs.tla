------------------------ MODULE SendQueueIndexProofs ------------------------
(***************************************************************************)
(* Proof that no two FramePackets of different sequences carry the same  *)
(* reliable index (ReliableIndexUnique), for every value of the constants.*)
(* A reliable frame takes its index from reliable_seq when send_frame     *)
(* numbers it, so the invariant is strengthened with:                     *)
(*   - RiBelow: every reliable index on the wire is below reliable_seq;   *)
(*   - ReadyUnrel: a frame waiting in `ready` that is not reliable has no *)
(*     reliable index, so the one it carries on the wire is None.         *)
(* update numbers its batch reliable_seq + RelBefore(i), which grows with *)
(* i over the reliable frames (RelBeforeGrows).                           *)
(***************************************************************************)
EXTENDS SendQueueProofs

USE ConstAssumption, RelInputsAssumption

(* The reliable indices of a set of packets: two packets of different    *)
(* sequences never share one.                                              *)
UniqueRi(W) ==
    \A p1, p2 \in W :
        p1.seq # p2.seq =>
            \A i \in 1..Len(p1.frames), j \in 1..Len(p2.frames) :
                p1.frames[i].ri # None => p1.frames[i].ri # p2.frames[j].ri

(* The reliable indices of a set of packets lie in lo..(hi - 1).          *)
RiIn(W, lo, hi) ==
    \A p \in W : \A i \in 1..Len(p.frames) :
        p.frames[i].ri # None => p.frames[i].ri \in lo..(hi - 1)

(* Every reliable index on the wire is below reliable_seq.                 *)
RiBelow == RiIn(wire, 0, reliableSeq)

(* A deferred frame that is not reliable carries no reliable index.       *)
ReadyUnrel ==
    \A i \in 1..Len(ready) : ~IsReliable(ready[i].rel) => ready[i].ri = None

RiInv == IInv /\ RiBelow /\ ReadyUnrel /\ ReliableIndexUnique

-----------------------------------------------------------------------------
(* Writing packets whose reliable indices are fresh (at or above every   *)
(* index on the wire) and unique among themselves keeps them unique.      *)
LEMMA AddFresh ==
    ASSUME NEW W \in SUBSET Packets, NEW N \in SUBSET Packets,
           NEW lo \in Nat, NEW hi \in Nat, lo <= hi,
           RiIn(W, 0, lo), UniqueRi(W), RiIn(N, lo, hi), UniqueRi(N)
    PROVE  RiIn(W \cup N, 0, hi) /\ UniqueRi(W \cup N)
<1>1. RiIn(W \cup N, 0, hi)
    BY DEF RiIn
<1>2. ASSUME NEW p \in W \cup N, NEW i \in 1..Len(p.frames)
      PROVE  p.frames[i].ri \in Nat \cup {None}
    <2>1. p.frames \in Seq(Frames)
        BY DEF Packets
    <2>2. p.frames[i] \in Frames
        BY <2>1
    <2>. QED
        BY <2>2 DEF Frames, Index
<1>3. UniqueRi(W \cup N)
    <2> SUFFICES ASSUME NEW p1 \in W \cup N, NEW p2 \in W \cup N, p1.seq # p2.seq,
                        NEW i \in 1..Len(p1.frames), NEW j \in 1..Len(p2.frames),
                        p1.frames[i].ri # None
                 PROVE  p1.frames[i].ri # p2.frames[j].ri
        BY DEF UniqueRi
    <2>1. CASE p1 \in W /\ p2 \in W
        BY <2>1 DEF UniqueRi
    <2>2. CASE p1 \in N /\ p2 \in N
        BY <2>2 DEF UniqueRi
    <2>3. CASE p1 \in W /\ p2 \in N
        BY <2>3, <1>2 DEF RiIn
    <2>4. CASE p1 \in N /\ p2 \in W
        BY <2>4, <1>2 DEF RiIn
    <2>. QED
        BY <2>1, <2>2, <2>3, <2>4
<1>. QED
    BY <1>1, <1>3

(* A single packet has no partner of another sequence.                     *)
LEMMA UniqueRiSingle ==
    ASSUME NEW pk
    PROVE  UniqueRi({pk})
BY DEF UniqueRi

(* The reliable frames of ready take increasing offsets from reliable_seq: *)
(* a reliable frame i is counted in RelBefore(j) for every j > i.          *)
LEMMA RelBeforeGrows ==
    ASSUME TypeOK, NEW i \in 1..Len(ready), NEW j \in 1..(Len(ready) + 1), i < j,
           IsReliable(ready[i].rel)
    PROVE  RelBefore(i) < RelBefore(j)
<1>. DEFINE Si == {k \in 1..(i - 1) : IsReliable(ready[k].rel)}
            Sj == {k \in 1..(j - 1) : IsReliable(ready[k].rel)}
<1>1. IsFiniteSet(Sj)
    <2>1. IsFiniteSet(1..(j - 1))
        BY FS_Interval
    <2>. QED
        BY <2>1, FS_Subset
<1>0. Len(ready) \in Nat
    BY DEF TypeOK
<1>2. Si \cup {i} \subseteq Sj /\ i \notin Si
    BY <1>0
<1>3. IsFiniteSet(Si)
    BY <1>1, <1>2, FS_Subset
<1>6. Cardinality(Si \cup {i}) = Cardinality(Si) + 1
    BY <1>2, <1>3, FS_AddElement
<1>4. Cardinality(Si \cup {i}) <= Cardinality(Sj)
    BY <1>1, <1>2, FS_Subset
<1>5. Cardinality(Si) \in Nat /\ Cardinality(Sj) \in Nat
    BY <1>1, <1>3, FS_CardinalityType
<1>. QED
    BY <1>4, <1>5, <1>6 DEF RelBefore

(* The one frame of a packet send_frame builds, and its reliable index.   *)
LEMMA FramePkRi ==
    ASSUME NEW f \in Frames, NEW s, NEW r
    PROVE  /\ Len(FramePk(f, s, r).frames) = 1
           /\ FramePk(f, s, r).frames[1].ri = IF IsReliable(f.rel) THEN r ELSE f.ri
BY DEF FramePk, Frames

(* The fit path gives a frame that is not reliable no reliable index.     *)
LEMMA FitFrameUnrel ==
    ASSUME NEW len, NEW rel, NEW c, ~IsReliable(rel)
    PROVE  FitFrame(len, rel, c).ri = None
BY DEF FitFrame, NewFrame

(* send_frame of one fresh packet: its reliable index, if any, lies in    *)
(* reliable_seq .. reliable_seq' - 1.                                      *)
LEMMA SendOneRi ==
    ASSUME TypeOK, RiBelow, ReliableIndexUnique, NEW pk \in Packets,
           wire' = wire \cup {pk}, reliableSeq' \in Nat, reliableSeq <= reliableSeq',
           RiIn({pk}, reliableSeq, reliableSeq')
    PROVE  RiBelow' /\ ReliableIndexUnique'
<1>1. RiIn(wire, 0, reliableSeq) /\ UniqueRi(wire) /\ UniqueRi({pk})
    BY UniqueRiSingle DEF RiBelow, ReliableIndexUnique, UniqueRi
<1>2. wire \in SUBSET Packets /\ reliableSeq \in Nat
    BY DEF TypeOK
<1>3. {pk} \in SUBSET Packets
    OBVIOUS
<1>4. RiIn(wire \cup {pk}, 0, reliableSeq') /\ UniqueRi(wire \cup {pk})
    BY <1>1, <1>2, <1>3, AddFresh
<1>. QED
    BY <1>4 DEF RiBelow, ReliableIndexUnique, UniqueRi

(* A larger bound gives a larger range of indices below it.             *)
LEMMA IntervalGrows ==
    ASSUME NEW a \in Nat, NEW b \in Nat, a <= b
    PROVE  0..(a - 1) \subseteq 0..(b - 1)
OBVIOUS

LEMMA InsertRi ==
    ASSUME TypeOK, RiBelow, ReadyUnrel, ReliableIndexUnique,
           NEW len \in Lengths, NEW rel \in RelInputs, NEW imm \in BOOLEAN,
           NEW ch \in Channels \cup {None}, Insert(len, rel, imm, ch)
    PROVE  RiBelow' /\ ReadyUnrel' /\ ReliableIndexUnique'
<1>0. reliableSeq \in Nat /\ sendSeq \in Nat /\ nInserts \in Nat /\ len \in Nat
    BY DEF TypeOK
<1>1. CASE InsertDirect(len, rel)
    <2>. DEFINE f == NewFrame(rel, nInserts, len)
                pk == FramePk(f, sendSeq, reliableSeq)
    <2>1. f \in Frames /\ pk \in Packets
        BY <1>0, NewFrameType, FramePkType
    <2>2. RiIn({pk}, reliableSeq, reliableSeq')
        BY <1>0, <1>1, <2>1, FramePkRi DEF RiIn, InsertDirect, NewFrame
    <2>3. RiBelow' /\ ReliableIndexUnique'
        BY <1>0, <1>1, <2>1, <2>2, SendOneRi DEF InsertDirect
    <2>. QED
        BY <1>1, <2>3 DEF InsertDirect, ReadyUnrel
<1>2. CASE InsertSplit(len, rel, ch)
    <2>. DEFINE pk == [seq |-> sendSeq, rel |-> rel, frames |-> <<>>]
    <2>1. pk \in Packets /\ RiIn({pk}, reliableSeq, reliableSeq')
        BY <1>0 DEF Packets, RiIn
    <2>2. reliableSeq' \in Nat /\ reliableSeq <= reliableSeq'
        <3>1. (len + MTU - 1) \div MTU \in Nat
            BY <1>0
        <3>. QED
            BY <1>0, <1>2, <3>1 DEF InsertSplit
    <2>3. RiBelow' /\ ReliableIndexUnique'
        BY <1>2, <2>1, <2>2, SendOneRi DEF InsertSplit
    <2>. QED
        BY <1>2, <2>3 DEF InsertSplit, ReadyUnrel
<1>3. CASE InsertFit(len, rel, imm, ch) /\ imm
    <2>. DEFINE f  == FitFrame(len, rel, ChannelOf(ch))
                r1 == IF IsReliable(rel) THEN reliableSeq + 1 ELSE reliableSeq
                pk == FramePk(f, sendSeq, r1)
    <2>1. f \in Frames /\ pk \in Packets /\ f.rel = rel
        <3>1. f \in Frames
            BY FitFrameType DEF ChannelOf, TypeOK
        <3>2. f.rel = rel
            BY DEF FitFrame, NewFrame
        <3>. QED
            BY <1>0, <3>1, <3>2, FramePkType
    <2>2. f.ri = None \/ IsReliable(rel)
        BY FitFrameUnrel
    <2>3. RiIn({pk}, reliableSeq, reliableSeq')
        BY <1>0, <1>3, <2>1, <2>2, FramePkRi DEF RiIn, InsertFit
    <2>4. RiBelow' /\ ReliableIndexUnique'
        BY <1>0, <1>3, <2>1, <2>3, SendOneRi DEF InsertFit
    <2>. QED
        BY <1>3, <2>4 DEF InsertFit, ReadyUnrel
<1>4. CASE InsertFit(len, rel, imm, ch) /\ ~imm
    <2>. DEFINE f == FitFrame(len, rel, ChannelOf(ch))
    <2>1. /\ ready' = Append(ready, f) /\ wire' = wire
          /\ reliableSeq' \in Nat /\ reliableSeq <= reliableSeq'
        BY <1>0, <1>4 DEF InsertFit
    <2>2. f.rel = rel /\ (~IsReliable(rel) => f.ri = None)
        BY FitFrameUnrel DEF FitFrame, NewFrame
    <2>3. ReadyUnrel'
        <3>1. ready \in Seq(Frames)
            BY DEF TypeOK
        <3>. QED
            BY <2>1, <2>2, <3>1 DEF ReadyUnrel
    <2>4. RiBelow'
        <3>1. 0..(reliableSeq - 1) \subseteq 0..(reliableSeq' - 1)
            <4>1. reliableSeq' \in Nat /\ reliableSeq <= reliableSeq'
                BY <2>1
            <4>. QED
                BY <1>0, <4>1, IntervalGrows
        <3>. QED
            BY <2>1, <3>1 DEF RiBelow, RiIn
    <2>5. ReliableIndexUnique'
        BY <2>1 DEF ReliableIndexUnique
    <2>. QED
        BY <2>3, <2>4, <2>5
<1>. QED
    BY <1>1, <1>2, <1>3, <1>4 DEF Insert

(* update(): the i-th ready frame, if reliable, takes reliable_seq +     *)
(* RelBefore(i), so the batch's indices are fresh and distinct.           *)
LEMMA UpdateRi ==
    ASSUME TypeOK, WireInv, RiBelow, ReadyUnrel, ReliableIndexUnique, Update
    PROVE  RiBelow' /\ ReadyUnrel' /\ ReliableIndexUnique'
<1>. DEFINE B  == {BatchPk(i) : i \in 1..Len(ready)}
            hi == reliableSeq + RelBefore(Len(ready) + 1)
<1>0. /\ reliableSeq \in Nat /\ sendSeq \in Nat /\ Len(ready) \in Nat
      /\ ready \in Seq(Frames) /\ wire \in SUBSET Packets
    BY DEF TypeOK
<1>1. wire' = wire \cup B /\ reliableSeq' = hi /\ ready' = <<>>
    BY UpdateWireSet DEF Update
<1>2. B \in SUBSET Packets
    BY BatchPkType
<1>3. \A i \in 1..(Len(ready) + 1) : RelBefore(i) \in Nat
    BY <1>0, RelBeforeNat
<1>4. hi \in Nat /\ reliableSeq <= hi /\ RelBefore(Len(ready) + 1) \in Nat
    <2>1. Len(ready) + 1 \in Nat
        BY <1>0
    <2>2. RelBefore(Len(ready) + 1) \in Nat
        BY <2>1, RelBeforeNat
    <2>. QED
        BY <1>0, <2>2
(* the index the i-th frame of the batch carries *)
<1>5. \A i \in 1..Len(ready) :
          /\ Len(BatchPk(i).frames) = 1
          /\ BatchPk(i).seq = sendSeq + i - 1
          /\ BatchPk(i).frames[1].ri =
                IF IsReliable(ready[i].rel) THEN reliableSeq + RelBefore(i) ELSE None
    <2> SUFFICES ASSUME NEW i \in 1..Len(ready)
                 PROVE  /\ Len(BatchPk(i).frames) = 1
                        /\ BatchPk(i).seq = sendSeq + i - 1
                        /\ BatchPk(i).frames[1].ri =
                              IF IsReliable(ready[i].rel) THEN reliableSeq + RelBefore(i)
                                                          ELSE None
        OBVIOUS
    <2>1. ready[i] \in Frames
        BY <1>0
    <2>2. ~IsReliable(ready[i].rel) => ready[i].ri = None
        BY DEF ReadyUnrel
    <2>. QED
        BY <2>1, <2>2, FramePkRi DEF BatchPk, FramePk
<1>6. RiIn(B, reliableSeq, hi)
    <2> SUFFICES ASSUME NEW i \in 1..Len(ready), IsReliable(ready[i].rel)
                 PROVE  reliableSeq + RelBefore(i) \in reliableSeq..(hi - 1)
        BY <1>5 DEF RiIn
    <2>1. RelBefore(i) < RelBefore(Len(ready) + 1)
        <3>1. Len(ready) + 1 \in 1..(Len(ready) + 1) /\ i < Len(ready) + 1
            BY <1>0
        <3>. QED
            BY <3>1, RelBeforeGrows
    <2>. QED
        BY <1>0, <1>3, <1>4, <2>1
<1>7. UniqueRi(B)
    <2> SUFFICES ASSUME NEW p1 \in B, NEW p2 \in B, p1.seq # p2.seq,
                        NEW a \in 1..Len(p1.frames), NEW b \in 1..Len(p2.frames),
                        p1.frames[a].ri # None
                 PROVE  p1.frames[a].ri # p2.frames[b].ri
        BY DEF UniqueRi
    <2>1. PICK i \in 1..Len(ready) : p1 = BatchPk(i)
        OBVIOUS
    <2>2. PICK j \in 1..Len(ready) : p2 = BatchPk(j)
        OBVIOUS
    <2>3. a = 1 /\ b = 1 /\ i # j
        <3>1. i # j
            BY <2>1, <2>2
        <3>2. Len(p1.frames) = 1 /\ Len(p2.frames) = 1
            BY <1>5, <2>1, <2>2
        <3>. QED
            BY <3>1, <3>2
    <2>4. IsReliable(ready[i].rel)
        BY <1>5, <2>1, <2>3
    <2>5. CASE IsReliable(ready[j].rel)
        <3>1. RelBefore(i) # RelBefore(j)
            <4>1. i \in 1..(Len(ready) + 1) /\ j \in 1..(Len(ready) + 1)
                BY <1>0
            <4>2. RelBefore(i) \in Nat /\ RelBefore(j) \in Nat
                BY <1>3, <4>1
            <4>3. CASE i < j
                BY <2>4, <4>1, <4>2, <4>3, RelBeforeGrows
            <4>4. CASE j < i
                BY <2>5, <4>1, <4>2, <4>4, RelBeforeGrows
            <4>. QED
                BY <1>0, <2>3, <4>3, <4>4
        <3>2. p1.frames[a].ri = reliableSeq + RelBefore(i)
            BY <1>5, <2>1, <2>3, <2>4
        <3>3. p2.frames[b].ri = reliableSeq + RelBefore(j)
            BY <1>5, <2>2, <2>3, <2>5
        <3>4. RelBefore(i) \in Nat /\ RelBefore(j) \in Nat
            <4>1. i \in 1..(Len(ready) + 1) /\ j \in 1..(Len(ready) + 1)
                BY <1>0
            <4>. QED
                BY <1>3, <4>1
        <3>. QED
            BY <1>0, <3>1, <3>2, <3>3, <3>4
    <2>6. CASE ~IsReliable(ready[j].rel)
        BY <1>0, <1>3, <1>5, <2>1, <2>2, <2>3, <2>4, <2>6
    <2>. QED
        BY <2>5, <2>6
<1>8. RiIn(wire \cup B, 0, hi) /\ UniqueRi(wire \cup B)
    <2>1. RiIn(wire, 0, reliableSeq) /\ UniqueRi(wire)
        BY DEF RiBelow, ReliableIndexUnique, UniqueRi
    <2>. QED
        BY <1>0, <1>2, <1>4, <1>6, <1>7, <2>1, AddFresh
<1>. QED
    BY <1>1, <1>8 DEF RiBelow, ReadyUnrel, ReliableIndexUnique, UniqueRi

(* Every step keeps the strengthened invariant.                           *)
LEMMA RiStep ==
    ASSUME TypeOK, WireInv, RiBelow, ReadyUnrel, ReliableIndexUnique, [Next]_vars
    PROVE  RiBelow' /\ ReadyUnrel' /\ ReliableIndexUnique'
<1>1. CASE \E len \in Lengths, rel \in RelInputs, imm \in BOOLEAN,
             ch \in Channels \cup {None} : Insert(len, rel, imm, ch)
    BY <1>1, InsertRi
<1>2. CASE Update
    BY <1>2, UpdateRi
<1>3. ASSUME NEW rec \in PeerRecords, Ack(rec) PROVE RiBelow' /\ ReadyUnrel' /\ ReliableIndexUnique'
    BY <1>3 DEF Ack, RiBelow, ReadyUnrel, ReliableIndexUnique
<1>4. ASSUME NEW rec \in PeerRecords, Nack(rec) PROVE RiBelow' /\ ReadyUnrel' /\ ReliableIndexUnique'
    <2>1. wire' = wire
        BY <1>4 DEF Nack, WireInv, RecoveryOnWire
    <2>. QED
        BY <1>4, <2>1 DEF Nack, RiBelow, ReadyUnrel, ReliableIndexUnique
<1>5. CASE UNCHANGED vars
    BY <1>5 DEF vars, RiBelow, ReadyUnrel, ReliableIndexUnique
<1>. QED
    BY <1>1, <1>2, <1>3, <1>4, <1>5 DEF Next

(* Reliable indices are never shared: two FramePackets of different      *)
(* sequences written by send_frame, the deferred path or update's batch,  *)
(* or resent by the recovery flush or a NACK, never carry the same        *)
(* reliable index, for every MTU, channel set and reliability mix.        *)
THEOREM ReliableIndexUniqueHolds == Spec => []ReliableIndexUnique
<1>1. Init => RiInv
    BY DEF Init, RiInv, IInv, TypeOK, WireInv, SeqsBelow, RecoveryOnWire,
           ResendIdentical, RiBelow, RiIn, ReadyUnrel, ReliableIndexUnique
<1>2. RiInv /\ [Next]_vars => RiInv'
    BY TypeStep, WireStep, RiStep DEF RiInv, IInv
<1>3. RiInv => ReliableIndexUnique
    BY DEF RiInv
<1>. QED
    BY <1>1, <1>2, <1>3, PTL DEF Spec

=============================================================================
