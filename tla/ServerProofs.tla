---------------------------- MODULE ServerProofs ----------------------------
(***************************************************************************)
(* Proofs about the server (Server.tla, src/server.rs): the map of        *)
(* connections stays well typed, with one write count per datagram of     *)
(* each send_queue, whatever the receive thread, the sender thread and    *)
(* send_stream do in whatever order.                                       *)
(*                                                                         *)
(* The write counts need every connection's send_queue to grow only: the *)
(* receive thread and send_stream extend the counts of a connection by   *)
(* as many zeros as its queue grew, which is the queue's length only when *)
(* the queue kept the old entries.  ConnectionOpsProofs shows each         *)
(* operation of a connection Good and growing; the invariant SInv adds    *)
(* that every connection of the map is Good and that the loop of          *)
(* handle_frames has frames left whenever the receive thread is in it.   *)
(***************************************************************************)
EXTENDS Server, ConnectionOpsProofs, TLAPS

USE ServerAssumption

SInv ==
    /\ TypeOK
    /\ \A a \in DOMAIN conns : Good(conns[a])
    /\ \A a \in DOMAIN loops : loops[a] # <<>>

(* The write counts of a queue q after it grew from the queue of w.       *)
LEMMA ExtendType ==
    ASSUME NEW S, NEW w \in Seq(0..2), NEW q \in Seq(S), Len(w) <= Len(q)
    PROVE  Extend(w, q) \in Seq(0..2) /\ Len(Extend(w, q)) = Len(q)
<1>. DEFINE z == [i \in 1..(Len(q) - Len(w)) |-> 0]
<1>1. Len(q) - Len(w) \in Nat
    OBVIOUS
<1>2. z \in Seq(0..2) /\ Len(z) = Len(q) - Len(w)
    BY <1>1
<1>. QED BY <1>2, ConcatProperties DEF Extend

(* One more write of every datagram keeps the counts in 0..2.             *)
LEMMA WrittenType ==
    ASSUME NEW w \in Seq(0..2)
    PROVE  /\ [i \in DOMAIN w |-> Written(w[i])] \in Seq(0..2)
           /\ Len([i \in DOMAIN w |-> Written(w[i])]) = Len(w)
<1>1. \A i \in DOMAIN w : Written(w[i]) \in 0..2
    BY DEF Written
<1>2. DOMAIN w = 1..Len(w)
    OBVIOUS
<1>. QED BY <1>1, <1>2

LEMMA InitSInv == Init => SInv
BY DEF Init, SInv, TypeOK

(* The receive thread's turn on datagram d from address a.                 *)
LEMMA ReceiveSInv ==
    ASSUME SInv, NEW a \in Addrs, NEW d \in Inbound, Receive(a, d)
    PROVE  SInv'
<1>. DEFINE c  == IF a \in DOMAIN conns THEN conns[a] ELSE NewConnection
            c2 == Recv(c, d)
            w  == IF a \in DOMAIN writes THEN writes[a] ELSE <<>>
<1>1. Good(c) /\ w \in Seq(0..2) /\ Len(w) = Len(c.sendQueue)
    BY NewConnectionGood DEF SInv, TypeOK, NewConnection
<1>2. CanRecv(c, d)
    BY DEF Receive
<1>3. Good(c2) /\ Grows(c, c2) /\ LoopFrames(c, d) \in Seq(Frames)
    BY <1>1, <1>2, RecvGood
<1>4. c2.sendQueue \in Seq(OutDatagrams)
    BY <1>3 DEF Good, ConnTypeOK
<1>5. Extend(w, c2.sendQueue) \in Seq(0..2)
      /\ Len(Extend(w, c2.sendQueue)) = Len(c2.sendQueue)
    BY <1>1, <1>3, <1>4, ExtendType DEF Grows
<1>6. /\ conns' = [b \in DOMAIN conns \cup {a} |-> IF b = a THEN c2 ELSE conns[b]]
      /\ writes' = [b \in DOMAIN conns \cup {a} |->
                      IF b = a THEN Extend(w, c2.sendQueue) ELSE writes[b]]
      /\ loops' = LoopOf(a, LoopFrames(c, d))
      /\ nRecv' = nRecv + 1 /\ nRecv < MaxRecv /\ nSends' = nSends
    BY DEF Receive
<1>7. /\ loops' \in [DOMAIN loops' -> Seq(Frames)]
      /\ DOMAIN loops' \subseteq DOMAIN conns'
      /\ \A b \in DOMAIN loops' : loops'[b] # <<>>
    BY <1>3, <1>6 DEF LoopOf
<1>. QED BY <1>3, <1>5, <1>6, <1>7 DEF SInv, TypeOK, Good

(* One turn of the loop of handle_frames in the recv of address a.         *)
LEMMA HandleFrameSInv ==
    ASSUME SInv, NEW a \in Addrs, HandleFrame(a)
    PROVE  SInv'
<1>1. a \in DOMAIN loops /\ a \in DOMAIN conns /\ loops[a] # <<>>
      /\ loops[a] \in Seq(Frames)
    BY DEF HandleFrame, SInv, TypeOK
<1>2. Head(loops[a]) \in Frames /\ Tail(loops[a]) \in Seq(Frames)
    BY <1>1, HeadTailProperties
<1>. DEFINE c2 == FrameStep(conns[a], Head(loops[a]))
<1>3. Good(c2) /\ Grows(conns[a], c2)
    BY <1>1, <1>2, FrameStepGood, FrameStepGrows DEF SInv
<1>4. Extend(writes[a], c2.sendQueue) \in Seq(0..2)
      /\ Len(Extend(writes[a], c2.sendQueue)) = Len(c2.sendQueue)
    <2>1. writes[a] \in Seq(0..2) /\ Len(writes[a]) = Len(conns[a].sendQueue)
        BY <1>1 DEF SInv, TypeOK
    <2>2. c2.sendQueue \in Seq(OutDatagrams)
        BY <1>3 DEF Good, ConnTypeOK
    <2>. QED BY <1>3, <2>1, <2>2, ExtendType DEF Grows
<1>5. /\ conns' = [conns EXCEPT ![a] = c2]
      /\ writes' = [writes EXCEPT ![a] = Extend(@, c2.sendQueue)]
      /\ loops' = LoopOf(a, Tail(loops[a]))
      /\ UNCHANGED <<nRecv, nSends>>
    BY DEF HandleFrame
<1>6. /\ loops' \in [DOMAIN loops' -> Seq(Frames)]
      /\ DOMAIN loops' \subseteq DOMAIN conns'
      /\ \A b \in DOMAIN loops' : loops'[b] # <<>>
    BY <1>1, <1>2, <1>5 DEF LoopOf
<1>. QED BY <1>1, <1>3, <1>4, <1>5, <1>6 DEF SInv, TypeOK, Good

(* send_stream(a, instant).                                                *)
LEMMA SendStreamSInv ==
    ASSUME SInv, NEW a \in Addrs, NEW instant \in BOOLEAN, SendStream(a, instant)
    PROVE  SInv'
<1>1. Idle /\ nSends < MaxSends /\ nSends' = nSends + 1
      /\ UNCHANGED <<nRecv, loops>>
    BY DEF SendStream
<1>2. CASE a \in DOMAIN conns
    <2>. DEFINE c2 == SendOp(conns[a], instant)
    <2>1. Good(c2) /\ Grows(conns[a], c2)
        BY <1>2, SendOpGood, SendOpGrows DEF SInv
    <2>2. Extend(writes[a], c2.sendQueue) \in Seq(0..2)
          /\ Len(Extend(writes[a], c2.sendQueue)) = Len(c2.sendQueue)
        <3>1. writes[a] \in Seq(0..2) /\ Len(writes[a]) = Len(conns[a].sendQueue)
            BY <1>2 DEF SInv, TypeOK
        <3>2. c2.sendQueue \in Seq(OutDatagrams)
            BY <2>1 DEF Good, ConnTypeOK
        <3>. QED BY <2>1, <3>1, <3>2, ExtendType DEF Grows
    <2>3. /\ conns' = [conns EXCEPT ![a] = c2]
          /\ writes' = [writes EXCEPT ![a] = Extend(@, c2.sendQueue)]
        BY <1>2 DEF SendStream
    <2>. QED BY <1>1, <2>1, <2>2, <2>3 DEF SInv, TypeOK, Good, Idle
<1>3. CASE a \notin DOMAIN conns
    <2>1. UNCHANGED <<conns, writes>>
        BY <1>3 DEF SendStream
    <2>. QED BY <1>1, <2>1 DEF SInv, TypeOK, Idle
<1>. QED BY <1>2, <1>3

(* The sender thread's turn: evict Offline connections, write the rest.  *)
LEMMA TickSInv ==
    ASSUME SInv, Tick
    PROVE  SInv'
<1>. DEFINE keep == {a \in DOMAIN conns : conns[a].state # "Offline"}
<1>1. /\ conns' = [a \in keep |-> conns[a]]
      /\ writes' = [a \in keep |-> [i \in DOMAIN writes[a] |-> Written(writes[a][i])]]
      /\ Idle /\ UNCHANGED <<loops, nRecv, nSends>>
    BY DEF Tick
<1>2. \A a \in keep : /\ writes'[a] \in Seq(0..2)
                      /\ Len(writes'[a]) = Len(conns'[a].sendQueue)
    <2>1. SUFFICES ASSUME NEW a \in keep
                   PROVE  /\ writes'[a] \in Seq(0..2)
                          /\ Len(writes'[a]) = Len(conns'[a].sendQueue)
        OBVIOUS
    <2>2. writes[a] \in Seq(0..2) /\ Len(writes[a]) = Len(conns[a].sendQueue)
        BY DEF SInv, TypeOK
    <2>. QED BY <1>1, <2>2, WrittenType
<1>. QED BY <1>1, <1>2 DEF SInv, TypeOK, Idle

LEMMA NextSInv == SInv /\ [Next]_vars => SInv'
<1>. SUFFICES ASSUME SInv, [Next]_vars PROVE SInv'
    OBVIOUS
<1>1. CASE UNCHANGED vars
    BY <1>1 DEF SInv, TypeOK, vars
<1>. QED BY <1>1, ReceiveSInv, HandleFrameSInv, SendStreamSInv, TickSInv DEF Next

(* The map of connections stays well typed under every interleaving of    *)
(* the receive thread (connection creation and recv, turn by turn of its  *)
(* frame loop), the sender thread (eviction of Offline connections and    *)
(* the writes of every queue) and send_stream; each connection's write    *)
(* counts match its send_queue one for one.                                *)
THEOREM TypeCorrect == Spec => []TypeOK
<1>1. SInv => TypeOK
    BY DEF SInv
<1>. QED BY InitSInv, NextSInv, <1>1, PTL DEF Spec

====
