------------------------------- MODULE Server -------------------------------
(***************************************************************************)
(* RakNetServer, src/server.rs: a map from address to Connection shared   *)
(* under one Mutex by two threads and the application.                   *)
(*   - The receive thread takes one datagram, creates the connection of   *)
(*     its address if there is none and calls its recv.                   *)
(*   - The sender thread, every 50 ms, iterates over a clone of the map:  *)
(*     it evicts connections in state Offline, ticks the others and       *)
(*     writes the send_queue of each to the socket, then clears the       *)
(*     queue of the clone, not of the map.                                *)
(*   - send_stream calls send on the connection of an address.            *)
(* Each runs with the lock held, so each is one atomic step, except that  *)
(* recv of a FramePacket is split at its loop (as in Connection.tla): the *)
(* receive thread's turn runs recv up to the loop of handle_frames, and   *)
(* each turn of that loop is a step of its own, with the lock still held. *)
(* The connections' own steps are the operators of ConnectionOps.         *)
(*                                                                         *)
(* writes[a][i] counts how often the i-th datagram of a's send_queue has  *)
(* been written to the socket, saturating at 2 (written again); it only  *)
(* observes.                                                               *)
(***************************************************************************)
EXTENDS ConnectionOps

CONSTANTS
    Addrs,         \* remote addresses that send datagrams
    MaxRecv,       \* bound on datagrams received
    MaxSends       \* bound on send_stream calls

ASSUME ServerAssumption == MaxRecv \in Nat /\ MaxSends \in Nat

VARIABLES
    conns,         \* connections: address -> connection record
    writes,        \* address -> per send_queue entry, the socket writes of it
    loops,         \* the address whose recv is in its frame loop -> the
                   \* frames still to handle (an empty function otherwise)
    nRecv,         \* datagrams received so far
    nSends         \* send_stream calls so far

vars == <<conns, writes, loops, nRecv, nSends>>

(* RakNetServer::new: an empty map.                                        *)
Init ==
    /\ conns = [a \in {} |-> NewConnection]
    /\ writes = [a \in {} |-> <<>>]
    /\ loops = [a \in {} |-> <<>>]
    /\ nRecv = 0
    /\ nSends = 0

(* A panic in recv kills the receive thread with the lock held: the Mutex *)
(* is poisoned and every later lock().unwrap() panics (a release build    *)
(* spins with the lock held instead).  Either way nothing else runs.      *)
Alive == \A a \in DOMAIN conns : ~conns[a].crashed

(* The write counts of a send_queue after new entries were appended.      *)
Extend(w, q) == w \o [i \in 1..(Len(q) - Len(w)) |-> 0]

(* One more socket write, saturating at 2.                                 *)
Written(n) == IF n >= 2 THEN 2 ELSE n + 1

(* The receive thread is not within a loop of handle_frames.              *)
Idle == DOMAIN loops = {}

(* The loop of a's recv with frames fs still to handle; none when empty.  *)
LoopOf(a, fs) == [b \in IF fs = <<>> THEN {} ELSE {a} |-> fs]

-----------------------------------------------------------------------------
(* One turn of the receive thread for a datagram d from address a: the    *)
(* connection is created by Connection::new when the map has none, then   *)
(* recv runs on it, up to the loop of handle_frames if d is a FramePacket. *)
(* A socket error (recv_from Err) changes nothing.                        *)
Receive(a, d) ==
    /\ Alive
    /\ Idle
    /\ nRecv < MaxRecv
    /\ LET c  == IF a \in DOMAIN conns THEN conns[a] ELSE NewConnection
           c2 == Recv(c, d)
           w  == IF a \in DOMAIN writes THEN writes[a] ELSE <<>>
       IN  /\ CanRecv(c, d)
           /\ conns' = [b \in DOMAIN conns \cup {a} |-> IF b = a THEN c2 ELSE conns[b]]
           /\ writes' = [b \in DOMAIN conns \cup {a} |->
                           IF b = a THEN Extend(w, c2.sendQueue) ELSE writes[b]]
           /\ loops' = LoopOf(a, LoopFrames(c, d))
    /\ nRecv' = nRecv + 1
    /\ UNCHANGED nSends

(* One turn of the loop of handle_frames in the recv of address a, still  *)
(* under the lock.                                                          *)
HandleFrame(a) ==
    /\ Alive
    /\ a \in DOMAIN loops
    /\ LET c2 == FrameStep(conns[a], Head(loops[a]))
       IN  /\ conns' = [conns EXCEPT ![a] = c2]
           /\ writes' = [writes EXCEPT ![a] = Extend(@, c2.sendQueue)]
    /\ loops' = LoopOf(a, Tail(loops[a]))
    /\ UNCHANGED <<nRecv, nSends>>

(* send_stream(address, stream, instant): send on the connection of the   *)
(* address, or nothing when the map has none.                             *)
SendStream(a, instant) ==
    /\ Alive
    /\ Idle
    /\ nSends < MaxSends
    /\ IF a \in DOMAIN conns
         THEN LET c2 == SendOp(conns[a], instant)
              IN  /\ conns' = [conns EXCEPT ![a] = c2]
                  /\ writes' = [writes EXCEPT ![a] = Extend(@, c2.sendQueue)]
         ELSE UNCHANGED <<conns, writes>>
    /\ nSends' = nSends + 1
    /\ UNCHANGED <<nRecv, loops>>

(* Mutant of Tick: evicts Disconnected connections along with Offline    *)
(* ones, fresh connections included.                                     *)
TickEvictDisconnected ==
    /\ Alive
    /\ Idle
    /\ LET keep == {a \in DOMAIN conns : conns[a].state \notin {"Offline", "Disconnected"}}
       IN  /\ conns' = [a \in keep |-> conns[a]]
           /\ writes' = [a \in keep |-> [i \in DOMAIN writes[a] |-> Written(writes[a][i])]]
    /\ UNCHANGED <<loops, nRecv, nSends>>

(* One turn of the sender thread.  Connections in state Offline are       *)
(* removed from the map; every other one is ticked (do_tick is empty) and *)
(* its whole send_queue written to the socket, in order, whether the write *)
(* succeeds or not.  The queue cleared is the clone's, so the map keeps   *)
(* every datagram.                                                         *)
Tick ==
    /\ Alive
    /\ Idle
    /\ LET keep == {a \in DOMAIN conns : conns[a].state # "Offline"}
       IN  /\ conns' = [a \in keep |-> conns[a]]
           /\ writes' = [a \in keep |-> [i \in DOMAIN writes[a] |-> Written(writes[a][i])]]
    /\ UNCHANGED <<loops, nRecv, nSends>>

Next ==
    \/ \E a \in Addrs, d \in Inbound : Receive(a, d)
    \/ \E a \in Addrs, instant \in BOOLEAN : SendStream(a, instant)
    \/ \E a \in Addrs : HandleFrame(a)
    \/ Tick

(* The sender thread loops for ever, sleeping 50 ms between turns; the    *)
(* receive thread holds the lock only while it handles a datagram, so a  *)
(* turn of the sender that can do something is not put off for ever; and *)
(* recv runs its loop over the frames to the end unless it panics.        *)
Spec == Init /\ [][Next]_vars /\ WF_vars(Tick)
            /\ WF_vars(\E a \in Addrs : HandleFrame(a))

-----------------------------------------------------------------------------
(***************************************************************************)
(* Properties.                                                             *)
(***************************************************************************)

(* Every connection of the map is well typed, one write count per entry   *)
(* of its send_queue.                                                      *)
TypeOK ==
    /\ DOMAIN conns \subseteq Addrs
    /\ \A a \in DOMAIN conns : ConnTypeOK(conns[a])
    /\ DOMAIN writes = DOMAIN conns
    /\ \A a \in DOMAIN writes : /\ writes[a] \in Seq(0..2)
                                /\ Len(writes[a]) = Len(conns[a].sendQueue)
    /\ loops \in [DOMAIN loops -> Seq(Frames)] /\ DOMAIN loops \subseteq DOMAIN conns
    /\ nRecv \in 0..MaxRecv /\ nSends \in 0..MaxSends

(* Every datagram a connection queues, from recv or from send_stream, is  *)
(* eventually written to the socket by the sender thread, however the    *)
(* receive thread and the application interleave with it.                 *)
QueuedEventuallyWritten ==
    \A a \in Addrs :
        a \in DOMAIN conns ~> /\ a \in DOMAIN conns
                              /\ \A i \in DOMAIN writes[a] : writes[a][i] >= 1

(* Spec 4.5: a tick drains the send queue, so each queued datagram goes  *)
(* to the socket once.                                                     *)
WrittenOnce ==
    \A a \in DOMAIN writes : \A i \in DOMAIN writes[a] : writes[a][i] <= 1

(* Spec 3 and 4.6(f): a connection that moved to Disconnected after a   *)
(* session (it has received FramePackets, which only a Connecting or      *)
(* Connected connection handles) is evicted from the map by the next     *)
(* tick of the sender thread.  The sender thread evicts Offline ones only *)
(* (server.rs:107).                                                        *)
ClosedEvicted ==
    [][Tick => \A a \in DOMAIN conns :
                  conns[a].state = "Disconnected" /\ conns[a].received # {}
                      => a \notin DOMAIN conns']_vars

=============================================================================
