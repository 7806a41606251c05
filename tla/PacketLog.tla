------------------------------ MODULE PacketLog ------------------------------
(***************************************************************************)
(* What a RakNet sender promises about FramePacket sequences (spec 3:     *)
(* "FramePacket.sequence is strictly increasing per connection"; the      *)
(* RecoveryQueue "resends under the original sequence numbers, NOT        *)
(* renumbered").                                                           *)
(*                                                                         *)
(* log numbers the packets: log[s] is the packet with sequence s, for     *)
(* every s below next, with no gaps.  A step numbers zero or more new     *)
(* packets from next on and never changes an old number; every packet    *)
(* that reaches the wire (emitted) is a numbered one, and every newly     *)
(* numbered packet is emitted in the step that numbers it.  A resend is   *)
(* a step that emits an old log entry again.                              *)
(***************************************************************************)
EXTENDS Naturals

CONSTANT Pkts        \* the packets, records with a seq field

VARIABLES next, log, emitted

plvars == <<next, log, emitted>>

(* The packets the log has numbered.                                      *)
Numbered == {log[s] : s \in DOMAIN log}

Init ==
    /\ next = 0
    /\ log = [s \in {} |-> CHOOSE p \in Pkts : TRUE]
    /\ emitted = {}

(* One step of the sender: next moves on to next'; the entries below next *)
(* stay as they are, the new ones carry their own number and go out now;  *)
(* whatever else goes out was numbered before.                            *)
Send ==
    /\ next' \in Nat
    /\ next <= next'
    /\ DOMAIN log' = 0..(next' - 1)
    /\ \A s \in 0..(next - 1) : log'[s] = log[s]
    /\ \A s \in DOMAIN log' : log'[s] \in Pkts /\ log'[s].seq = s
    /\ \A s \in next..(next' - 1) : log'[s] \in emitted'
    /\ emitted \subseteq emitted'
    /\ emitted' \subseteq {log'[s] : s \in DOMAIN log'}

Spec == Init /\ [][Send]_plvars

=============================================================================
