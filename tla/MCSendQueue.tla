---------------------------- MODULE MCSendQueue ----------------------------
(* SendQueue on a connection with mtu_size 1400: payloads of 100 bytes    *)
(* (one small frame), 1380 bytes (over the MTU once framed, yet under     *)
(* mtu_size + overhead) and 2000 bytes (split into two fragments).        *)
EXTENDS SendQueue

MCLengths == {100, 2000}
MCLengthsAll == {100, 1380, 2000}
MCChannels == {0, 1}
MCRelInputs == {"Unreliable", "Reliable", "ReliableOrd", "UnreliableSeq"}
=============================================================================
