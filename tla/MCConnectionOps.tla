-------------------------- MODULE MCConnectionOps --------------------------
(***************************************************************************)
(* The peer of the model instances of Connection and Server.  Its         *)
(* FramePackets 0..3 carry a Connection Request, then New Incoming        *)
(* Connection with a game payload and the first fragment of a two-fragment *)
(* compound, then the second fragment with a Connected Ping, then a       *)
(* Disconnect.                                                              *)
(***************************************************************************)
EXTENDS ConnectionOps, TLC

MCSeqs == 0..3
MCAckSets == {{0}, {1, 2}}
MCPayloads == {"p1", "p2"}
MCCompounds == {"c"}
MCCompoundOf == [c \in MCCompounds |-> "p2"]
MCCompoundSize == [c \in MCCompounds |-> 2]

(* Connection Accepted is 96 bytes: a multiple of 48 but not of 50.      *)
MCReplyLen == [o \in OnlineKinds |->
                 CASE o = "ConnectionRequest" -> 96
                   [] o = "ConnectedPing"     -> 17
                   [] OTHER                   -> 0]

MCPacketOf ==
    0 :> << OnlineFrame("ConnectionRequest") >>
    @@ 1 :> << OnlineFrame("NewIncomingConnection"), GameFrame("p1"), FragFrame("c", 0) >>
    @@ 2 :> << FragFrame("c", 1), OnlineFrame("ConnectedPing") >>
    @@ 3 :> << OnlineFrame("Disconnect") >>

MCPeerMtus == {1400, 48}
MCPeerMtusOdd == {50}
=============================================================================
