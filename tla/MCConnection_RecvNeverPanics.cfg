CONSTANTS
    Seqs <- MCSeqs
    AckSets <- MCAckSets
    Payloads <- MCPayloads
    Compounds <- MCCompounds
    CompoundOf <- MCCompoundOf
    CompoundSize <- MCCompoundSize
    ReplyLen <- MCReplyLen
    PacketOf <- MCPacketOf
    FragIdWrap = 2
    MaxRecv = 6
    MaxSends = 2
    None = None
    PeerMtus <- MCPeerMtusOdd
SPECIFICATION Spec
CHECK_DEADLOCK FALSE
INVARIANT RecvNeverPanics
