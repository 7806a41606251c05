CONSTANTS
    Seqs <- MCSeqs
    AckSets <- MCAckSets
    Payloads <- MCPayloads
    Compounds <- MCCompounds
    CompoundOf <- MCCompoundOf
    CompoundSize <- MCCompoundSize
    ReplyLen <- MCReplyLen
    PacketOf <- MCPacketOf
    FragIdWrap = 2
    None = None
    PeerMtus <- MCPeerMtus
    a1 = a1
    a2 = a2
    Addrs <- MCAddrs
    MaxSends = 1
    MaxRecv = 3
SPECIFICATION Spec
INVARIANT WrittenOnce
