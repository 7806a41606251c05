CONSTANTS
    MTU = 1400
    OVERHEAD = 60
    Lengths <- MCLengths
    Channels <- MCChannels
    RelInputs <- MCRelInputs
    None = None
    RecordKinds = {"single", "range"}
    MaxInserts = 3
SPECIFICATION Spec
INVARIANT PayloadTransmitted
