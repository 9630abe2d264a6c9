SPECIFICATION Spec
CONSTANTS
    PointerBits = 64
    Config <- Configs
    Speed = {"full", "high"}
    BufferLength = {0, 1, 17}
    PacketOffset <- Offsets
    ReadLength = {1, 34, 48, 50, 82}
    AnswerLength = {0, 1, 18}
    UShortSize = 16
    DescriptorByte = DescriptorByte
    StrayByte = StrayByte
    NoConfig = NoConfig
    NoHeader = NoHeader
    NoAnswer = NoAnswer
    NoSetup = NoSetup
CHECK_DEADLOCK FALSE
INVARIANTS
    TypeOK
    MessageComplete
    BufferHoldsAnswer
    
    PipeReachesEndpoint
PROPERTIES
    OnlyUnfitRequestsFail
    PipesDescribeEndpoints
    SelectionTakesEffect
