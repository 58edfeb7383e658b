SPECIFICATION FairSpec
CONSTANTS
    end = end
    End <- end
    Commands <- MCCommands
    NumArgsOf <- MCNumArgsOf
    ReqCap = 1
    RespCap = 1
    BufferSize = 2
    IndexChunks = 2
    DataChunks = 3
INVARIANTS
    TypeOK
PROPERTIES
    Refinement
    ExchangeCompletes
