SPECIFICATION Spec
CONSTANTS
    end = end
    End <- end
    Commands <- MCGetfiles
    NumArgsOf <- MCLargeRequest
    ReqCap = 1
    RespCap = 1
    BufferSize = 2
    IndexChunks = 2
    DataChunks = 3
INVARIANTS
    NoStuckExchange
