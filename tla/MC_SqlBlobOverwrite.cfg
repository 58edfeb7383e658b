CONSTANTS
    k1 = k1
    va = va
    vb = vb
    w1 = w1
    w2 = w2
    r1 = r1
    Keys <- MCKeys
    Values <- MCValues
    ValuesOf <- MCValuesOf
    NumChunks <- MCNumChunks
    NumShards = 2
    DataShard <- MCDataShard
    ChunkShard <- MCChunkShard
    Writers <- MCWriters
    Readers <- MCReaders
    MaxPuts = 1
    MaxGets = 1
SPECIFICATION Spec
INVARIANT GetReturnsAPutValue
