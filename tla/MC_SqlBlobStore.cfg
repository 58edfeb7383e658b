CONSTANTS
    k1 = k1
    k2 = k2
    big = big
    small = small
    w1 = w1
    w2 = w2
    r1 = r1
    r2 = r2
    Keys <- MCKeys
    Values <- MCValues
    ValuesOf <- MCValuesOf
    NumChunks <- MCNumChunks
    NumShards = 2
    DataShard <- MCDataShard
    ChunkShard <- MCChunkShard
    Writers <- MCWriters
    Readers <- MCReaders
    MaxPuts = 1
    MaxGets = 2
SYMMETRY Symmetry
SPECIFICATION Spec
INVARIANT TypeOK
INVARIANT GetReturnsAPutValue
INVARIANT ConfirmedKeyIsFound
INVARIANT NoMissingChunk
PROPERTY Refinement
