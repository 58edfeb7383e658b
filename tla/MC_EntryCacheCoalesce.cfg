CONSTANTS
    c1 = c1
    c2 = c2
    noname = noname
    Entries <- MCEntries
    Callers <- MCCallers
    MaxCalls = 1
    UseCache = TRUE
    NoName = noname
SPECIFICATION Spec
INVARIANT AtMostOneComputePerKey
