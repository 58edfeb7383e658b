SPECIFICATION Spec
CONSTANTS
    a = a
    b = b
    null = null
    r0 = r0
    r1 = r1
    r2 = r2
    ta0 = ta0
    ta1 = ta1
    tb = tb
    tb2 = tb2
    tx = tx
    ty = ty
    Trees <- MCTrees
    Children <- MCChildrenSharedHash
    NullTree <- null
    Requests <- MCRequests
    Corrupt <- MCCorrupt
INVARIANT
    EveryNeededTreeSent
