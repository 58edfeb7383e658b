CONSTANTS
    absent = absent
    Nodes <- MCNodes
    Absent <- absent
SPECIFICATION Spec
INVARIANT TypeOK
INVARIANT ParentsFetchedOnce
PROPERTY Refinement
