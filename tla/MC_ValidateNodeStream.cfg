CONSTANTS
    r = r
    m = m
    s1 = s1
    s2 = s2
    none = none
    Changesets <- MCChangesets
    Gen <- MCGen
    None <- none
    MaxItems = 4
SPECIFICATION Spec
INVARIANTS
    EmittedIsRevsetOrder
    PanicsOnlyOnInvalidInput
