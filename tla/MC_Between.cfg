CONSTANTS
    null = null
    unknown = unknown
    Nodes <- MCNodes
    Null <- null
    Unknown <- unknown
    Repos <- MCRepos
    Queries <- MCQueries
SPECIFICATION Spec
INVARIANT TypeOK
INVARIANT BetweenMatchesReference
