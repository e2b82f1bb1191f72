\* Any sequence of four blob calls.
CONSTANTS
    v1 = v1
    v2 = v2
    Opts <- MCOpts
    Vals <- MCVals
    FlagsVals <- MCFlagsVals
    CadtVals <- MCCadtVals
    IgnoredOpts <- MCIgnoredOpts
    MaxCalls = 4
    TextOpts <- MCTextOpts
    Tokens <- MCTokens
    Numbers <- MCNumbers
    Candidates <- MCCandidates
SYMMETRY Perms
SPECIFICATION Spec
\* The calls end at the bound: the blob then stays as it is.
CHECK_DEADLOCK FALSE
INVARIANT TypeOK
INVARIANT SingleUse
INVARIANT ParsedAsSpecified
INVARIANT SavedRestores
