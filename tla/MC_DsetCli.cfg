\* main, the argv passes, restore streams and the interactive loop.
CONSTANTS
    Names <- MCNames
    LongNames <- MCLongNames
    Revisions <- MCRevisions
    Aliases <- MCAliases
    OsArgs <- MCOsArgs
    Lines <- MCLines
    Existing <- MCExisting
    MaxCalls = 3
    AscendingLoad = TRUE
    MAX_ARGS = 5
    MaxOsArgc = 4
    MaxLines = 3
SPECIFICATION Spec
INVARIANT TypeOK
INVARIANT DescendingPerName
INVARIANT DuplicatesRejected
INVARIANT HigherRevIsNext
INVARIANT HelpShowsHighest
INVARIANT CommandAsDocumented
INVARIANT BalancedLineTokens
INVARIANT FailedRestoreNotSuccess
