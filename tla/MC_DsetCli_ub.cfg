\* Six words on the command line: main's argc exceeds MAX_ARGS.
CONSTANTS
    Names <- MCNames
    LongNames <- MCLongNames
    Revisions <- MCRevisions
    Aliases <- MCAliases
    OsArgs <- MCOsArgs
    Lines <- MCLines
    Existing <- MCExisting
    MaxCalls = 3
    AscendingLoad = TRUE
    MAX_ARGS = 5
    MaxOsArgc = 6
    MaxLines = 3
SPECIFICATION Spec
INVARIANT NoUndefinedBehaviour
