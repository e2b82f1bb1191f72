\* The lines of MC_DsetCli, one of them with an unbalanced quote before its newline.
CONSTANTS
    Names <- MCNames
    LongNames <- MCLongNames
    Revisions <- MCRevisions
    Aliases <- MCAliases
    OsArgs <- MCOsArgs
    Lines <- MCLines
    Existing <- MCExisting
    MaxCalls = 3
    AscendingLoad = TRUE
    MAX_ARGS = 5
    MaxOsArgc = 4
    MaxLines = 3
SPECIFICATION Spec
INVARIANT QuoteBalanceChecked
