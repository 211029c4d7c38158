CONSTANTS
    Views <- MCViews
    Scans <- MCScans
    Content <- MCContent
    Initial <- MCInitial
    Offered <- MCOffered
    Edits <- MCEdits
    Outcome <- MCOutcome
    MaxChoices = 2
    MaxEdits = 2
SPECIFICATION Spec
INVARIANT RecomputedFromTheFile
CHECK_DEADLOCK FALSE
