SPECIFICATION Spec
CONSTANTS
    Boxes <- PairBoxes
    Commands <- PairCommands
    CanStop <- PairCanStop
    MaxClicks = 2
PROPERTY FailedStartIsTriedAfresh
CHECK_DEADLOCK FALSE
