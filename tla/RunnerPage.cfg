SPECIFICATION Spec
CONSTANTS
    Boxes <- MCBoxes
    Commands <- MCCommands
    CanStop <- MCCanStop
    MaxClicks = 3
INVARIANTS
    TypeOK
    OneAtATimeInOrder
    StopFindsTheRun
    AnswersItsOwnRun
    BoxesWaitForTheirOwnRun
PROPERTIES
    OnlyTheCurrentRunSettles
    EveryRunSettles
    RustBoxesFinish
CHECK_DEADLOCK FALSE
