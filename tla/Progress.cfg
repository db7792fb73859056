SPECIFICATION Spec
CHECK_DEADLOCK FALSE
PROPERTIES
    DeadIsReplaced
    HelpersEnd
    RequestSent
    FlagCleared
    FilledIsTold
