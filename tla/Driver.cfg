SPECIFICATION Spec
CONSTANTS
    Sources <- MCAllPrograms
    MaxItems = 3
    Labels = 2
INVARIANTS
    AssembledOnlyIfSound
    OutcomeIsSequential
    UniqueLabels
PROPERTY
    Terminates
\* The process ends.
CHECK_DEADLOCK FALSE
