SPECIFICATION Spec
CONSTANTS
    Structs <- MCStructs
    Programs <- MCPrograms
INVARIANTS
    EmbedeesFirst
    ScalarsAligned
    OutcomeIsDetermined
PROPERTY
    LayoutEnds
\* The layout ends.
CHECK_DEADLOCK FALSE
