SPECIFICATION Spec
CONSTANT
    FieldLists <- MCFieldLists
INVARIANTS
    OffsetsAligned
    FieldsDisjoint
    ElementsAligned
\* The struct is resolved.
CHECK_DEADLOCK FALSE
