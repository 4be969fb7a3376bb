\* Every server call succeeds: the handle discipline of ReadResultDefinition.
CONSTANTS
    NColumns <- MCNColumns
    FieldTypes <- MCFieldTypes
    TypeNames <- MCTypeNames
    SRIDs <- MCSRIDs
    QueryMayFail = FALSE
    NULL = NULL
SPECIFICATION Spec
INVARIANT TypeOK
INVARIANT ResultSetNeverMisused
\* The constructor returns once the definition is read.
CHECK_DEADLOCK FALSE
