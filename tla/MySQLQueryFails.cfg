\* mysql_query may fail: the member is left pointing at a freed result.
CONSTANTS
    NColumns <- MCNColumns
    FieldTypes <- MCFieldTypes
    TypeNames <- MCTypeNames
    SRIDs <- MCSRIDs
    QueryMayFail = TRUE
    NULL = NULL
SPECIFICATION Spec
INVARIANT ResultSetNeverMisused
\* The constructor returns once the definition is read.
CHECK_DEADLOCK FALSE
