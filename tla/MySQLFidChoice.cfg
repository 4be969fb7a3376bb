\* The FID column chosen when ogc_fid and a primary key both appear.
CONSTANTS
    NColumns <- MCNColumns
    FieldTypes <- MCFieldTypes
    TypeNames <- MCTypeNames
    SRIDs <- MCSRIDs
    QueryMayFail = FALSE
    NULL = NULL
SPECIFICATION Spec
INVARIANT FIDPrefersOgcFid
\* The constructor returns once the definition is read.
CHECK_DEADLOCK FALSE
