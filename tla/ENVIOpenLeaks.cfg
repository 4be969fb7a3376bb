\* Labels another program wrote, and the error returns of Open.
CONSTANTS
    Dims <- MCDims
    HeaderOffsets <- MCHeaderOffsets
    DataTypeCodes <- MCDataTypeCodes
    IntBits = 15
    HostLSB = TRUE
    Absent = Absent
    NULL = NULL
SPECIFICATION Spec
INVARIANT OpenReleasesOnError
