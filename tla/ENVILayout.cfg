\* Existing and created labels, with 15-bit ints: no product of the bounds overflows.
CONSTANTS
    Dims <- MCDims
    HeaderOffsets <- MCHeaderOffsets
    DataTypeCodes <- MCDataTypeCodes
    IntBits = 15
    HostLSB = TRUE
    Absent = Absent
    NULL = NULL
SPECIFICATION Spec
INVARIANT LayoutMatchesInterleave
INVARIANT CreateReopensAsCreated
