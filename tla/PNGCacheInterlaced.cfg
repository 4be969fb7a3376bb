\* Interlaced image, whole-image buffer, allocation always succeeds.
CONSTANTS
    Height <- MCHeight
    NBands <- MCNBands
    Interlaced = TRUE
    AllocMayFail = FALSE
    Garbage = Garbage
    BadAccess = BadAccess
SPECIFICATION Spec
PROPERTY ImplementsScanlineCacheSpec
INVARIANT PngContractRespected
INVARIANT TypeOK
INVARIANT ServesRequestedRow
PROPERTY InterlacedDecodesOncePerFill
