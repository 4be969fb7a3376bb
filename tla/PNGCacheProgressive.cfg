\* Progressive image: one-row buffer, rewinds by Restart.
CONSTANTS
    Height <- MCHeight
    NBands <- MCNBands
    Interlaced = FALSE
    AllocMayFail = FALSE
    Garbage = Garbage
    BadAccess = BadAccess
SPECIFICATION Spec
PROPERTY ImplementsScanlineCacheSpec
INVARIANT CursorMatchesDecoder
INVARIANT ServesRequestedRow
