\* After a failed whole-image allocation, is every later successful block
\* request still served from the requested row?
CONSTANTS
    Height <- MCHeight
    NBands <- MCNBands
    Interlaced = TRUE
    AllocMayFail = TRUE
    Garbage = Garbage
    BadAccess = BadAccess
SPECIFICATION Spec
INVARIANT ServesRequestedRow
