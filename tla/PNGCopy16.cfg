\* 16-bit copy of a UInt16 source.
CONSTANTS
    XSize = 2
    YSize = 2
    BandCounts <- MCBandCounts
    SrcTypes = {"UInt16"}
    RasterIOMayFail = FALSE
    OpenMayFail = TRUE
    Uninit = Uninit
SPECIFICATION Spec
INVARIANT CopyPreservesSamples
CHECK_DEADLOCK FALSE
