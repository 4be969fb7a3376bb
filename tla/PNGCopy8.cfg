\* 8-bit copies (Byte, and Float32 when not strict), RasterIO reliable.
CONSTANTS
    XSize = 2
    YSize = 3
    BandCounts <- MCBandCounts
    SrcTypes = {"Byte", "Float32"}
    RasterIOMayFail = FALSE
    OpenMayFail = TRUE
    Uninit = Uninit
SPECIFICATION Spec
INVARIANT TypeOK
INVARIANT CopyPreservesSamples
CHECK_DEADLOCK FALSE
