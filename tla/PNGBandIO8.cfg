\* 8-bit samples, three interleaved bands: the strided byte loops.
CONSTANTS
    Width <- MCWidth
    Versions <- MCVersions
    NBands = 3
    BitDepth = 8
    Stale = Stale
SPECIFICATION Spec
INVARIANT TypeOK
PROPERTY ReadReturnsBandSamples
