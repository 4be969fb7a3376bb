\* 16-bit samples, two interleaved bands: the two-byte loops.
CONSTANTS
    Width <- MCWidth
    Versions <- MCVersions
    NBands = 2
    BitDepth = 16
    Stale = Stale
SPECIFICATION Spec
PROPERTY ReadReturnsBandSamples
