------------------------------ MODULE PNGBandIO ------------------------------
(***************************************************************************)
(* The per-band transfer of PNGRasterBand::IReadBlock and IWriteBlock      *)
(* (src/frmts/raw/envidataset.cpp): once LoadScanline has returned         *)
(* CE_None, the band's samples are gathered out of, or scattered into, the *)
(* pixel-interleaved scanline buffer.  The model holds one buffered        *)
(* scanline; which image row it is, and when it is refilled, is the       *)
(* business of PNGScanlineCache.                                           *)
(*                                                                         *)
(* Bytes are abstracted to tags naming what they hold: the k-th byte of   *)
(* the sample of pixel x, band b, as libpng decoded it ("png") or as      *)
(* version v of a caller's block wrote it ("user").                        *)
(***************************************************************************)
EXTENDS Integers

CONSTANTS
    Width,      \* GetXSize(): pixels per row
    NBands,     \* poGDS->nBands
    BitDepth,   \* poGDS->nBitDepth
    Versions,   \* the distinct blocks a caller may write for one band
    Stale       \* a byte of the caller's block the transfer did not set

ASSUME WidthAssumption == Width \in Nat \ {0}
ASSUME NBandsAssumption == NBands \in Nat \ {0}
ASSUME BitDepthAssumption == BitDepth \in {1, 2, 4, 8, 16}
ASSUME VersionsAssumption == Versions \subseteq Nat \ {0} /\ Versions # {}

Bands == 1 .. NBands

(* if( poGDS->nBitDepth == 16 ) nPixelSize = 2; else nPixelSize = 1;     *)
nPixelSize == IF BitDepth = 16 THEN 2 ELSE 1
(* nPixelOffset = poGDS->nBands * nPixelSize *)
nPixelOffset == NBands * nPixelSize

RowIdx == 0 .. Width * nPixelOffset - 1     \* bytes of the scanline
BlockIdx == 0 .. Width * nPixelSize - 1     \* bytes of the caller's block

(* pabyScanline = pabyBuffer + ... + nPixelSize * (nBand - 1) *)
BandBase(nBand) == nPixelSize * (nBand - 1)

(* What the interleaved row holds at byte p once libpng has decoded it.  *)
DecodedByte(p) ==
    <<"png", p \div nPixelOffset, (p % nPixelOffset) \div nPixelSize + 1,
      p % nPixelSize>>
(* Byte j of the caller's block: sample j \div nPixelSize, byte j % size. *)
UserByte(v, nBand, j) == <<"user", v, j \div nPixelSize, nBand, j % nPixelSize>>
UserBlock(v, nBand) == [j \in BlockIdx |-> UserByte(v, nBand, j)]
BandBlock(nBand) ==
    [j \in BlockIdx |-> <<"png", j \div nPixelSize, nBand, j % nPixelSize>>]

Byte == {DecodedByte(p) : p \in RowIdx}
        \cup {UserByte(v, b, j) : v \in Versions, b \in Bands, j \in BlockIdx}

NoRead == [band |-> 0, data |-> [j \in BlockIdx |-> Stale]]

VARIABLES
    pabyBuffer, \* the buffered scanline, byte by byte
    written,    \* band -> version of the block last written to it, 0: none
    lastRead    \* the band and the block the last IReadBlock returned

vars == <<pabyBuffer, written, lastRead>>

TypeOK ==
    /\ pabyBuffer \in [RowIdx -> Byte]
    /\ written \in [Bands -> {0} \cup Versions]
    /\ lastRead \in [band : {0} \cup Bands,
                     data : [BlockIdx -> Byte \cup {Stale}]]

Init ==
    /\ pabyBuffer = [p \in RowIdx |-> DecodedByte(p)]
    /\ written = [b \in Bands |-> 0]
    /\ lastRead = NoRead

-----------------------------------------------------------------------------
(* Mutation: the band's base offset is nPixelSize * nBand. *)
GatherBandOffByOne(row, nBand) ==
    [j \in BlockIdx |-> row[(nPixelSize * nBand + j * nPixelOffset) % (Width * nPixelOffset)]]

(***************************************************************************)
(* The transfer out of the scanline into a freshly allocated block (whose  *)
(* bytes are Stale until set): one memcpy when the row has a single band,  *)
(* a strided byte loop for 8-bit samples, and for 16-bit samples the loop  *)
(*   pImage[i] = pabyScanline[i*nPixelOffset];                             *)
(*   pImage[i+1] = pabyScanline[i*nPixelOffset+1];                         *)
(* run for i = 0 .. nXSize-1 in order, each iteration over the last.      *)
(***************************************************************************)
Gather(row, nBand) ==
    LET base == BandBase(nBand)
        loop[i \in 0 .. Width] ==
            IF i = 0 THEN [j \in BlockIdx |-> Stale]
            ELSE [loop[i - 1] EXCEPT
                     ![i - 1] = row[base + (i - 1) * nPixelOffset],
                     ![i]     = row[base + (i - 1) * nPixelOffset + 1]]
    IN  CASE nPixelSize = nPixelOffset ->
               [j \in BlockIdx |-> row[base + j]]
          [] nPixelSize = 1 ->
               [j \in BlockIdx |-> row[base + j * nPixelOffset]]
          [] OTHER -> loop[Width]

(* Mutation: the 8-bit loop also writes the byte after the last pixel. *)
ScatterPastRow(row, nBand, img) ==
    LET base == BandBase(nBand)
    IN  [p \in 0 .. Width * nPixelOffset |->
            IF p >= base /\ (p - base) % nPixelOffset = 0
               /\ (p - base) \div nPixelOffset <= Width
            THEN img[((p - base) \div nPixelOffset) % Width]
            ELSE row[p]]

(***************************************************************************)
(* The mirror transfer of IWriteBlock, from the caller's block into the    *)
(* scanline, with the same three branches; the 16-bit loop is            *)
(*   pabyScanline[i*nPixelOffset] = pImage[i];                             *)
(*   pabyScanline[i*nPixelOffset+1] = pImage[i+1];                         *)
(***************************************************************************)
Scatter(row, nBand, img) ==
    LET base == BandBase(nBand)
        loop[i \in 0 .. Width] ==
            IF i = 0 THEN row
            ELSE [loop[i - 1] EXCEPT
                     ![base + (i - 1) * nPixelOffset]     = img[i - 1],
                     ![base + (i - 1) * nPixelOffset + 1] = img[i]]
    IN  CASE nPixelSize = nPixelOffset ->
               [p \in RowIdx |->
                  IF p - base \in BlockIdx THEN img[p - base] ELSE row[p]]
          [] nPixelSize = 1 ->
               [p \in RowIdx |->
                  IF p >= base /\ (p - base) % nPixelOffset = 0
                  THEN img[(p - base) \div nPixelOffset] ELSE row[p]]
          [] OTHER -> loop[Width]

(* IReadBlock after LoadScanline returned CE_None for the buffered row. *)
IReadBlock(nBand) ==
    /\ lastRead' = [band |-> nBand, data |-> Gather(pabyBuffer, nBand)]
    /\ UNCHANGED <<pabyBuffer, written>>

(* IWriteBlock of version v of a block after LoadScanline returned CE_None. *)
IWriteBlock(nBand, v) ==
    /\ pabyBuffer' = Scatter(pabyBuffer, nBand, UserBlock(v, nBand))
    /\ written' = [written EXCEPT ![nBand] = v]
    /\ UNCHANGED lastRead

Next ==
    \/ \E b \in Bands : IReadBlock(b)
    \/ \E b \in Bands, v \in Versions : IWriteBlock(b, v)

Spec == Init /\ [][Next]_vars

-----------------------------------------------------------------------------
(* What a read of band b must return: the block last written to it, or the *)
(* samples libpng decoded for that band.                                   *)
Expected(nBand) ==
    IF written[nBand] = 0 THEN BandBlock(nBand)
    ELSE UserBlock(written[nBand], nBand)

(***************************************************************************)
(* Interleave round-trip (spec section 8): every IReadBlock returns        *)
(* exactly the band's samples, in the caller's contiguous layout, after    *)
(* any sequence of IWriteBlock calls on any of the bands.                  *)
(***************************************************************************)
ReadReturnsBandSamples ==
    [][\A b \in Bands : IReadBlock(b) => lastRead'.data = Expected(b)]_vars

=============================================================================
