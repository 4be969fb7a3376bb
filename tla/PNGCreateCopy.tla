---------------------------- MODULE PNGCreateCopy ----------------------------
(***************************************************************************)
(* PNGCreateCopy (envidataset.cpp): the rudimentary checks, the choice of *)
(* colour type and bit depth, the file and the IHDR, then one scanline    *)
(* per image line assembled band by band with RasterIO into a             *)
(* pixel-interleaved buffer and handed to png_write_rows, and finally     *)
(* GDALOpen of the written file.                                          *)
(*                                                                         *)
(* Samples are identities <<band, x, y>> of the source.  A byte of the    *)
(* file is a tag: the GDT_Byte conversion of a sample, the high or the    *)
(* low byte of its 16-bit value, or Uninit for bytes of the CPLMalloc     *)
(* buffer nothing wrote.  The file is the sequence of rows libpng        *)
(* received, each the first RowBytes bytes of the scanline buffer.        *)
(***************************************************************************)
EXTENDS Integers, Sequences

CONSTANTS
    XSize,            \* nXSize of the source
    YSize,            \* nYSize of the source
    BandCounts,       \* GetRasterCount values the source may have
    SrcTypes,         \* data types band 1 of the source may have
    RasterIOMayFail,  \* whether a band's RasterIO may return CE_Failure
    OpenMayFail,      \* whether VSIFOpen may return NULL
    Uninit            \* a byte of the scanline buffer nothing wrote

ASSUME SizeAssumption == XSize \in Nat \ {0} /\ YSize \in Nat \ {0}
ASSUME BandCountsAssumption == BandCounts \subseteq Nat
ASSUME TypesAssumption == SrcTypes \subseteq {"Byte", "UInt16", "Float32"}
ASSUME FlagsAssumption == RasterIOMayFail \in BOOLEAN /\ OpenMayFail \in BOOLEAN

VARIABLES
    nBands,     \* poSrcDS->GetRasterCount()
    srcType,    \* band 1's GetRasterDataType()
    bStrict,    \* the caller's bStrict
    nBitDepth,  \* 8 or 16, chosen from srcType
    pc,         \* "start", "copy" (inside the line loop) or "done"
    iLine,      \* the line loop's counter
    scanline,   \* pabyScanline, byte index -> byte tag
    file,       \* the rows written by png_write_rows, or <<>>
    result      \* "none" before return, then "NULL" or "dataset"

vars == <<nBands, srcType, bStrict, nBitDepth, pc, iLine, scanline, file,
          result>>

Lines == 0 .. YSize - 1
Pixels == 0 .. XSize - 1
Sample == [band : 1 .. 4, x : Pixels, y : Lines]
ByteTag == {<<k, s>> : k \in {"byte", "hi", "lo"}, s \in Sample} \cup {Uninit}

(* The bytes of a scanline: CPLMalloc( nBands * nXSize * 2 ). *)
ScanBytes == 0 .. nBands * XSize * 2 - 1

(* The bytes of one PNG row at the chosen depth. *)
RowBytes == 0 .. nBands * XSize * (nBitDepth \div 8) - 1

TypeOK ==
    /\ nBands \in BandCounts
    /\ srcType \in SrcTypes
    /\ bStrict \in BOOLEAN
    /\ nBitDepth \in {8, 16}
    /\ pc \in {"start", "copy", "done"}
    /\ iLine \in 0 .. YSize
    /\ pc = "copy" => scanline \in [ScanBytes -> ByteTag]
    /\ Len(file) <= YSize
    /\ result \in {"none", "NULL", "dataset"}

(* The source dataset and the caller's bStrict are the inputs. *)
Init ==
    /\ nBands \in BandCounts
    /\ srcType \in SrcTypes
    /\ bStrict \in BOOLEAN
    /\ nBitDepth = 8
    /\ pc = "start"
    /\ iLine = 0
    /\ scanline = <<>>
    /\ file = <<>>
    /\ result = "none"

(* The rudimentary checks: 1 to 4 bands, and, when bStrict, a Byte or     *)
(* UInt16 band 1.  Either returns NULL before any file is created.         *)
Rejected ==
    \/ nBands \notin 1 .. 4
    \/ srcType \notin {"Byte", "UInt16"} /\ bStrict

(* The checks pass; nBitDepth is 16 only for UInt16; VSIFOpen may fail    *)
(* and return NULL; otherwise the IHDR is written and the scanline buffer  *)
(* is allocated, uninitialised.                                           *)
Start ==
    /\ pc = "start"
    /\ IF Rejected
       THEN /\ result' = "NULL"
            /\ pc' = "done"
            /\ UNCHANGED <<nBitDepth, scanline>>
       ELSE /\ nBitDepth' = IF srcType = "UInt16" THEN 16 ELSE 8
            /\ \/ OpenMayFail /\ result' = "NULL" /\ pc' = "done"
                  /\ UNCHANGED scanline
               \/ /\ pc' = "copy"
                  /\ scanline' = [i \in 0 .. nBands * XSize * 2 - 1 |-> Uninit]
                  /\ UNCHANGED result
    /\ UNCHANGED <<nBands, srcType, bStrict, iLine, file>>

(* The byte RasterIO( ..., GDT_Byte, nBands, nBands * nXSize ) puts at     *)
(* pabyScanline + iBand + x * nBands: the GDT_Byte conversion of the       *)
(* sample, whatever the bit depth of the PNG.                              *)
ByteOf(s) == <<"byte", s>>

(* Mutant: the bands laid one after the other (pixel spacing 1). *)
PixelOffsetBandSequential(b, x) == (b - 1) * XSize + x

(* Where band b of pixel x lands: pabyScanline + iBand, pixel spacing     *)
(* nBands.                                                                *)
PixelOffset(b, x) == x * nBands + (b - 1)

(* Mutant: the loop bound tested with <=. *)
CopyLineNoBound ==
    /\ pc = "copy"
    /\ iLine <= YSize
    /\ \E failed \in (IF RasterIOMayFail THEN SUBSET (1 .. nBands) ELSE {{}}) :
         LET hit(i) == {bx \in ((1 .. nBands) \ failed) \X Pixels :
                           PixelOffset(bx[1], bx[2]) = i}
             filled == [i \in DOMAIN scanline |->
                          IF hit(i) = {} THEN scanline[i]
                          ELSE LET bx == CHOOSE bx \in hit(i) : TRUE
                               IN  ByteOf([band |-> bx[1], x |-> bx[2],
                                           y |-> iLine])]
         IN  /\ scanline' = filled
             /\ file' = Append(file, [j \in RowBytes |-> filled[j]])
    /\ iLine' = iLine + 1
    /\ UNCHANGED <<nBands, srcType, bStrict, nBitDepth, pc, result>>

(* One line: each band's RasterIO (which may fail, its eErr unread,       *)
(* leaving that band's bytes as they were), then png_write_rows of the    *)
(* buffer, which libpng reads for the row length of the PNG.  The bands   *)
(* write disjoint bytes, so their order within the line does not matter.  *)
CopyLine ==
    /\ pc = "copy"
    /\ iLine < YSize
    /\ \E failed \in (IF RasterIOMayFail THEN SUBSET (1 .. nBands) ELSE {{}}) :
         LET hit(i) == {bx \in ((1 .. nBands) \ failed) \X Pixels :
                           PixelOffset(bx[1], bx[2]) = i}
             filled == [i \in DOMAIN scanline |->
                          IF hit(i) = {} THEN scanline[i]
                          ELSE LET bx == CHOOSE bx \in hit(i) : TRUE
                               IN  ByteOf([band |-> bx[1], x |-> bx[2],
                                           y |-> iLine])]
         IN  /\ scanline' = filled
             /\ file' = Append(file, [j \in RowBytes |-> filled[j]])
    /\ iLine' = iLine + 1
    /\ UNCHANGED <<nBands, srcType, bStrict, nBitDepth, pc, result>>

(* png_write_end, the buffer freed, the file closed, and the dataset      *)
(* reopened read-only.                                                    *)
Finish ==
    /\ pc = "copy"
    /\ iLine = YSize
    /\ pc' = "done"
    /\ result' = "dataset"
    /\ UNCHANGED <<nBands, srcType, bStrict, nBitDepth, iLine, scanline, file>>

Next == Start \/ CopyLine \/ Finish

Spec == Init /\ [][Next]_vars

-----------------------------------------------------------------------------
(* The value a PNG reader decodes for band b of pixel x from a row: one   *)
(* byte at 8 bits, two (most significant first) at 16.                    *)
Decoded(row, x, b) ==
    LET i == x * nBands + (b - 1)
    IN  IF nBitDepth = 16 THEN <<row[2 * i], row[2 * i + 1]>> ELSE <<row[i]>>

(* What the copy should hold for sample s: the 16-bit value of a UInt16   *)
(* source, and the Byte value of any other.                               *)
Expected(s) ==
    IF nBitDepth = 16 THEN <<<<"hi", s>>, <<"lo", s>>>> ELSE <<ByteOf(s)>>

(* A dataset CreateCopy returns holds the source: every sample of every   *)
(* line decodes from the written file to the source's value at the PNG's  *)
(* depth (the RasterIO loop and png_write_rows together).                 *)
CopyPreservesSamples ==
    result = "dataset" =>
        /\ Len(file) = YSize
        /\ \A y \in Lines, x \in Pixels, b \in 1 .. nBands :
              Decoded(file[y + 1], x, b) = Expected([band |-> b, x |-> x, y |-> y])

=============================================================================
