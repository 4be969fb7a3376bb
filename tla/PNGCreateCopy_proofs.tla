------------------------- MODULE PNGCreateCopy_proofs -------------------------
(***************************************************************************)
(* Proofs about PNGCreateCopy's line loop, for every raster size and      *)
(* every band count: the bytes the RasterIO calls interleave into the      *)
(* scanline are the ones a PNG reader takes back out.                      *)
(***************************************************************************)
EXTENDS PNGCreateCopy, SequenceTheorems, TLAPS

(* The bands whose RasterIO wrote byte i of the scanline, when the bands  *)
(* in failed did not: CopyLine's hit(i).                                  *)
HitSet(failed, i) ==
    {bx \in ((1 .. nBands) \ failed) \X Pixels : PixelOffset(bx[1], bx[2]) = i}

(* The scanline after one line's RasterIO calls: CopyLine's filled. *)
FilledLine(failed) ==
    [i \in DOMAIN scanline |->
        IF HitSet(failed, i) = {} THEN scanline[i]
        ELSE LET bx == CHOOSE bx \in HitSet(failed, i) : TRUE
             IN  ByteOf([band |-> bx[1], x |-> bx[2], y |-> iLine])]

(* Row y holds, at band b of pixel x, the GDT_Byte value of that sample. *)
RowHolds(row, y) ==
    \A x \in Pixels, b \in 1 .. nBands :
        row[PixelOffset(b, x)] = ByteOf([band |-> b, x |-> x, y |-> y])

-----------------------------------------------------------------------------
(* The offsets of the pixel-interleaved layout lie inside a row of nBands *)
(* bytes per pixel.                                                       *)
LEMMA OffsetInRow ==
    ASSUME NEW n \in Nat \ {0}, NEW w \in Nat \ {0},
           NEW x \in 0 .. w - 1, NEW b \in 1 .. n
    PROVE  /\ x * n + (b - 1) \in 0 .. n * w - 1
           /\ n * w - 1 <= n * w * 2 - 1
  <1>1. x * n <= (w - 1) * n
    BY SMT
  <1>2. (w - 1) * n = n * w - n
    BY SMT
  <1>3. QED
    BY <1>1, <1>2, SMT

(* Two (band, pixel) pairs never share an offset: the layout is           *)
(* one-to-one.                                                            *)
LEMMA OffsetUnique ==
    ASSUME NEW n \in Nat \ {0}, NEW x1 \in Nat, NEW x2 \in Nat,
           NEW b1 \in 1 .. n, NEW b2 \in 1 .. n,
           x1 * n + (b1 - 1) = x2 * n + (b2 - 1)
    PROVE  x1 = x2 /\ b1 = b2
  <1>1. x1 = x2
    <2>1. CASE x1 < x2
      <3>1. x1 * n + n <= x2 * n
        BY <2>1, SMT
      <3>2. QED
        BY <2>1, <3>1, SMT
    <2>2. CASE x2 < x1
      <3>1. x2 * n + n <= x1 * n
        BY <2>2, SMT
      <3>2. QED
        BY <2>2, <3>1, SMT
    <2>3. QED
      BY <2>1, <2>2, SMT
  <1>2. QED
    BY <1>1, SMT

(* With every RasterIO succeeding, byte PixelOffset(b, x) was written by  *)
(* band b's call for pixel x and by no other.                             *)
LEMMA HitSingle ==
    ASSUME nBands \in 1 .. 4, NEW b \in 1 .. nBands, NEW x \in Pixels
    PROVE  HitSet({}, PixelOffset(b, x)) = {<<b, x>>}
  <1>1. <<b, x>> \in HitSet({}, PixelOffset(b, x))
    BY DEF HitSet
  <1>2. ASSUME NEW bx \in HitSet({}, PixelOffset(b, x)) PROVE bx = <<b, x>>
    <2>1. PICK b2 \in 1 .. nBands, x2 \in Pixels :
              bx = <<b2, x2>> /\ PixelOffset(b2, x2) = PixelOffset(b, x)
      BY <1>2 DEF HitSet
    <2>2. x2 * nBands + (b2 - 1) = x * nBands + (b - 1)
      BY <2>1 DEF PixelOffset
    <2>3. x2 = x /\ b2 = b
      BY <2>1, <2>2, OffsetUnique, SizeAssumption DEF Pixels
    <2>4. QED
      BY <2>1, <2>3
  <1>3. QED
    BY <1>1, <1>2

(* After the RasterIO calls, byte PixelOffset(b, x) of the scanline, a   *)
(* byte of the 8-bit row, holds band b of pixel x of the current line.    *)
LEMMA FilledAt ==
    ASSUME nBands \in 1 .. 4, nBitDepth = 8,
           scanline \in [ScanBytes -> ByteTag],
           NEW b \in 1 .. nBands, NEW x \in Pixels
    PROVE  /\ PixelOffset(b, x) \in RowBytes
           /\ FilledLine({})[PixelOffset(b, x)]
                = ByteOf([band |-> b, x |-> x, y |-> iLine])
  <1>1. PixelOffset(b, x) \in 0 .. nBands * XSize - 1
        /\ nBands * XSize - 1 <= nBands * XSize * 2 - 1
    BY OffsetInRow, SizeAssumption DEF PixelOffset, Pixels
  <1>2. PixelOffset(b, x) \in RowBytes
    <2>1. nBands * XSize * (nBitDepth \div 8) = nBands * XSize
      BY SizeAssumption
    <2>2. QED
      BY <1>1, <2>1 DEF RowBytes
  <1>3. PixelOffset(b, x) \in DOMAIN scanline
    <2>1. nBands * XSize \in Nat
      BY SizeAssumption
    <2>2. QED
      BY <1>1, <2>1 DEF ScanBytes
  <1>4. HitSet({}, PixelOffset(b, x)) = {<<b, x>>}
    BY HitSingle
  <1>5. (CHOOSE bx \in HitSet({}, PixelOffset(b, x)) : TRUE) = <<b, x>>
    BY <1>4
  <1>6. QED
    BY <1>2, <1>3, <1>4, <1>5 DEF FilledLine

(* The GDT_Byte conversion of a sample is a byte tag. *)
LEMMA ByteOfTag ==
    ASSUME NEW s \in Sample
    PROVE  ByteOf(s) \in ByteTag
  BY DEF ByteOf, ByteTag

(* The RasterIO calls leave every byte of the scanline a byte tag. *)
LEMMA FilledType ==
    ASSUME nBands \in 1 .. 4, iLine \in Lines,
           scanline \in [ScanBytes -> ByteTag], NEW failed
    PROVE  FilledLine(failed) \in [ScanBytes -> ByteTag]
  <1>1. ASSUME NEW i \in ScanBytes, HitSet(failed, i) # {}
        PROVE  LET bx == CHOOSE bx \in HitSet(failed, i) : TRUE
               IN  ByteOf([band |-> bx[1], x |-> bx[2], y |-> iLine]) \in ByteTag
    <2> DEFINE bx == CHOOSE bx \in HitSet(failed, i) : TRUE
    <2>1. bx \in (1 .. nBands) \X Pixels
      BY <1>1 DEF HitSet
    <2>2. [band |-> bx[1], x |-> bx[2], y |-> iLine] \in Sample
      BY <2>1 DEF Sample
    <2>3. QED
      BY <2>2, ByteOfTag
  <1>2. QED
    BY <1>1 DEF FilledLine

(* A CopyLine step stores FilledLine(failed) for the bands whose RasterIO *)
(* failed, none when RasterIO cannot fail, and appends its first RowBytes *)
(* bytes to the file.                                                     *)
LEMMA CopyLineStep ==
    ASSUME CopyLine
    PROVE  \E failed \in (IF RasterIOMayFail THEN SUBSET (1 .. nBands) ELSE {{}}) :
             /\ pc = "copy" /\ iLine < YSize
             /\ scanline' = FilledLine(failed)
             /\ file' = Append(file, [j \in RowBytes |-> FilledLine(failed)[j]])
             /\ iLine' = iLine + 1
             /\ UNCHANGED <<nBands, srcType, bStrict, nBitDepth, pc, result>>
  BY DEF CopyLine, FilledLine, HitSet

(* The bytes of a row lie in the scanline buffer, at either depth. *)
LEMMA RowInScanline ==
    ASSUME nBands \in Nat, nBitDepth \in {8, 16}
    PROVE  RowBytes \subseteq ScanBytes
  <1>1. nBands * XSize \in Nat
    BY SizeAssumption
  <1>2. nBitDepth \div 8 \in {1, 2}
    OBVIOUS
  <1>3. QED
    BY <1>1, <1>2 DEF RowBytes, ScanBytes

-----------------------------------------------------------------------------
(***************************************************************************)
(* Type correctness.  TypeOK alone is not inductive: the scanline is a    *)
(* buffer of byte tags only because a copy starts with 1 to 4 bands and   *)
(* an unfinished result, and the file stays within YSize rows only        *)
(* because it holds exactly one row per line done.                        *)
(***************************************************************************)
TypeInv ==
    /\ TypeOK
    /\ file \in Seq([RowBytes -> ByteTag])
    /\ Len(file) = iLine
    /\ pc \in {"start", "copy"} => result = "none"
    /\ pc = "start" => file = << >>
    /\ pc = "copy" => nBands \in 1 .. 4
    /\ result = "dataset" => nBands \in 1 .. 4 /\ iLine = YSize

LEMMA TypeInvInit == Init => TypeInv
  <1> SUFFICES ASSUME Init PROVE TypeInv
    OBVIOUS
  <1>1. << >> \in Seq([RowBytes -> ByteTag])
    BY EmptySeq
  <1>2. QED
    BY <1>1, SizeAssumption DEF Init, TypeInv, TypeOK

LEMMA TypeInvNext == TypeInv /\ [Next]_vars => TypeInv'
  <1> SUFFICES ASSUME TypeInv, [Next]_vars PROVE TypeInv'
    OBVIOUS
  <1>0. nBands \in Nat /\ iLine \in 0 .. YSize /\ nBitDepth \in {8, 16}
    BY BandCountsAssumption DEF TypeInv, TypeOK
  <1>1. CASE Start
    <2>1. CASE Rejected
      BY <1>1, <2>1 DEF Start, TypeInv, TypeOK, RowBytes, ScanBytes
    <2>2. CASE ~Rejected
      <3>1. nBands \in 1 .. 4
        BY <2>2 DEF Rejected
      <3>2. nBitDepth' \in {8, 16} /\ file' = << >> /\ iLine' = iLine
        BY <1>1, <2>2 DEF Start, TypeInv
      <3>3. file' \in Seq([RowBytes' -> ByteTag])
        BY <3>2, EmptySeq
      <3>4. [i \in 0 .. nBands * XSize * 2 - 1 |-> Uninit] \in [ScanBytes -> ByteTag]
        BY DEF ScanBytes, ByteTag
      <3>5. QED
        BY <1>1, <2>2, <3>1, <3>2, <3>3, <3>4 DEF Start, TypeInv, TypeOK, ScanBytes
    <2>3. QED
      BY <2>1, <2>2
  <1>2. CASE CopyLine
    <2>1. PICK failed \in (IF RasterIOMayFail THEN SUBSET (1 .. nBands) ELSE {{}}) :
             /\ pc = "copy" /\ iLine < YSize
             /\ scanline' = FilledLine(failed)
             /\ file' = Append(file, [j \in RowBytes |-> FilledLine(failed)[j]])
             /\ iLine' = iLine + 1
             /\ UNCHANGED <<nBands, srcType, bStrict, nBitDepth, pc, result>>
      BY <1>2, CopyLineStep
    <2>2. nBands \in 1 .. 4 /\ iLine \in Lines /\ scanline \in [ScanBytes -> ByteTag]
      BY <2>1, <1>0, SizeAssumption DEF TypeInv, TypeOK, Lines
    <2>3. FilledLine(failed) \in [ScanBytes -> ByteTag]
      BY <2>2, FilledType
    <2>4. [j \in RowBytes |-> FilledLine(failed)[j]] \in [RowBytes -> ByteTag]
      BY <2>3, <1>0, RowInScanline
    <2>5. file' \in Seq([RowBytes -> ByteTag]) /\ Len(file') = Len(file) + 1
      BY <2>1, <2>4, AppendProperties DEF TypeInv
    <2>6. QED
      BY <2>1, <2>3, <2>5, <1>0, SizeAssumption DEF TypeInv, TypeOK, ScanBytes, RowBytes
  <1>3. CASE Finish
    BY <1>3 DEF Finish, TypeInv, TypeOK, ScanBytes, RowBytes
  <1>4. CASE UNCHANGED vars
    BY <1>4 DEF vars, TypeInv, TypeOK, ScanBytes, RowBytes
  <1>5. QED
    BY <1>1, <1>2, <1>3, <1>4 DEF Next

(* Every state of PNGCreateCopy is well typed: in particular the file     *)
(* never holds more rows than the source has lines.                       *)
THEOREM TypeCorrect == Spec => []TypeOK
  BY TypeInvInit, TypeInvNext, PTL DEF Spec, TypeInv

-----------------------------------------------------------------------------
(***************************************************************************)
(* The copy's content.  CopyPreservesSamples speaks only of the returned  *)
(* dataset; the loop needs the invariant that every row written so far   *)
(* holds its line, at 8 bits.                                             *)
(***************************************************************************)
CopyInv ==
    /\ TypeInv
    /\ nBitDepth = 8
    /\ \A y \in 0 .. iLine - 1 : RowHolds(file[y + 1], y)

LEMMA CopyInvInit == Init => CopyInv
  BY TypeInvInit DEF Init, CopyInv

LEMMA CopyInvNext ==
    ASSUME ~RasterIOMayFail, "UInt16" \notin SrcTypes
    PROVE  CopyInv /\ [Next]_vars => CopyInv'
  <1> SUFFICES ASSUME CopyInv, [Next]_vars PROVE CopyInv'
    OBVIOUS
  <1>0. TypeInv'
    BY TypeInvNext DEF CopyInv
  <1>1. CASE Start
    <2>1. srcType # "UInt16"
      BY DEF CopyInv, TypeInv, TypeOK
    <2>2. nBitDepth' = 8 /\ iLine' = 0 /\ iLine = 0
      BY <1>1, <2>1 DEF Start, CopyInv, TypeInv, TypeOK
    <2>3. QED
      BY <1>0, <2>2 DEF CopyInv
  <1>2. CASE CopyLine
    <2>1. /\ pc = "copy" /\ iLine < YSize
          /\ scanline' = FilledLine({})
          /\ file' = Append(file, [j \in RowBytes |-> FilledLine({})[j]])
          /\ iLine' = iLine + 1
          /\ UNCHANGED <<nBands, srcType, bStrict, nBitDepth, pc, result>>
      BY <1>2, CopyLineStep
    <2> DEFINE row == [j \in RowBytes |-> FilledLine({})[j]]
    <2>2. /\ nBands \in 1 .. 4 /\ nBitDepth = 8 /\ iLine \in Nat
          /\ scanline \in [ScanBytes -> ByteTag]
          /\ file \in Seq([RowBytes -> ByteTag]) /\ Len(file) = iLine
      BY <2>1 DEF CopyInv, TypeInv, TypeOK
    <2>3. RowHolds(row, iLine)
      BY <2>2, FilledAt DEF RowHolds
    <2>4. row \in [RowBytes -> ByteTag]
      BY <2>1, <2>2, FilledType, RowInScanline, SizeAssumption DEF Lines
    <2>5. /\ Len(file') = iLine + 1
          /\ file'[iLine + 1] = row
          /\ \A y \in 0 .. iLine - 1 : file'[y + 1] = file[y + 1]
      BY <2>1, <2>2, <2>4, AppendProperties
    <2>6. ASSUME NEW y \in 0 .. iLine' - 1 PROVE RowHolds(file[y + 1], y)'
      <3>1. CASE y = iLine
        BY <2>1, <2>3, <2>5, <3>1 DEF RowHolds, PixelOffset, Pixels
      <3>2. CASE y # iLine
        <4>1. y \in 0 .. iLine - 1
          BY <2>1, <2>2, <3>2
        <4>2. QED
          BY <2>1, <2>5, <4>1 DEF CopyInv, RowHolds, PixelOffset, Pixels
      <3>3. QED
        BY <3>1, <3>2
    <2>7. QED
      BY <1>0, <2>1, <2>6 DEF CopyInv
  <1>3. CASE Finish
    BY <1>0, <1>3 DEF Finish, CopyInv, RowHolds, PixelOffset, Pixels
  <1>4. CASE UNCHANGED vars
    BY <1>0, <1>4 DEF vars, CopyInv, RowHolds, PixelOffset, Pixels
  <1>5. QED
    BY <1>1, <1>2, <1>3, <1>4 DEF Next

(* At 8 bits a row that holds its line decodes to the source's samples. *)
LEMMA CopyInvPreserves == CopyInv => CopyPreservesSamples
  <1> SUFFICES ASSUME CopyInv, result = "dataset" PROVE CopyPreservesSamples
    BY DEF CopyPreservesSamples
  <1>1. Len(file) = YSize /\ iLine = YSize /\ nBitDepth = 8
    BY DEF CopyInv, TypeInv
  <1>2. ASSUME NEW y \in Lines, NEW x \in Pixels, NEW b \in 1 .. nBands
        PROVE  Decoded(file[y + 1], x, b) = Expected([band |-> b, x |-> x, y |-> y])
    <2>1. RowHolds(file[y + 1], y)
      BY <1>1, SizeAssumption DEF CopyInv, Lines
    <2>2. file[y + 1][x * nBands + (b - 1)] = ByteOf([band |-> b, x |-> x, y |-> y])
      BY <2>1 DEF RowHolds, PixelOffset
    <2>3. QED
      BY <1>1, <2>2 DEF Decoded, Expected
  <1>3. QED
    BY <1>1, <1>2 DEF CopyPreservesSamples

(***************************************************************************)
(* A dataset PNGCreateCopy returns holds every sample of the source, for  *)
(* every size and band count, when every RasterIO succeeds and the copy  *)
(* is 8-bit.  Both assumptions are needed: a failed RasterIO leaves the   *)
(* bytes of the line before (its eErr is never read), and at 16 bits the  *)
(* GDT_Byte RasterIO fills half the row (the png_copy_16bit run).          *)
(***************************************************************************)
THEOREM CopyPreservesSamplesHolds ==
    ASSUME ~RasterIOMayFail, "UInt16" \notin SrcTypes
    PROVE  Spec => []CopyPreservesSamples
  <1>1. Init => CopyInv
    BY CopyInvInit
  <1>2. CopyInv /\ [Next]_vars => CopyInv'
    BY CopyInvNext
  <1>3. CopyInv => CopyPreservesSamples
    BY CopyInvPreserves
  <1>4. QED
    BY <1>1, <1>2, <1>3, PTL DEF Spec

=============================================================================
