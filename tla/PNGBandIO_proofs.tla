--------------------------- MODULE PNGBandIO_proofs ---------------------------
(***************************************************************************)
(* Proofs about PNGBandIO: the interleave round-trip of IReadBlock and     *)
(* IWriteBlock, for every width and band count, when the row's samples    *)
(* are one byte wide or the row has a single band.                        *)
(***************************************************************************)
EXTENDS PNGBandIO, TLAPS

(* Dividing x * n + r by n, for a remainder r below n, gives back x and r. *)
LEMMA DivModOf ==
    ASSUME NEW n \in Nat \ {0}, NEW x \in Int, NEW r \in 0 .. n - 1
    PROVE  (x * n + r) \div n = x /\ (x * n + r) % n = r
BY SMT

(* Every integer is its quotient times n plus its remainder. *)
LEMMA DivModSplit ==
    ASSUME NEW n \in Nat \ {0}, NEW p \in Int
    PROVE  p = (p \div n) * n + (p % n) /\ p % n \in 0 .. n - 1
BY SMT


(* The scanline byte p hits band b's stride (p >= b - 1 and a multiple of  *)
(* n after it) exactly when p's remainder by n is b - 1, and then its     *)
(* quotient is p's.                                                        *)
LEMMA StrideHit ==
    ASSUME NEW n \in Nat \ {0}, NEW b \in 1 .. n, NEW p \in Nat
    PROVE  /\ (p >= b - 1 /\ (p - (b - 1)) % n = 0) <=> p % n = b - 1
           /\ p % n = b - 1 => (p - (b - 1)) \div n = p \div n
<1> DEFINE q == p \div n
<1> DEFINE r == p % n
<1>1. p = q * n + r /\ r \in 0 .. n - 1 /\ q \in Nat
  <2>1. p = q * n + r /\ r \in 0 .. n - 1
    BY DivModSplit
  <2>2. q \in Int
    BY SMT
  <2> QED BY <2>1, <2>2, SMT
<1>2. CASE r = b - 1
  <2>1. p - (b - 1) = q * n + 0
    BY <1>1, <1>2
  <2>2. (q * n + 0) \div n = q /\ (q * n + 0) % n = 0
    BY <1>1, DivModOf
  <2>3. (p - (b - 1)) \div n = q /\ (p - (b - 1)) % n = 0
    BY <2>1, <2>2
  <2> QED BY <1>1, <1>2, <2>3
<1>3. CASE r > b - 1
  <2>1. p - (b - 1) = q * n + (r - (b - 1)) /\ r - (b - 1) \in 0 .. n - 1
    BY <1>1, <1>3
  <2>2. (p - (b - 1)) % n = r - (b - 1)
    <3> DEFINE d == r - (b - 1)
    <3>2. d \in 0 .. n - 1 /\ p - (b - 1) = q * n + d
      BY <2>1 DEF d
    <3>3. (q * n + d) % n = d
      <4>1. q \in Int /\ d \in 0 .. n - 1
        BY <1>1, <3>2
      <4> QED BY <4>1, DivModOf
    <3> QED BY <3>2, <3>3 DEF d
  <2> QED BY <1>3, <2>2
<1>4. CASE r < b - 1 /\ p >= b - 1
  <2>1. q >= 1
    BY <1>1, <1>4, SMT
  <2>2. p - (b - 1) = (q - 1) * n + (n + r - (b - 1))
        /\ n + r - (b - 1) \in 0 .. n - 1
    BY <1>1, <1>4, SMT
  <2>3. (p - (b - 1)) % n = n + r - (b - 1)
    <3>1. \A x \in Int, rr \in 0 .. n - 1 : (x * n + rr) % n = rr
      BY DivModOf
    <3>2. q - 1 \in Int
      BY <1>1
    <3> QED BY <2>2, <3>1, <3>2
  <2> QED BY <1>4, <2>3
<1>5. CASE r < b - 1 /\ p < b - 1
  BY <1>5
<1> QED BY <1>2, <1>3, <1>4, <1>5

-----------------------------------------------------------------------------
(* The band byte p of the interleaved scanline belongs to. *)
ByteBand(p) == (p % nPixelOffset) \div nPixelSize + 1

(* What byte p of the scanline holds when wr gives, per band, the        *)
(* version of the block last written: the byte libpng decoded, or the     *)
(* matching byte of that block.                                           *)
HoldsOf(wr, p) ==
    IF wr[ByteBand(p)] = 0 THEN DecodedByte(p)
    ELSE <<"user", wr[ByteBand(p)], p \div nPixelOffset, ByteBand(p),
           p % nPixelSize>>

Holds(p) == HoldsOf(written, p)

(* The inductive invariant: the scanline is libpng's row overlaid, band   *)
(* by band, with the last block IWriteBlock scattered into it.            *)
BufInv ==
    /\ written \in [Bands -> {0} \cup Versions]
    /\ pabyBuffer = [p \in RowIdx |-> Holds(p)]

(* Samples of one byte: the strided loops. *)
LEMMA NarrowFacts ==
    ASSUME BitDepth # 16
    PROVE  nPixelSize = 1 /\ nPixelOffset = NBands
BY NBandsAssumption DEF nPixelSize, nPixelOffset

(* A single band: the row is the band's block. *)
LEMMA SingleFacts ==
    ASSUME NBands = 1
    PROVE  /\ nPixelOffset = nPixelSize /\ nPixelSize \in {1, 2}
           /\ RowIdx = BlockIdx /\ Bands = {1}
BY DEF nPixelSize, nPixelOffset, RowIdx, BlockIdx, Bands

(* The three branches of IReadBlock's and IWriteBlock's transfers are     *)
(* chosen by a CASE whose first two guards overlap for one 8-bit band;    *)
(* these are the branches as the lemmas below use them.                   *)
GatherCopy(row, nBand) == [j \in BlockIdx |-> row[BandBase(nBand) + j]]
GatherStride(row, nBand) ==
    [j \in BlockIdx |-> row[BandBase(nBand) + j * nPixelOffset]]
ScatterCopy(row, nBand, img) ==
    [p \in RowIdx |->
       IF p - BandBase(nBand) \in BlockIdx THEN img[p - BandBase(nBand)]
       ELSE row[p]]
ScatterStride(row, nBand, img) ==
    [p \in RowIdx |->
       IF p >= BandBase(nBand) /\ (p - BandBase(nBand)) % nPixelOffset = 0
       THEN img[(p - BandBase(nBand)) \div nPixelOffset] ELSE row[p]]

(* IReadBlock's strided byte loop. *)
LEMMA GatherNarrow ==
    ASSUME BitDepth # 16, NBands # 1, NEW row, NEW b \in Bands
    PROVE  Gather(row, b) = [j \in BlockIdx |-> row[j * NBands + (b - 1)]]
<1>1. nPixelSize # nPixelOffset /\ nPixelSize = 1 /\ nPixelOffset = NBands
  BY NarrowFacts, NBandsAssumption
<1>2. \A L : (CASE nPixelSize = nPixelOffset -> GatherCopy(row, b)
                [] nPixelSize = 1 -> GatherStride(row, b)
                [] OTHER -> L) = GatherStride(row, b)
  BY <1>1
<1>3. Gather(row, b) = GatherStride(row, b)
  BY <1>2 DEF Gather, GatherCopy, GatherStride
<1>4. BandBase(b) = b - 1
  BY <1>1 DEF BandBase, Bands
<1>5. \A j \in BlockIdx : BandBase(b) + j * nPixelOffset = j * NBands + (b - 1)
  BY <1>1, <1>4, NBandsAssumption, WidthAssumption DEF BlockIdx, Bands
<1> QED BY <1>3, <1>5 DEF GatherStride

(* IReadBlock's memcpy. *)
LEMMA GatherSingle ==
    ASSUME NBands = 1, NEW row, NEW b \in Bands
    PROVE  Gather(row, b) = [j \in BlockIdx |-> row[j]]
<1>1. nPixelSize = nPixelOffset /\ b = 1 /\ nPixelSize \in {1, 2}
  BY SingleFacts
<1>2. BandBase(b) = 0
  BY <1>1 DEF BandBase
<1>3. nPixelSize = 1 => GatherCopy(row, b) = GatherStride(row, b)
  BY <1>1, <1>2 DEF GatherCopy, GatherStride, BlockIdx
<1>4. \A L : (CASE nPixelSize = nPixelOffset -> GatherCopy(row, b)
                [] nPixelSize = 1 -> GatherStride(row, b)
                [] OTHER -> L) = GatherCopy(row, b)
  BY <1>1, <1>3
<1>5. Gather(row, b) = GatherCopy(row, b)
  BY <1>4 DEF Gather, GatherCopy, GatherStride
<1> QED BY <1>2, <1>5 DEF GatherCopy, BlockIdx

(* IWriteBlock's strided byte loop. *)
LEMMA ScatterNarrow ==
    ASSUME BitDepth # 16, NBands # 1, NEW row, NEW b \in Bands, NEW img
    PROVE  Scatter(row, b, img) =
             [p \in RowIdx |->
                IF p >= b - 1 /\ (p - (b - 1)) % NBands = 0
                THEN img[(p - (b - 1)) \div NBands] ELSE row[p]]
<1>1. nPixelSize # nPixelOffset /\ nPixelSize = 1 /\ nPixelOffset = NBands
  BY NarrowFacts, NBandsAssumption
<1>2. \A L : (CASE nPixelSize = nPixelOffset -> ScatterCopy(row, b, img)
                [] nPixelSize = 1 -> ScatterStride(row, b, img)
                [] OTHER -> L) = ScatterStride(row, b, img)
  BY <1>1
<1>3. Scatter(row, b, img) = ScatterStride(row, b, img)
  BY <1>2 DEF Scatter, ScatterCopy, ScatterStride
<1>4. BandBase(b) = b - 1
  BY <1>1 DEF BandBase, Bands
<1> QED BY <1>1, <1>3, <1>4 DEF ScatterStride

(* IWriteBlock's memcpy. *)
LEMMA ScatterSingle ==
    ASSUME NBands = 1, NEW row, NEW b \in Bands, NEW img
    PROVE  Scatter(row, b, img) = [p \in RowIdx |-> img[p]]
<1>1. nPixelSize = nPixelOffset /\ b = 1 /\ nPixelSize \in {1, 2}
      /\ RowIdx = BlockIdx
  BY SingleFacts
<1>2. BandBase(b) = 0
  BY <1>1 DEF BandBase
<1>3. nPixelSize = 1 => ScatterCopy(row, b, img) = ScatterStride(row, b, img)
  BY <1>1, <1>2 DEF ScatterCopy, ScatterStride, RowIdx, BlockIdx
<1>4. \A L : (CASE nPixelSize = nPixelOffset -> ScatterCopy(row, b, img)
                [] nPixelSize = 1 -> ScatterStride(row, b, img)
                [] OTHER -> L) = ScatterCopy(row, b, img)
  BY <1>1, <1>3
<1>5. Scatter(row, b, img) = ScatterCopy(row, b, img)
  BY <1>4 DEF Scatter, ScatterCopy, ScatterStride
<1> QED BY <1>1, <1>2, <1>5 DEF ScatterCopy, RowIdx, BlockIdx

(* With one-byte samples, band b's byte of pixel j is scanline byte       *)
(* j * NBands + (b - 1), and it belongs to band b and pixel j.             *)
LEMMA NarrowCell ==
    ASSUME BitDepth # 16, NEW b \in Bands, NEW j \in 0 .. Width - 1,
           NEW p, p = j * NBands + (b - 1)
    PROVE  /\ p \in RowIdx
           /\ p \div nPixelOffset = j /\ ByteBand(p) = b
           /\ p % nPixelSize = 0
<1>1. nPixelSize = 1 /\ nPixelOffset = NBands
  BY NarrowFacts
<1>2. b - 1 \in 0 .. NBands - 1 /\ NBands \in Nat \ {0} /\ j \in Int
  BY NBandsAssumption DEF Bands
<1>3. p \div NBands = j /\ p % NBands = b - 1
  BY <1>2, DivModOf
<1>4. p \in 0 .. Width * NBands - 1
  <2>1. j * NBands <= (Width - 1) * NBands
    BY <1>2, WidthAssumption, SMT
  <2> QED BY <1>2, <2>1, WidthAssumption, SMT
<1>5. (b - 1) \div 1 = b - 1 /\ p % 1 = 0
  BY <1>2, <1>4
<1>6. p \in RowIdx
  BY <1>1, <1>4 DEF RowIdx
<1>7. p \div nPixelOffset = j
  BY <1>1, <1>3
<1>8. ByteBand(p) = b
  <2> DEFINE t == (p % nPixelOffset) \div nPixelSize
  <2>1. t = b - 1
    BY <1>1, <1>3, <1>5, Zenon DEF t
  <2>2. ByteBand(p) = t + 1
    BY Zenon DEF ByteBand, t
  <2> QED BY <1>2, <2>1, <2>2, NBandsAssumption DEF Bands
<1>9. p % nPixelSize = 0
  BY <1>1, <1>5
<1> QED BY <1>6, <1>7, <1>8, <1>9

(* With one-byte samples, scanline byte p belongs to band (p % NBands) + 1 *)
(* and pixel p \div NBands, a pixel of the row.                            *)
LEMMA NarrowByte ==
    ASSUME BitDepth # 16, NEW p \in RowIdx
    PROVE  /\ ByteBand(p) = (p % NBands) + 1 /\ ByteBand(p) \in Bands
           /\ p \div nPixelOffset = p \div NBands
           /\ p \div NBands \in 0 .. Width - 1
           /\ p % nPixelSize = 0
<1>1. nPixelSize = 1 /\ nPixelOffset = NBands
  BY NarrowFacts
<1>2. p \in 0 .. Width * NBands - 1 /\ NBands \in Nat \ {0}
      /\ Width \in Nat \ {0}
  BY <1>1, NBandsAssumption, WidthAssumption DEF RowIdx
<1>3. p = (p \div NBands) * NBands + (p % NBands)
      /\ p % NBands \in 0 .. NBands - 1
  BY <1>2, DivModSplit
<1>4. p \div NBands \in 0 .. Width - 1
  <2>1. p \div NBands \in Nat
    BY <1>2, SMT
  <2>2. p \div NBands < Width
    <3>1. SUFFICES ASSUME p \div NBands >= Width PROVE FALSE
      BY <1>2, <2>1
    <3>2. (p \div NBands) * NBands >= Width * NBands
      BY <1>2, <2>1, <3>1, SMT
    <3> QED BY <1>2, <1>3, <3>2, SMT
  <2> QED BY <1>2, <2>1, <2>2, NBandsAssumption DEF Bands
<1>5. (p % NBands) \div 1 = p % NBands /\ p % 1 = 0
  BY <1>2, <1>3
<1>6. ByteBand(p) = (p % NBands) + 1
  BY <1>1, <1>5 DEF ByteBand
<1>7. ByteBand(p) \in Bands
  BY <1>2, <1>3, <1>6 DEF Bands
<1> QED BY <1>1, <1>4, <1>5, <1>6, <1>7

(* A remainder below n has quotient 0. *)
LEMMA SmallQuotient ==
    ASSUME NEW n \in Nat \ {0}, NEW r \in 0 .. n - 1
    PROVE  r \div n = 0
BY SMT

(* With a single band, every scanline byte belongs to band 1. *)
LEMMA SingleByte ==
    ASSUME NBands = 1, NEW p \in RowIdx
    PROVE  ByteBand(p) = 1
<1>1. nPixelOffset = nPixelSize /\ nPixelSize \in {1, 2}
  BY SingleFacts
<1>2. p \in Int
  BY <1>1, WidthAssumption DEF RowIdx
<1>3. p % nPixelSize \in 0 .. nPixelSize - 1
  BY <1>1, <1>2, DivModSplit
<1>4. (p % nPixelSize) \div nPixelSize = 0
  BY <1>1, <1>3, SmallQuotient
<1> QED BY <1>1, <1>4 DEF ByteBand

(* One-byte samples: dividing by the sample size changes nothing. *)
LEMMA NarrowUnit ==
    ASSUME BitDepth # 16, NEW j \in Int
    PROVE  j \div nPixelSize = j /\ j % nPixelSize = 0
<1>1. nPixelSize = 1
  BY NarrowFacts
<1>2. j \div 1 = j /\ j % 1 = 0
  BY SMT
<1> QED BY <1>1, <1>2, Zenon

(* The byte libpng decodes at p names p's pixel, band and byte. *)
LEMMA DecodedParts ==
    ASSUME NEW p
    PROVE  DecodedByte(p) = <<"png", p \div nPixelOffset, ByteBand(p), p % nPixelSize>>
BY DEF DecodedByte, ByteBand

(* Every scanline byte belongs to a band, when the samples are one byte   *)
(* wide or the row has a single band.                                      *)
LEMMA ByteBandType ==
    ASSUME BitDepth # 16 \/ NBands = 1, NEW p \in RowIdx
    PROVE  ByteBand(p) \in Bands
<1>1. CASE NBands = 1
  BY <1>1, SingleByte, SingleFacts
<1>2. CASE BitDepth # 16
  BY <1>2, NarrowByte
<1> QED BY <1>1, <1>2

(* IReadBlock returns the band's expected block from a scanline that      *)
(* satisfies BufInv.                                                       *)
LEMMA ReadCorrect ==
    ASSUME BitDepth # 16 \/ NBands = 1, BufInv, NEW b \in Bands
    PROVE  Gather(pabyBuffer, b) = Expected(b)
<1>1. Expected(b) = [j \in BlockIdx |-> Expected(b)[j]]
  BY DEF Expected, BandBlock, UserBlock
<1>2. pabyBuffer = [p \in RowIdx |-> Holds(p)]
  BY DEF BufInv
<1>3. CASE NBands = 1
  <2>1. RowIdx = BlockIdx /\ b = 1 /\ nPixelOffset = nPixelSize
    BY <1>3, SingleFacts
  <2>2. Gather(pabyBuffer, b) = [j \in BlockIdx |-> pabyBuffer[j]]
    BY <1>3, GatherSingle
  <2>3. ASSUME NEW j \in BlockIdx PROVE pabyBuffer[j] = Expected(b)[j]
    <3>1. ByteBand(j) = 1 /\ pabyBuffer[j] = Holds(j)
      BY <1>3, <1>2, <2>1, SingleByte
    <3>2. CASE written[1] = 0
      <4>1. pabyBuffer[j] = <<"png", j \div nPixelOffset, 1, j % nPixelSize>>
        BY <3>1, <3>2, DecodedParts DEF Holds, HoldsOf
      <4>2. Expected(b)[j] = <<"png", j \div nPixelSize, 1, j % nPixelSize>>
        BY <2>1, <3>2 DEF Expected, BandBlock
      <4> QED BY <2>1, <4>1, <4>2, Zenon
    <3>3. CASE written[1] # 0
      <4>1. pabyBuffer[j] =
              <<"user", written[1], j \div nPixelOffset, 1, j % nPixelSize>>
        BY <3>1, <3>3 DEF Holds, HoldsOf
      <4>2. Expected(b)[j] =
              <<"user", written[1], j \div nPixelSize, 1, j % nPixelSize>>
        BY <2>1, <3>3 DEF Expected, UserBlock, UserByte
      <4> QED BY <2>1, <4>1, <4>2, Zenon
    <3> QED BY <3>2, <3>3
  <2> QED BY <1>1, <2>2, <2>3
<1>4. CASE NBands # 1
  <2>1. BitDepth # 16
    BY <1>4
  <2>2. Gather(pabyBuffer, b) =
          [j \in BlockIdx |-> pabyBuffer[j * NBands + (b - 1)]]
    BY <1>4, <2>1, GatherNarrow
  <2>3. BlockIdx = 0 .. Width - 1
    BY <2>1, NarrowFacts, WidthAssumption DEF BlockIdx
  <2>4. ASSUME NEW j \in BlockIdx
        PROVE  pabyBuffer[j * NBands + (b - 1)] = Expected(b)[j]
    <3> DEFINE p == j * NBands + (b - 1)
    <3>1. /\ p \in RowIdx
          /\ p \div nPixelOffset = j /\ ByteBand(p) = b
          /\ p % nPixelSize = 0
      BY <2>1, <2>3, NarrowCell
    <3>2. j \div nPixelSize = j /\ j % nPixelSize = 0
      BY <2>1, <2>3, NarrowUnit
    <3>3. pabyBuffer[p] = Holds(p)
      BY <1>2, <3>1
    <3>4. CASE written[b] = 0
      <4>1. pabyBuffer[p] = <<"png", j, b, 0>>
        BY <3>1, <3>3, <3>4, DecodedParts DEF Holds, HoldsOf
      <4>2. Expected(b)[j] = <<"png", j, b, 0>>
        BY <3>2, <3>4 DEF Expected, BandBlock
      <4> QED BY <4>1, <4>2
    <3>5. CASE written[b] # 0
      <4>1. pabyBuffer[p] = <<"user", written[b], j, b, 0>>
        BY <3>1, <3>3, <3>5 DEF Holds, HoldsOf
      <4>2. Expected(b)[j] = <<"user", written[b], j, b, 0>>
        BY <3>2, <3>5 DEF Expected, UserBlock, UserByte
      <4> QED BY <4>1, <4>2
    <3> QED BY <3>4, <3>5
  <2> QED BY <1>1, <2>2, <2>4
<1> QED BY <1>3, <1>4

(* IWriteBlock of version v of band b's block keeps BufInv: the band's   *)
(* bytes now hold the block, every other byte is left alone.               *)
LEMMA WriteCorrect ==
    ASSUME BitDepth # 16 \/ NBands = 1, BufInv,
           NEW b \in Bands, NEW v \in Versions, IWriteBlock(b, v)
    PROVE  BufInv'
<1> DEFINE img == UserBlock(v, b)
<1>1. written' = [written EXCEPT ![b] = v] /\ written \in [Bands -> {0} \cup Versions]
  BY DEF IWriteBlock, BufInv
<1>2. written' \in [Bands -> {0} \cup Versions]
  BY <1>1
<1>3. pabyBuffer' = Scatter(pabyBuffer, b, img)
  BY DEF IWriteBlock
<1>4. pabyBuffer = [p \in RowIdx |-> Holds(p)]
  BY DEF BufInv
<1>5. v # 0
  BY VersionsAssumption
(* The bytes of band b hold the block; the others are unchanged. *)
<1>6. ASSUME NEW p \in RowIdx, ByteBand(p) = b
      PROVE  Holds(p)' = <<"user", v, p \div nPixelOffset, b, p % nPixelSize>>
  BY <1>1, <1>5, <1>6 DEF Holds, HoldsOf
<1>7. ASSUME NEW p \in RowIdx, ByteBand(p) # b
      PROVE  Holds(p)' = Holds(p)
  <2>1. ByteBand(p) \in Bands
    BY ByteBandType
  <2>2. written'[ByteBand(p)] = written[ByteBand(p)]
    BY <1>1, <1>7, <2>1
  <2> QED BY <2>2 DEF Holds, HoldsOf
<1>8. CASE NBands = 1
  <2>1. RowIdx = BlockIdx /\ b = 1 /\ nPixelOffset = nPixelSize
    BY <1>8, SingleFacts
  <2>2. pabyBuffer' = [p \in RowIdx |-> img[p]]
    BY <1>3, <1>8, ScatterSingle
  <2>3. ASSUME NEW p \in RowIdx PROVE img[p] = Holds(p)'
    <3>1. ByteBand(p) = b
      BY <1>8, <2>1, SingleByte
    <3>2. img[p] = <<"user", v, p \div nPixelSize, b, p % nPixelSize>>
      BY <2>1 DEF UserBlock, UserByte
    <3> QED BY <1>6, <2>1, <3>1, <3>2, Zenon
  <2> QED BY <1>2, <2>2, <2>3 DEF BufInv
<1>9. CASE NBands # 1
  <2>1. BitDepth # 16
    BY <1>9
  <2>2. pabyBuffer' =
          [p \in RowIdx |->
             IF p >= b - 1 /\ (p - (b - 1)) % NBands = 0
             THEN img[(p - (b - 1)) \div NBands] ELSE pabyBuffer[p]]
    BY <1>3, <1>9, <2>1, ScatterNarrow
  <2>3. ASSUME NEW p \in RowIdx
        PROVE  (IF p >= b - 1 /\ (p - (b - 1)) % NBands = 0
                THEN img[(p - (b - 1)) \div NBands] ELSE pabyBuffer[p])
               = Holds(p)'
    <3>1. /\ ByteBand(p) = (p % NBands) + 1
          /\ p \div nPixelOffset = p \div NBands
          /\ p \div NBands \in 0 .. Width - 1
          /\ p % nPixelSize = 0
      BY <2>1, NarrowByte
    <3>2. p \in Nat /\ NBands \in Nat \ {0} /\ b \in 1 .. NBands
      BY <2>1, NarrowFacts, NBandsAssumption, WidthAssumption DEF RowIdx, Bands
    <3>3. /\ (p >= b - 1 /\ (p - (b - 1)) % NBands = 0) <=> p % NBands = b - 1
          /\ p % NBands = b - 1 => (p - (b - 1)) \div NBands = p \div NBands
      BY <3>2, StrideHit
    <3>4. CASE p % NBands = b - 1
      <4>1. ByteBand(p) = b
        BY <3>1, <3>2, <3>4
      <4>2. p \div NBands \in BlockIdx
        BY <2>1, <3>1, NarrowFacts, WidthAssumption DEF BlockIdx
      <4>3. (p \div NBands) \div nPixelSize = p \div NBands
            /\ (p \div NBands) % nPixelSize = 0
        BY <2>1, <3>1, NarrowUnit
      <4>4. img[p \div NBands] = <<"user", v, p \div NBands, b, 0>>
        BY <4>2, <4>3 DEF UserBlock, UserByte
      <4>5. Holds(p)' = <<"user", v, p \div NBands, b, 0>>
        BY <1>6, <3>1, <4>1
      <4> QED BY <3>3, <3>4, <4>4, <4>5
    <3>5. CASE p % NBands # b - 1
      <4>1. ByteBand(p) # b
        BY <3>1, <3>2, <3>5
      <4> QED BY <1>4, <1>7, <3>3, <3>5, <4>1
    <3> QED BY <3>4, <3>5
  <2> QED BY <1>2, <2>2, <2>3 DEF BufInv
<1> QED BY <1>8, <1>9

(* The scanline libpng decodes, with no block written, satisfies BufInv. *)
LEMMA BufInvInit ==
    ASSUME BitDepth # 16 \/ NBands = 1
    PROVE  Init => BufInv
<1> SUFFICES ASSUME Init PROVE BufInv
  OBVIOUS
<1>1. written = [b \in Bands |-> 0]
  BY DEF Init
<1>2. \A p \in RowIdx : Holds(p) = DecodedByte(p)
  BY <1>1, ByteBandType DEF Holds, HoldsOf
<1> QED BY <1>1, <1>2 DEF Init, BufInv

(* Every step keeps BufInv: reads leave the scanline and the versions     *)
(* alone, and writes are WriteCorrect.                                     *)
LEMMA BufInvNext ==
    ASSUME BitDepth # 16 \/ NBands = 1
    PROVE  BufInv /\ [Next]_vars => BufInv'
<1> SUFFICES ASSUME BufInv, [Next]_vars PROVE BufInv'
  OBVIOUS
<1>1. ASSUME NEW b \in Bands, IReadBlock(b) PROVE BufInv'
  BY <1>1 DEF IReadBlock, BufInv, Holds, HoldsOf
<1>2. ASSUME NEW b \in Bands, NEW v \in Versions, IWriteBlock(b, v)
      PROVE  BufInv'
  BY <1>2, WriteCorrect
<1>3. CASE UNCHANGED vars
  BY <1>3 DEF vars, BufInv, Holds, HoldsOf
<1> QED BY <1>1, <1>2, <1>3 DEF Next

(* Interleave round-trip (spec section 8): when the samples are one byte  *)
(* wide or the row has one band, every IReadBlock returns the block last  *)
(* written to the band by IWriteBlock, or libpng's samples of the band,   *)
(* whatever reads and writes of any bands came before, for every width   *)
(* and band count.  (With 16-bit samples and several bands the loops of  *)
(* IReadBlock and IWriteBlock index by pixel, not by byte: the run        *)
(* png_bandio_16bit.)                                                     *)
THEOREM ReadReturnsBandSamplesHolds ==
    ASSUME BitDepth # 16 \/ NBands = 1
    PROVE  Spec => ReadReturnsBandSamples
<1>1. Init => BufInv
  BY BufInvInit
<1>2. BufInv /\ [Next]_vars => BufInv'
  BY BufInvNext
<1>3. BufInv /\ [Next]_vars =>
        [\A b \in Bands : IReadBlock(b) => lastRead'.data = Expected(b)]_vars
  <2> SUFFICES ASSUME BufInv, NEW b \in Bands, IReadBlock(b)
               PROVE  lastRead'.data = Expected(b)
    OBVIOUS
  <2>1. lastRead'.data = Gather(pabyBuffer, b)
    BY DEF IReadBlock
  <2> QED BY <2>1, ReadCorrect
<1> QED BY <1>1, <1>2, <1>3, PTL DEF Spec, ReadReturnsBandSamples

-----------------------------------------------------------------------------
(* Every byte BufInv allows is a byte of the model: a decoded byte, or a  *)
(* byte of a caller's block.                                              *)
LEMMA HoldsType ==
    ASSUME BitDepth # 16 \/ NBands = 1,
           NEW wr \in [Bands -> {0} \cup Versions], NEW p \in RowIdx
    PROVE  HoldsOf(wr, p) \in Byte
<1>1. ByteBand(p) \in Bands /\ wr[ByteBand(p)] \in {0} \cup Versions
  BY ByteBandType
<1>2. CASE wr[ByteBand(p)] = 0
  BY <1>2 DEF HoldsOf, Byte
<1>3. CASE wr[ByteBand(p)] # 0
  <2> DEFINE w == wr[ByteBand(p)]
  <2>1. w \in Versions
    BY <1>1, <1>3
  <2>2. HoldsOf(wr, p) = <<"user", w, p \div nPixelOffset, ByteBand(p), p % nPixelSize>>
    BY <1>3 DEF HoldsOf
  <2>3. CASE NBands = 1
    <3>1. RowIdx = BlockIdx /\ nPixelOffset = nPixelSize
      BY <2>3, SingleFacts
    <3>2. UserByte(w, ByteBand(p), p) = HoldsOf(wr, p)
      BY <2>2, <3>1, Zenon DEF UserByte
    <3> QED BY <1>1, <2>1, <3>1, <3>2 DEF Byte
  <2>4. CASE NBands # 1
    <3>1. BitDepth # 16
      BY <2>4
    <3>2. /\ p \div nPixelOffset = p \div NBands
          /\ p \div NBands \in 0 .. Width - 1
          /\ p % nPixelSize = 0
      BY <3>1, NarrowByte
    <3>3. p \div NBands \in BlockIdx
      BY <3>1, <3>2, NarrowFacts, WidthAssumption DEF BlockIdx
    <3>4. (p \div NBands) \div nPixelSize = p \div NBands
          /\ (p \div NBands) % nPixelSize = 0
      BY <3>1, <3>2, NarrowUnit
    <3>5. UserByte(w, ByteBand(p), p \div NBands) = HoldsOf(wr, p)
      BY <2>2, <3>2, <3>4 DEF UserByte
    <3> QED BY <1>1, <2>1, <3>3, <3>5 DEF Byte
  <2> QED BY <2>3, <2>4
<1> QED BY <1>2, <1>3

(* The block a read of band b must return is made of bytes of the model. *)
LEMMA ExpectedType ==
    ASSUME BitDepth # 16 \/ NBands = 1, BufInv, NEW b \in Bands
    PROVE  Expected(b) \in [BlockIdx -> Byte]
<1>1. CASE written[b] # 0
  <2>1. written[b] \in Versions
    BY <1>1 DEF BufInv
  <2> QED BY <1>1, <2>1 DEF Expected, UserBlock, Byte
<1>2. CASE written[b] = 0
  <2> SUFFICES ASSUME NEW j \in BlockIdx PROVE BandBlock(b)[j] \in Byte
    BY <1>2 DEF Expected, BandBlock
  <2>1. CASE NBands = 1
    <3>1. RowIdx = BlockIdx /\ nPixelOffset = nPixelSize /\ b = 1
      BY <2>1, SingleFacts
    <3>2. ByteBand(j) = 1
      BY <2>1, <3>1, SingleByte
    <3>3. DecodedByte(j) = BandBlock(b)[j]
      BY <3>1, <3>2, DecodedParts, Zenon DEF BandBlock
    <3> QED BY <3>1, <3>3 DEF Byte
  <2>2. CASE NBands # 1
    <3>1. BitDepth # 16
      BY <2>2
    <3>2. j \in 0 .. Width - 1 /\ j \div nPixelSize = j /\ j % nPixelSize = 0
      BY <3>1, NarrowFacts, NarrowUnit, WidthAssumption DEF BlockIdx
    <3> DEFINE p == j * NBands + (b - 1)
    <3>3. /\ p \in RowIdx
          /\ p \div nPixelOffset = j /\ ByteBand(p) = b
          /\ p % nPixelSize = 0
      BY <3>1, <3>2, NarrowCell
    <3>4. DecodedByte(p) = BandBlock(b)[j]
      BY <3>2, <3>3, DecodedParts DEF BandBlock
    <3> QED BY <3>3, <3>4 DEF Byte
  <2> QED BY <2>1, <2>2
<1> QED BY <1>1, <1>2

(* TypeOK together with BufInv is inductive. *)
TInv == TypeOK /\ BufInv

LEMMA TInvInit ==
    ASSUME BitDepth # 16 \/ NBands = 1
    PROVE  Init => TInv
<1> SUFFICES ASSUME Init PROVE TInv
  OBVIOUS
<1>1. BufInv
  BY BufInvInit
<1>2. pabyBuffer \in [RowIdx -> Byte]
  BY DEF Init, Byte
<1>3. written \in [Bands -> {0} \cup Versions]
  BY DEF Init
<1>4. lastRead \in [band : {0} \cup Bands, data : [BlockIdx -> Byte \cup {Stale}]]
  BY DEF Init, NoRead
<1> QED BY <1>1, <1>2, <1>3, <1>4 DEF TInv, TypeOK

LEMMA TInvNext ==
    ASSUME BitDepth # 16 \/ NBands = 1
    PROVE  TInv /\ [Next]_vars => TInv'
<1> SUFFICES ASSUME TInv, [Next]_vars PROVE TInv'
  OBVIOUS
<1>1. BufInv /\ BufInv'
  BY BufInvNext DEF TInv
<1>2. pabyBuffer' \in [RowIdx -> Byte] /\ written' \in [Bands -> {0} \cup Versions]
  <2>1. written' \in [Bands -> {0} \cup Versions]
    BY <1>1 DEF BufInv
  <2>2. \A p \in RowIdx : Holds(p)' \in Byte
    BY <2>1, HoldsType DEF Holds, HoldsOf
  <2> QED BY <1>1, <2>1, <2>2 DEF BufInv
<1>3. lastRead' \in [band : {0} \cup Bands, data : [BlockIdx -> Byte \cup {Stale}]]
  <2>1. ASSUME NEW b \in Bands, IReadBlock(b)
        PROVE  lastRead' \in [band : {0} \cup Bands,
                               data : [BlockIdx -> Byte \cup {Stale}]]
    <3>1. Gather(pabyBuffer, b) = Expected(b) /\ Expected(b) \in [BlockIdx -> Byte]
      BY <1>1, ReadCorrect, ExpectedType
    <3> QED BY <2>1, <3>1 DEF IReadBlock
  <2>2. ASSUME NEW b \in Bands, NEW v \in Versions, IWriteBlock(b, v)
        PROVE  lastRead' \in [band : {0} \cup Bands,
                               data : [BlockIdx -> Byte \cup {Stale}]]
    BY <2>2 DEF IWriteBlock, TInv, TypeOK
  <2>3. CASE UNCHANGED vars
    BY <2>3 DEF vars, TInv, TypeOK
  <2> QED BY <2>1, <2>2, <2>3 DEF Next
<1> QED BY <1>1, <1>2, <1>3 DEF TInv, TypeOK

(* Every reachable state of the band transfer is well typed: IReadBlock   *)
(* only ever returns bytes libpng decoded or a caller wrote, when the      *)
(* samples are one byte wide or the row has one band.                      *)
THEOREM TypeCorrect ==
    ASSUME BitDepth # 16 \/ NBands = 1
    PROVE  Spec => []TypeOK
<1>1. Init => TInv
  BY TInvInit
<1>2. TInv /\ [Next]_vars => TInv'
  BY TInvNext
<1>3. TInv => TypeOK
  BY DEF TInv
<1> QED BY <1>1, <1>2, <1>3, PTL DEF Spec

=============================================================================
