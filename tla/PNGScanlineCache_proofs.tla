----------------------- MODULE PNGScanlineCache_proofs -----------------------
(***************************************************************************)
(* Proofs about the PNG scanline cache, for every image height, band count *)
(* and choice of buffering strategy and allocator behaviour.               *)
(***************************************************************************)
EXTENDS PNGScanlineCache, TLAPS

USE HeightAssumption, NBandsAssumption, FlagsAssumption

-----------------------------------------------------------------------------
(* Every outcome LoadScanline can produce is a well-typed cache state. *)

LEMMA NowTyped == TypeOK => Now \in Cache
BY DEF TypeOK, Now, CacheState, Cache, Rows

LEMMA RestartTyped == ASSUME NEW c \in Cache PROVE Restart(c) \in Cache
BY DEF Restart, CacheState, Cache, Rows

LEMMA InterlacedTyped == TypeOK => LoadInterlaced \subseteq Cache
<1> SUFFICES ASSUME TypeOK PROVE LoadInterlaced \subseteq Cache
  OBVIOUS
<1>1. InterlacedStart \in Cache
  BY NowTyped, RestartTyped DEF InterlacedStart, Rows
<1>2. WholeImageRange(InterlacedStart) \in Cache
  BY <1>1 DEF WholeImageRange, CacheState, Cache, Rows
<1>3. WholeImageDecoded(WholeImageRange(InterlacedStart)) \in Cache
  <2> DEFINE c == WholeImageRange(InterlacedStart)
  <2>1. WholeImage(c) \in [Rows -> [Bands -> Content]]
    BY DEF WholeImage, DecodedRow, GarbageRow, Content, Sample, Rows
  <2> QED
    BY <1>2, <2>1 DEF WholeImageDecoded, CacheState, Cache, Rows
<1>4. WholeImageAllocFailed(WholeImageRange(InterlacedStart)) \in Cache
  BY <1>2 DEF WholeImageAllocFailed, CacheState, Cache, Rows
<1> QED
  BY <1>3, <1>4 DEF LoadInterlaced, Rows

LEMMA ProgressiveTyped ==
    ASSUME TypeOK, NEW n \in Rows PROVE LoadProgressive(n) \subseteq Cache
<1> DEFINE c0    == ProgressiveStart(n)
           reads == n - c0.last
           got   == c0.row + reads - 1
           fresh == IF nBufferAlloc = 0 THEN GarbageRow ELSE pabyBuffer[0]
<1>1. c0 \in Cache
  BY NowTyped, RestartTyped DEF ProgressiveStart, Rows
<1>2. reads > 0
  BY DEF ProgressiveStart, Restart, CacheState, Now, TypeOK, Rows
<1>3. fresh \in [Bands -> Content]
  BY DEF TypeOK, GarbageRow, Content, Rows
<1>4. [c0.buf EXCEPT ![0] = IF reads > 0 /\ got \in Rows
                            THEN DecodedRow(got) ELSE fresh]
        \in [Rows -> [Bands -> Content]]
  BY <1>1, <1>3 DEF Cache, DecodedRow, Content, Sample, Rows
<1>5. (IF c0.row + reads > Height THEN Height ELSE c0.row + reads)
        \in 0 .. Height
  BY <1>1, <1>2 DEF Cache, Rows
<1>6. (IF nBufferAlloc = 0 THEN 1 ELSE nBufferAlloc) \in 0 .. Height
  BY DEF TypeOK, Rows
<1> QED
  BY <1>1, <1>2, <1>4, <1>5, <1>6 DEF LoadProgressive, CacheState, Cache, Rows

LEMMA LoadTyped ==
    ASSUME TypeOK, NEW n \in Rows PROVE LoadScanline(n) \subseteq Cache
BY NowTyped, InterlacedTyped, ProgressiveTyped DEF LoadScanline, Rows

(* Committing a well-typed outcome gives a well-typed state. *)
LEMMA ApplyTyped ==
    ASSUME NEW c \in Cache, NEW buf \in [Rows -> [Bands -> Content]],
           Apply(c, buf)
    PROVE  /\ nBufferStartLine' \in Rows
           /\ nBufferLines' \in 0 .. Height
           /\ nLastLineRead' \in -1 .. Height - 1
           /\ pabyBuffer' \in [Rows -> [Bands -> Content]]
           /\ nBufferAlloc' \in 0 .. Height
           /\ pngRow' \in 0 .. Height
           /\ pngMisuse' \in BOOLEAN
BY DEF Apply, Cache, Rows

-----------------------------------------------------------------------------
(* The type invariant. *)

LEMMA InitTyped == Init => TypeOK
<1> SUFFICES ASSUME Init PROVE TypeOK
  OBVIOUS
<1>1. [r \in Rows |-> GarbageRow] \in [Rows -> [Bands -> Content]]
  BY DEF GarbageRow, Content
<1>2. NoIO \in IOResult
  BY DEF NoIO, IOResult
<1>3. /\ 0 \in Rows
      /\ -1 \in -1 .. Height - 1
      /\ 0 \in 0 .. Height
  BY DEF Rows
<1> QED
  BY <1>1, <1>2, <1>3, Zenon DEF Init, TypeOK

LEMMA ReadTyped ==
    ASSUME TypeOK, NEW b \in Bands, NEW n \in Rows, IReadBlock(b, n)
    PROVE  TypeOK'
<1>1. PICK c \in LoadScanline(n) :
        /\ Apply(c, c.buf)
        /\ lastIO' = [op |-> "read", line |-> n, band |-> b, err |-> c.err,
                      data |-> IF c.err # "CE_None" THEN Garbage
                               ELSE IF InBuffer(c, n)
                               THEN c.buf[n - c.start][b] ELSE BadAccess]
  BY DEF IReadBlock
<1>2. c \in Cache
  BY LoadTyped
<1> DEFINE data == IF c.err # "CE_None" THEN Garbage
                   ELSE IF InBuffer(c, n)
                   THEN c.buf[n - c.start][b] ELSE BadAccess
<1>3. data \in Content \cup {BadAccess}
  BY <1>2 DEF InBuffer, Cache, Content, Rows
<1>4. lastIO' \in IOResult
  <2>1. c.err \in {"CE_None", "CE_Failure"}
    BY <1>2 DEF Cache
  <2> QED
    BY <1>1, <1>3, <2>1, Zenon DEF IOResult
<1>5. /\ nBufferStartLine' \in Rows
      /\ nBufferLines' \in 0 .. Height
      /\ nLastLineRead' \in -1 .. Height - 1
      /\ pabyBuffer' \in [Rows -> [Bands -> Content]]
      /\ nBufferAlloc' \in 0 .. Height
      /\ pngRow' \in 0 .. Height
      /\ pngMisuse' \in BOOLEAN
  <2>1. c.buf \in [Rows -> [Bands -> Content]]
    BY <1>2 DEF Cache
  <2> QED
    BY <1>1, <1>2, <2>1, ApplyTyped
<1> QED
  BY <1>4, <1>5 DEF TypeOK

LEMMA WriteTyped ==
    ASSUME TypeOK, NEW b \in Bands, NEW n \in Rows, IWriteBlock(b, n)
    PROVE  TypeOK'
<1>1. PICK c \in LoadScanline(n) :
        LET k  == n - c.start
            ok == c.err = "CE_None" /\ InBuffer(c, n)
        IN  /\ Apply(c, IF ok THEN [c.buf EXCEPT ![k][b] =
                                       [row |-> n, src |-> "user"]]
                        ELSE c.buf)
            /\ lastIO' = [op |-> "write", line |-> n, band |-> b,
                          err |-> c.err,
                          data |-> IF c.err # "CE_None" THEN Garbage
                                   ELSE IF ok THEN c.buf[k][b]
                                   ELSE BadAccess]
  BY DEF IWriteBlock
<1>2. c \in Cache
  BY LoadTyped
<1> DEFINE k    == n - c.start
           ok   == c.err = "CE_None" /\ InBuffer(c, n)
           buf  == IF ok THEN [c.buf EXCEPT ![k][b] = [row |-> n, src |-> "user"]]
                   ELSE c.buf
           data == IF c.err # "CE_None" THEN Garbage
                   ELSE IF ok THEN c.buf[k][b] ELSE BadAccess
<1>3. ok => k \in Rows
  BY <1>2 DEF InBuffer, Cache, Rows
<1>4. buf \in [Rows -> [Bands -> Content]]
  BY <1>2, <1>3 DEF Cache, Content, Sample
<1>5. data \in Content \cup {BadAccess}
  BY <1>2, <1>3 DEF Cache, Content
<1>6. lastIO' \in IOResult
  <2>1. c.err \in {"CE_None", "CE_Failure"}
    BY <1>2 DEF Cache
  <2> QED
    BY <1>1, <1>5, <2>1, Zenon DEF IOResult
<1>7. /\ nBufferStartLine' \in Rows
      /\ nBufferLines' \in 0 .. Height
      /\ nLastLineRead' \in -1 .. Height - 1
      /\ pabyBuffer' \in [Rows -> [Bands -> Content]]
      /\ nBufferAlloc' \in 0 .. Height
      /\ pngRow' \in 0 .. Height
      /\ pngMisuse' \in BOOLEAN
  BY <1>1, <1>2, <1>4, ApplyTyped
<1> QED
  BY <1>6, <1>7 DEF TypeOK

LEMMA FlushTyped == TypeOK /\ FlushCache => TypeOK'
BY DEF TypeOK, FlushCache, Rows

(* The cache variables and libpng's position always have their types. *)
THEOREM TypeCorrect == Spec => []TypeOK
<1>1. Init => TypeOK
  BY InitTyped
<1>2. TypeOK /\ [Next]_vars => TypeOK'
  BY ReadTyped, WriteTyped, FlushTyped DEF Next, vars, TypeOK
<1> QED
  BY <1>1, <1>2, PTL DEF Spec

-----------------------------------------------------------------------------
(***************************************************************************)
(* libpng's contract.  The invariant PngContractRespected is not inductive *)
(* by itself: a step that calls png_read_rows stays inside the image only *)
(* because nLastLineRead says truly where libpng is.  So the proof carries *)
(* CursorMatchesDecoder along, and shows that every outcome LoadScanline  *)
(* can produce keeps the cursor and libpng together.                      *)
(***************************************************************************)
IInv == TypeOK /\ PngContractRespected /\ CursorMatchesDecoder

(* An outcome of LoadScanline whose cursor agrees with libpng and which     *)
(* used libpng within its contract.                                        *)
Synced(c) == c.last = c.row - 1 /\ ~c.misuse

LEMMA NowSynced == IInv => Synced(Now)
BY DEF IInv, PngContractRespected, CursorMatchesDecoder, Synced, Now, CacheState

LEMMA RestartSynced ==
    ASSUME NEW c, ~c.misuse
    PROVE  Synced(Restart(c)) /\ Restart(c).row = 0
BY DEF Synced, Restart, CacheState

LEMMA InterlacedSynced == IInv => \A c \in LoadInterlaced : Synced(c)
<1> SUFFICES ASSUME IInv PROVE \A c \in LoadInterlaced : Synced(c)
  OBVIOUS
<1>1. InterlacedStart.row = 0 /\ Synced(InterlacedStart)
  <2>1. CASE nLastLineRead # -1
    BY <2>1, NowSynced, RestartSynced DEF InterlacedStart, Synced
  <2>2. CASE nLastLineRead = -1
    BY <2>2, NowSynced DEF InterlacedStart, Synced, Now, CacheState, IInv,
                           TypeOK
  <2> QED
    BY <2>1, <2>2
<1> DEFINE c1 == WholeImageRange(InterlacedStart)
<1>2. c1.row = 0 /\ Synced(c1)
  BY <1>1 DEF WholeImageRange, CacheState, Synced
<1>3. Synced(WholeImageDecoded(c1))
  BY <1>2, HeightAssumption DEF WholeImageDecoded, CacheState, Synced
<1>4. Synced(WholeImageAllocFailed(c1))
  BY <1>2 DEF WholeImageAllocFailed, CacheState, Synced
<1> QED
  BY <1>3, <1>4 DEF LoadInterlaced

LEMMA ProgressiveSynced ==
    ASSUME IInv, NEW n \in Rows PROVE \A c \in LoadProgressive(n) : Synced(c)
<1> DEFINE c0    == ProgressiveStart(n)
           reads == n - c0.last
<1>1. Synced(c0) /\ c0 \in Cache
  BY NowSynced, RestartSynced, NowTyped, RestartTyped
     DEF ProgressiveStart, IInv, Synced, PngContractRespected
<1>2. n > c0.last
  BY HeightAssumption DEF ProgressiveStart, Restart, CacheState, Now, Rows,
                          IInv, TypeOK
<1>3. c0.last \in -1 .. Height - 1 /\ c0.row \in 0 .. Height /\ c0.misuse \in BOOLEAN
  BY <1>1 DEF Cache
<1>4. c0.row = c0.last + 1 /\ ~c0.misuse
  BY <1>1, <1>3 DEF Synced
<1>5. n \in 0 .. Height - 1
  BY DEF Rows
<1>6. reads > 0 /\ c0.row + reads = n + 1 /\ ~(c0.row + reads > Height)
  BY <1>2, <1>3, <1>4, <1>5, HeightAssumption
<1>7. \A c \in LoadProgressive(n) :
         /\ c.last = IF reads > 0 THEN n ELSE c0.last
         /\ c.row = IF c0.row + reads > Height THEN Height ELSE c0.row + reads
         /\ c.misuse = (c0.misuse \/ c0.row + reads > Height)
  BY DEF LoadProgressive, CacheState
<1> QED
  BY <1>3, <1>4, <1>5, <1>6, <1>7 DEF Synced

LEMMA LoadSynced ==
    ASSUME IInv, NEW n \in Rows PROVE \A c \in LoadScanline(n) : Synced(c)
BY NowSynced, InterlacedSynced, ProgressiveSynced DEF LoadScanline

(* Committing an outcome that is in sync leaves the state in sync. *)
LEMMA ApplySynced ==
    ASSUME NEW c, NEW buf, Synced(c), Apply(c, buf)
    PROVE  (PngContractRespected /\ CursorMatchesDecoder)'
BY DEF Apply, Synced, PngContractRespected, CursorMatchesDecoder

LEMMA IInvInit == Init => IInv
BY InitTyped DEF Init, IInv, PngContractRespected, CursorMatchesDecoder

LEMMA IInvNext == IInv /\ [Next]_vars => IInv'
<1> SUFFICES ASSUME IInv, [Next]_vars PROVE IInv'
  OBVIOUS
<1>1. TypeOK'
  BY ReadTyped, WriteTyped, FlushTyped DEF IInv, Next, vars, TypeOK
<1>2. ASSUME NEW b \in Bands, NEW n \in Rows, IReadBlock(b, n)
      PROVE  (PngContractRespected /\ CursorMatchesDecoder)'
  <2>1. PICK c \in LoadScanline(n) : Apply(c, c.buf)
    BY <1>2 DEF IReadBlock
  <2> QED
    BY <2>1, LoadSynced, ApplySynced
<1>3. ASSUME NEW b \in Bands, NEW n \in Rows, IWriteBlock(b, n)
      PROVE  (PngContractRespected /\ CursorMatchesDecoder)'
  <2>1. PICK c \in LoadScanline(n) : \E buf : Apply(c, buf)
    BY <1>3 DEF IWriteBlock
  <2> QED
    BY <2>1, LoadSynced, ApplySynced
<1>4. CASE FlushCache
  BY <1>1, <1>4 DEF IInv, FlushCache, PngContractRespected, CursorMatchesDecoder
<1>5. CASE UNCHANGED vars
  BY <1>1, <1>5 DEF IInv, vars, PngContractRespected, CursorMatchesDecoder
<1> QED
  BY <1>1, <1>2, <1>3, <1>4, <1>5 DEF Next, IInv

(* libpng is only ever driven inside its contract, and nLastLineRead always *)
(* tells where it is, for every image height, band count, buffering        *)
(* strategy and allocator behaviour (LoadScanline, Restart, FlushCache).    *)
THEOREM PngContractHolds == Spec => [](PngContractRespected /\ CursorMatchesDecoder)
<1>1. IInv => PngContractRespected /\ CursorMatchesDecoder
  BY DEF IInv
<1> QED
  BY IInvInit, IInvNext, <1>1, PTL DEF Spec


-----------------------------------------------------------------------------
(***************************************************************************)
(* Serving the requested row.  When the whole-image allocation cannot     *)
(* fail, ServesRequestedRow is carried by what the buffer holds: every    *)
(* slot of the claimed range is allocated and holds, in every band, a     *)
(* sample of the row the range assigns to it.  That needs libpng to be    *)
(* where nLastLineRead says (IInv): png_read_rows then fills slot 0 with  *)
(* exactly the requested row, and png_read_image runs at row 0.           *)
(***************************************************************************)
HoldsRange(start, lines, buf, alloc) ==
    \A k \in 0 .. lines - 1 :
       /\ k < alloc
       /\ \A b \in Bands : buf[k][b] \in Sample /\ buf[k][b].row = start + k

Holds(c) == HoldsRange(c.start, c.lines, c.buf, c.alloc)

BufferHoldsRange ==
    HoldsRange(nBufferStartLine, nBufferLines, pabyBuffer, nBufferAlloc)

SInv == IInv /\ BufferHoldsRange /\ ServesRequestedRow


(* The rows a hit serves from are the ones the state already holds. *)
LEMMA BufferedServes ==
    ASSUME SInv, NEW n \in Rows, Buffered(n)
    PROVE  /\ Holds(Now) /\ Now.err = "CE_None"
           /\ n - Now.start \in 0 .. Now.lines - 1
BY HeightAssumption
   DEF SInv, BufferHoldsRange, Holds, Now, CacheState, Buffered, IInv, TypeOK,
       Rows

(* png_read_image runs on a fresh stream, so the whole image is decoded in *)
(* place: slot r holds row r in every band.                                *)
LEMMA InterlacedServes ==
    ASSUME IInv, ~AllocMayFail
    PROVE  \A c \in LoadInterlaced :
              /\ Holds(c) /\ c.err = "CE_None"
              /\ c.start = 0 /\ c.lines = Height /\ c.alloc = Height
<1>1. InterlacedStart.row = 0 /\ InterlacedStart.err = "CE_None"
  <2>1. CASE nLastLineRead # -1
    BY <2>1 DEF InterlacedStart, Restart, Now, CacheState
  <2>2. CASE nLastLineRead = -1
    BY <2>2 DEF InterlacedStart, Now, CacheState, IInv, CursorMatchesDecoder,
                TypeOK
  <2> QED
    BY <2>1, <2>2
<1> DEFINE c1 == WholeImageRange(InterlacedStart)
           d  == WholeImageDecoded(c1)
<1>2. c1.row = 0 /\ c1.err = "CE_None" /\ c1.start = 0 /\ c1.lines = Height
  BY <1>1 DEF WholeImageRange, CacheState
<1>3. /\ d.start = 0 /\ d.lines = Height /\ d.alloc = Height
      /\ d.err = "CE_None" /\ d.buf = [r \in Rows |-> DecodedRow(r)]
  BY <1>2 DEF WholeImageDecoded, CacheState, WholeImage
<1>4. Holds(d)
  BY <1>3, HeightAssumption DEF Holds, HoldsRange, DecodedRow, Sample, Rows
<1>5. LoadInterlaced = {d}
  BY DEF LoadInterlaced
<1> QED
  BY <1>3, <1>4, <1>5

(* png_read_rows leaves libpng one past the requested row, so slot 0 holds *)
(* exactly that row.                                                       *)
LEMMA ProgressiveServes ==
    ASSUME IInv, NEW n \in Rows
    PROVE  \A c \in LoadProgressive(n) :
              /\ Holds(c) /\ c.err = "CE_None"
              /\ c.start = n /\ c.lines = 1 /\ c.alloc # 0
<1> DEFINE c0    == ProgressiveStart(n)
           reads == n - c0.last
           got   == c0.row + reads - 1
           fresh == IF nBufferAlloc = 0 THEN GarbageRow ELSE pabyBuffer[0]
           nbuf  == [c0.buf EXCEPT ![0] = IF reads > 0 /\ got \in Rows
                                          THEN DecodedRow(got) ELSE fresh]
           nalloc == IF nBufferAlloc = 0 THEN 1 ELSE nBufferAlloc
<1>1. c0 \in Cache /\ Synced(c0) /\ c0.err = "CE_None"
  BY NowSynced, RestartSynced, NowTyped, RestartTyped
     DEF ProgressiveStart, IInv, Synced, PngContractRespected, Restart, Now,
         CacheState
<1>2. n > c0.last
  BY HeightAssumption DEF ProgressiveStart, Restart, CacheState, Now, Rows,
                          IInv, TypeOK
<1>3. c0.last \in -1 .. Height - 1 /\ c0.row = c0.last + 1 /\ n \in 0 .. Height - 1
  BY <1>1 DEF Cache, Synced, Rows
<1>4. reads > 0 /\ got = n
  BY <1>2, <1>3
<1>5. nbuf[0] = DecodedRow(n)
  BY <1>1, <1>3, <1>4, HeightAssumption DEF Cache, Rows
<1>6. nalloc \in 1 .. Height
  BY HeightAssumption DEF IInv, TypeOK
<1>7. \A c \in LoadProgressive(n) :
         c.start = n /\ c.lines = 1 /\ c.alloc = nalloc /\ c.err = c0.err
         /\ c.buf = nbuf
  BY DEF LoadProgressive, CacheState
<1>8. \A b \in Bands : DecodedRow(n)[b] \in Sample /\ DecodedRow(n)[b].row = n
  BY <1>3 DEF DecodedRow, Sample, Rows
<1>9. HoldsRange(n, 1, nbuf, nalloc)
  <2> SUFFICES ASSUME NEW k \in 0 .. 0
               PROVE  k < nalloc /\ \A b \in Bands : nbuf[k][b] \in Sample
                                                   /\ nbuf[k][b].row = n + k
    BY DEF HoldsRange
  <2>1. k = 0
    OBVIOUS
  <2> QED
    BY <2>1, <1>5, <1>6, <1>8, <1>3
<1> QED
  BY <1>1, <1>7, <1>9 DEF Holds


(* Every outcome of LoadScanline, when the allocation cannot fail: it is  *)
(* well typed, holds its range, succeeds and covers the requested row,    *)
(* with the range the buffering strategy dictates.                        *)
LEMMA LoadServes ==
    ASSUME SInv, ~AllocMayFail, NEW n \in Rows, NEW c \in LoadScanline(n)
    PROVE  /\ c \in Cache
           /\ Holds(c) /\ c.err = "CE_None"
           /\ n - c.start \in 0 .. c.lines - 1
           /\ Buffered(n) => c = Now
           /\ ~Buffered(n) /\ Interlaced =>
                 c.start = 0 /\ c.lines = Height /\ c.alloc = Height
           /\ ~Buffered(n) /\ ~Interlaced =>
                 c.start = n /\ c.lines = 1 /\ c.alloc # 0
<1>1. c \in Cache
  BY LoadTyped DEF SInv, IInv
<1>2. CASE Buffered(n)
  <2>1. c = Now
    BY <1>2 DEF LoadScanline
  <2> QED
    BY <1>1, <1>2, <2>1, BufferedServes
<1>3. CASE ~Buffered(n) /\ Interlaced
  <2>1. c \in LoadInterlaced
    BY <1>3 DEF LoadScanline
  <2> QED
    BY <1>1, <1>3, <2>1, InterlacedServes, HeightAssumption DEF SInv, Rows
<1>4. CASE ~Buffered(n) /\ ~Interlaced
  <2>1. c \in LoadProgressive(n)
    BY <1>4 DEF LoadScanline
  <2> QED
    BY <1>1, <1>4, <2>1, ProgressiveServes DEF SInv, Rows
<1> QED
  BY <1>1, <1>2, <1>3, <1>4

(* Committing an outcome with a buffer that holds its range keeps the     *)
(* buffer holding the range.                                               *)
LEMMA ApplyHolds ==
    ASSUME NEW c, NEW buf, Apply(c, buf),
           HoldsRange(c.start, c.lines, buf, c.alloc)
    PROVE  BufferHoldsRange'
BY DEF Apply, BufferHoldsRange

(* A slot of the range is inside the allocation, and its sample is of the *)
(* row requested.                                                          *)
LEMMA SlotServes ==
    ASSUME NEW c \in Cache, NEW n \in Rows, NEW b \in Bands, Holds(c),
           n - c.start \in 0 .. c.lines - 1
    PROVE  /\ InBuffer(c, n) /\ n - c.start \in Rows
           /\ c.buf[n - c.start][b] \in Sample
           /\ c.buf[n - c.start][b].row = n
<1> DEFINE k == n - c.start
<1>1. k < c.alloc /\ c.buf[k][b] \in Sample /\ c.buf[k][b].row = c.start + k
  BY DEF Holds, HoldsRange
<1>2. c.start \in Rows /\ c.alloc \in 0 .. Height
  BY DEF Cache
<1> QED
  BY <1>1, <1>2 DEF InBuffer, Rows

LEMMA ReadServes ==
    ASSUME SInv, ~AllocMayFail, NEW b \in Bands, NEW n \in Rows,
           IReadBlock(b, n)
    PROVE  BufferHoldsRange' /\ ServesRequestedRow'
<1>1. PICK c \in LoadScanline(n) :
          /\ Apply(c, c.buf)
          /\ lastIO' = [op |-> "read", line |-> n, band |-> b, err |-> c.err,
                        data |-> IF c.err # "CE_None" THEN Garbage
                                 ELSE IF InBuffer(c, n) THEN c.buf[n - c.start][b]
                                 ELSE BadAccess]
  BY DEF IReadBlock
<1>2. c \in Cache /\ Holds(c) /\ c.err = "CE_None" /\ n - c.start \in 0 .. c.lines - 1
  BY LoadServes
<1>3. InBuffer(c, n) /\ c.buf[n - c.start][b] \in Sample
      /\ c.buf[n - c.start][b].row = n
  BY <1>2, SlotServes
<1>4. BufferHoldsRange'
  BY <1>1, <1>2, ApplyHolds DEF Holds
<1>5. ServesRequestedRow'
  BY <1>1, <1>2, <1>3 DEF ServesRequestedRow
<1> QED
  BY <1>4, <1>5

LEMMA WriteServes ==
    ASSUME SInv, ~AllocMayFail, NEW b \in Bands, NEW n \in Rows,
           IWriteBlock(b, n)
    PROVE  BufferHoldsRange' /\ ServesRequestedRow'
<1>1. PICK c \in LoadScanline(n) :
          LET k  == n - c.start
              ok == c.err = "CE_None" /\ InBuffer(c, n)
          IN  /\ Apply(c, IF ok THEN [c.buf EXCEPT ![k][b] =
                                         [row |-> n, src |-> "user"]]
                          ELSE c.buf)
              /\ lastIO' = [op |-> "write", line |-> n, band |-> b,
                            err |-> c.err,
                            data |-> IF c.err # "CE_None" THEN Garbage
                                     ELSE IF ok THEN c.buf[k][b]
                                     ELSE BadAccess]
  BY DEF IWriteBlock
<1> DEFINE k    == n - c.start
           nbuf == [c.buf EXCEPT ![k][b] = [row |-> n, src |-> "user"]]
<1>2. c \in Cache /\ Holds(c) /\ c.err = "CE_None" /\ k \in 0 .. c.lines - 1
  BY LoadServes
<1>3. InBuffer(c, n) /\ k \in Rows /\ c.buf[k][b] \in Sample /\ c.buf[k][b].row = n
  BY <1>2, SlotServes
<1>4. Apply(c, nbuf)
      /\ lastIO' = [op |-> "write", line |-> n, band |-> b, err |-> c.err,
                    data |-> c.buf[k][b]]
  BY <1>1, <1>2, <1>3
<1>5. HoldsRange(c.start, c.lines, nbuf, c.alloc)
  <2> SUFFICES ASSUME NEW j \in 0 .. c.lines - 1
               PROVE  j < c.alloc /\ \A a \in Bands : nbuf[j][a] \in Sample
                                                    /\ nbuf[j][a].row = c.start + j
    BY DEF HoldsRange
  <2>1. j < c.alloc /\ \A a \in Bands : c.buf[j][a] \in Sample
                                       /\ c.buf[j][a].row = c.start + j
    BY <1>2 DEF Holds, HoldsRange
  <2>2. c.buf \in [Rows -> [Bands -> Content]] /\ c.start \in Rows
    BY <1>2 DEF Cache
  <2>3. \A a \in Bands : nbuf[j][a] = IF j = k /\ a = b THEN [row |-> n, src |-> "user"]
                                      ELSE c.buf[j][a]
    BY <2>2, <1>3
  <2>4. [row |-> n, src |-> "user"] \in Sample
    BY DEF Sample
  <2> QED
    BY <2>1, <2>2, <2>3, <2>4, <1>3
<1>6. BufferHoldsRange'
  BY <1>4, <1>5, ApplyHolds
<1>7. ServesRequestedRow'
  BY <1>3, <1>4 DEF ServesRequestedRow
<1> QED
  BY <1>6, <1>7


LEMMA SInvInit == Init => SInv
BY IInvInit DEF Init, SInv, BufferHoldsRange, HoldsRange, ServesRequestedRow,
                NoIO

LEMMA SInvNext ==
    ASSUME SInv, ~AllocMayFail, [Next]_vars PROVE SInv'
<1>1. IInv'
  BY IInvNext DEF SInv
<1>2. CASE \E b \in Bands, n \in Rows : IReadBlock(b, n)
  BY <1>1, <1>2, ReadServes DEF SInv
<1>3. CASE \E b \in Bands, n \in Rows : IWriteBlock(b, n)
  BY <1>1, <1>3, WriteServes DEF SInv
<1>4. CASE FlushCache
  BY <1>1, <1>4 DEF FlushCache, SInv, BufferHoldsRange, HoldsRange,
                    ServesRequestedRow
<1>5. CASE UNCHANGED vars
  BY <1>1, <1>5 DEF vars, SInv, BufferHoldsRange, ServesRequestedRow
<1> QED
  BY <1>1, <1>2, <1>3, <1>4, <1>5 DEF Next, SInv

(* When VSIMalloc of the whole-image buffer cannot fail, every block that *)
(* IReadBlock or IWriteBlock reports as successful was served from the    *)
(* requested row, for every image height, band count and buffering        *)
(* strategy (LoadScanline's hit, interlaced and progressive branches).    *)
THEOREM ServesRequestedRowHolds ==
    ASSUME ~AllocMayFail PROVE Spec => []ServesRequestedRow
<1>1. SInv => ServesRequestedRow
  BY DEF SInv
<1>2. SInv /\ [Next]_vars => SInv'
  BY SInvNext
<1> QED
  BY SInvInit, <1>1, <1>2, PTL DEF Spec


-----------------------------------------------------------------------------
(***************************************************************************)
(* Refinement.  Under the same assumption the cache implements            *)
(* ScanlineCacheSpec through the mapping AbsMode / AbsServed: a block     *)
(* request is an Access of its row, FlushCache is a Flush.  The step      *)
(* argument rests on LoadServes: a hit leaves the range alone, a miss     *)
(* fills the range the strategy dictates.                                 *)
(***************************************************************************)

(* Committing an outcome of LoadScanline(n), whatever is written into the *)
(* buffer, moves the abstract cache as an Access of row n does.           *)
LEMMA AccessCache ==
    ASSUME SInv, ~AllocMayFail, NEW n \in Rows, NEW c \in LoadScanline(n),
           NEW buf, Apply(c, buf)
    PROVE  IF Abs!Servable(n)
           THEN UNCHANGED <<AbsMode, nBufferStartLine, nBufferLines>>
           ELSE Abs!Fill(n)
<1>1. /\ Buffered(n) => c = Now
      /\ ~Buffered(n) /\ Interlaced =>
            c.start = 0 /\ c.lines = Height /\ c.alloc = Height
      /\ ~Buffered(n) /\ ~Interlaced =>
            c.start = n /\ c.lines = 1 /\ c.alloc # 0
  BY LoadServes
<1>2. Abs!Servable(n) <=> Buffered(n)
  BY HeightAssumption DEF Abs!Servable, Buffered, SInv, IInv, TypeOK, Rows
<1>3. CASE Buffered(n)
  BY <1>1, <1>2, <1>3 DEF Apply, Now, CacheState, AbsMode
<1>4. CASE ~Buffered(n) /\ Interlaced
  BY <1>1, <1>2, <1>4, HeightAssumption DEF Apply, AbsMode, Abs!Fill
<1>5. CASE ~Buffered(n) /\ ~Interlaced
  BY <1>1, <1>2, <1>5 DEF Apply, AbsMode, Abs!Fill
<1> QED
  BY <1>3, <1>4, <1>5

LEMMA ReadRefines ==
    ASSUME SInv, ~AllocMayFail, NEW b \in Bands, NEW n \in Rows,
           IReadBlock(b, n)
    PROVE  Abs!Access(n)
<1>1. PICK c \in LoadScanline(n) :
          /\ Apply(c, c.buf)
          /\ lastIO' = [op |-> "read", line |-> n, band |-> b, err |-> c.err,
                        data |-> IF c.err # "CE_None" THEN Garbage
                                 ELSE IF InBuffer(c, n) THEN c.buf[n - c.start][b]
                                 ELSE BadAccess]
  BY DEF IReadBlock
<1>2. c \in Cache /\ Holds(c) /\ c.err = "CE_None" /\ n - c.start \in 0 .. c.lines - 1
  BY LoadServes
<1>3. InBuffer(c, n) /\ c.buf[n - c.start][b] \in Sample
      /\ c.buf[n - c.start][b].row = n
  BY <1>2, SlotServes
<1>4. AbsServed' = n
  BY <1>1, <1>2, <1>3 DEF AbsServed
<1> QED
  BY <1>1, <1>4, AccessCache DEF Abs!Access

LEMMA WriteRefines ==
    ASSUME SInv, ~AllocMayFail, NEW b \in Bands, NEW n \in Rows,
           IWriteBlock(b, n)
    PROVE  Abs!Access(n)
<1>1. PICK c \in LoadScanline(n) :
          LET k  == n - c.start
              ok == c.err = "CE_None" /\ InBuffer(c, n)
          IN  /\ Apply(c, IF ok THEN [c.buf EXCEPT ![k][b] =
                                         [row |-> n, src |-> "user"]]
                          ELSE c.buf)
              /\ lastIO' = [op |-> "write", line |-> n, band |-> b,
                            err |-> c.err,
                            data |-> IF c.err # "CE_None" THEN Garbage
                                     ELSE IF ok THEN c.buf[k][b]
                                     ELSE BadAccess]
  BY DEF IWriteBlock
<1>2. c \in Cache /\ Holds(c) /\ c.err = "CE_None" /\ n - c.start \in 0 .. c.lines - 1
  BY LoadServes
<1>3. InBuffer(c, n) /\ c.buf[n - c.start][b] \in Sample
      /\ c.buf[n - c.start][b].row = n
  BY <1>2, SlotServes
<1>4. AbsServed' = n
  BY <1>1, <1>2, <1>3 DEF AbsServed
<1>5. \E buf : Apply(c, buf)
  BY <1>1
<1> QED
  BY <1>4, <1>5, AccessCache DEF Abs!Access

LEMMA FlushRefines ==
    ASSUME FlushCache PROVE Abs!Flush
BY DEF FlushCache, Abs!Flush, AbsMode, AbsServed

LEMMA RefinementStep ==
    ASSUME SInv, ~AllocMayFail, [Next]_vars PROVE [Abs!Next]_Abs!vars
<1>1. CASE \E b \in Bands, n \in Rows : IReadBlock(b, n)
  BY <1>1, ReadRefines DEF Abs!Next, Abs!Rows, Rows
<1>2. CASE \E b \in Bands, n \in Rows : IWriteBlock(b, n)
  BY <1>2, WriteRefines DEF Abs!Next, Abs!Rows, Rows
<1>3. CASE FlushCache
  BY <1>3, FlushRefines DEF Abs!Next
<1>4. CASE UNCHANGED vars
  BY <1>4 DEF vars, Abs!vars, AbsMode, AbsServed
<1> QED
  BY <1>1, <1>2, <1>3, <1>4 DEF Next

(* When the whole-image allocation cannot fail, the PNG scanline cache    *)
(* (LoadScanline, IReadBlock, IWriteBlock, FlushCache) implements the     *)
(* abstract cache of ScanlineCacheSpec, for every height, band count and  *)
(* buffering strategy.                                                    *)
THEOREM RefinesScanlineCacheSpec ==
    ASSUME ~AllocMayFail PROVE Spec => ImplementsScanlineCacheSpec
<1>1. Init => Abs!Init
  BY DEF Init, Abs!Init, AbsMode, AbsServed, NoIO
<1>2. SInv /\ [Next]_vars => [Abs!Next]_Abs!vars
  BY RefinementStep
<1>3. SInv /\ [Next]_vars => SInv'
  BY SInvNext
<1> QED
  BY SInvInit, <1>1, <1>2, <1>3, PTL DEF Spec, ImplementsScanlineCacheSpec,
                                         Abs!Spec

-----------------------------------------------------------------------------
(* nLastLineRead always names the row just before the one libpng would    *)
(* return next, whatever LoadScanline, Restart and FlushCache do.         *)
COROLLARY CursorMatchesDecoderHolds == Spec => []CursorMatchesDecoder
BY PngContractHolds, PTL

-----------------------------------------------------------------------------
(***************************************************************************)
(* An interlaced image, once allocated, is buffered whole: the interlaced *)
(* branch sets nBufferStartLine = 0 and nBufferLines = nRasterYSize before *)
(* the VSIMalloc, and FlushCache empties the range only as it frees the   *)
(* buffer.  This holds whether or not the allocation may fail.            *)
(***************************************************************************)
WholeInv ==
    /\ TypeOK
    /\ Interlaced /\ nBufferAlloc # 0 =>
           nBufferStartLine = 0 /\ nBufferLines = Height

(* The body of InterlacedDecodesOncePerFill: a step that changes a sample *)
(* of an allocated interlaced buffer puts a caller's sample there.         *)
OnlyUserWrites ==
    Interlaced /\ nBufferAlloc # 0 =>
        \A r \in Rows, b \in Bands :
            pabyBuffer'[r][b] # pabyBuffer[r][b] =>
                pabyBuffer'[r][b] \in Sample /\ pabyBuffer'[r][b].src = "user"

(* Every outcome of the interlaced branch claims the whole image, or has  *)
(* no buffer.                                                             *)
LEMMA InterlacedWhole ==
    ASSUME NEW c \in LoadInterlaced
    PROVE  c.alloc # 0 => c.start = 0 /\ c.lines = Height
BY DEF LoadInterlaced, WholeImageAllocFailed, WholeImageDecoded,
       WholeImageRange, CacheState

(* Every row of an allocated interlaced buffer is a hit: LoadScanline     *)
(* returns at once with the state as it is.                               *)
LEMMA WholeHit ==
    ASSUME WholeInv, Interlaced, nBufferAlloc # 0, NEW n \in Rows
    PROVE  LoadScanline(n) = {Now}
<1>1. Buffered(n)
  BY HeightAssumption DEF WholeInv, Buffered, Rows
<1> QED
  BY <1>1 DEF LoadScanline

LEMMA WholeInvInit == Init => WholeInv
BY InitTyped DEF Init, WholeInv

LEMMA WholeInvNext == WholeInv /\ [Next]_vars => WholeInv'
<1> SUFFICES ASSUME WholeInv, [Next]_vars PROVE WholeInv'
  OBVIOUS
<1>1. TypeOK'
  BY ReadTyped, WriteTyped, FlushTyped DEF Next, vars, TypeOK, WholeInv
<1>2. ASSUME NEW n \in Rows, NEW c \in LoadScanline(n)
      PROVE  Interlaced /\ c.alloc # 0 => c.start = 0 /\ c.lines = Height
  <2>1. CASE Buffered(n)
    BY <2>1 DEF LoadScanline, WholeInv, Now, CacheState
  <2>2. CASE ~Buffered(n)
    BY <2>2, InterlacedWhole DEF LoadScanline
  <2> QED
    BY <2>1, <2>2
<1>3. CASE \E b \in Bands, n \in Rows : IReadBlock(b, n)
  BY <1>1, <1>2, <1>3 DEF IReadBlock, Apply, WholeInv
<1>4. CASE \E b \in Bands, n \in Rows : IWriteBlock(b, n)
  BY <1>1, <1>2, <1>4 DEF IWriteBlock, Apply, WholeInv
<1>5. CASE FlushCache
  BY <1>1, <1>5 DEF FlushCache, WholeInv
<1>6. CASE UNCHANGED vars
  BY <1>1, <1>6 DEF vars, WholeInv
<1> QED
  BY <1>3, <1>4, <1>5, <1>6 DEF Next

(* A step from an allocated interlaced buffer changes no sample but the   *)
(* one IWriteBlock stores.                                                *)
LEMMA OnlyUserWritesStep == WholeInv /\ [Next]_vars => [OnlyUserWrites]_vars
<1> SUFFICES ASSUME WholeInv, [Next]_vars, Interlaced, nBufferAlloc # 0
             PROVE  OnlyUserWrites
  BY DEF OnlyUserWrites
<1>1. ASSUME NEW b \in Bands, NEW n \in Rows, IReadBlock(b, n)
      PROVE  pabyBuffer' = pabyBuffer
  BY <1>1, WholeHit DEF IReadBlock, Apply, Now, CacheState
<1>2. ASSUME NEW b \in Bands, NEW n \in Rows, IWriteBlock(b, n)
      PROVE  OnlyUserWrites
  <2>1. pabyBuffer' = IF Now.err = "CE_None" /\ InBuffer(Now, n)
                      THEN [pabyBuffer EXCEPT ![n - Now.start][b] =
                               [row |-> n, src |-> "user"]]
                      ELSE pabyBuffer
    BY <1>2, WholeHit DEF IWriteBlock, Apply, Now, CacheState
  <2>2. [row |-> n, src |-> "user"] \in Sample
    BY DEF Sample
  <2>3. pabyBuffer \in [Rows -> [Bands -> Content]]
    BY DEF WholeInv, TypeOK
  <2> QED
    BY <2>1, <2>2, <2>3 DEF OnlyUserWrites
<1>3. CASE \E b \in Bands, n \in Rows : IReadBlock(b, n)
  BY <1>1, <1>3 DEF OnlyUserWrites
<1>4. CASE \E b \in Bands, n \in Rows : IWriteBlock(b, n)
  BY <1>2, <1>4
<1>5. CASE FlushCache \/ UNCHANGED vars
  BY <1>5 DEF FlushCache, vars, OnlyUserWrites
<1> QED
  BY <1>3, <1>4, <1>5 DEF Next

(***************************************************************************)
(* CPLAssert(pabyBuffer == NULL) in the interlaced branch: while an        *)
(* interlaced image is buffered, libpng never decodes over it again, and   *)
(* a buffered sample changes only to a sample IWriteBlock stored, for      *)
(* every height and band count, even when the allocation may fail.         *)
(***************************************************************************)
THEOREM InterlacedDecodesOnceHolds == Spec => InterlacedDecodesOncePerFill
<1>1. Init => WholeInv
  BY WholeInvInit
<1>2. WholeInv /\ [Next]_vars => WholeInv'
  BY WholeInvNext
<1>3. WholeInv /\ [Next]_vars => [OnlyUserWrites]_vars
  BY OnlyUserWritesStep
<1> QED
  BY <1>1, <1>2, <1>3, PTL DEF Spec, InterlacedDecodesOncePerFill,
                               OnlyUserWrites

=====
