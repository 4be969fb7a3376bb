-------------------------- MODULE PNGScanlineCache --------------------------
(***************************************************************************)
(* The scanline cache of the GDAL PNG driver (PNGDataset, pasted into      *)
(* src/frmts/raw/envidataset.cpp from line 1057).  libpng produces rows    *)
(* strictly in order; PNGDataset::LoadScanline bridges it to random row    *)
(* access.  A progressive image is buffered one row at a time and the      *)
(* decoder is rewound (Restart) when a row at or before the last row read  *)
(* is asked for; an interlaced image is decoded whole into a buffer of     *)
(* nRasterYSize rows.                                                      *)
(*                                                                         *)
(* Pixel data is abstracted to row identities: a buffer slot holds the     *)
(* number of the image row libpng decoded into it, or Garbage for memory   *)
(* that was allocated and never filled.  The byte layout of a row (bands,  *)
(* 8/16 bit samples) is the subject of module PNGBandIO.                   *)
(***************************************************************************)
EXTENDS Integers

CONSTANTS
    Height,        \* nRasterYSize, from png_get_image_height
    NBands,        \* nBands, from png_get_channels
    Interlaced,    \* bInterlaced, from png_get_interlace_type
    AllocMayFail,  \* whether VSIMalloc of the whole-image buffer may fail
    Garbage,       \* content of a buffer slot nothing was decoded into
    BadAccess      \* what a block I/O sees through a NULL or short buffer

ASSUME HeightAssumption == Height \in Nat \ {0}
ASSUME NBandsAssumption == NBands \in Nat \ {0}
ASSUME FlagsAssumption == Interlaced \in BOOLEAN /\ AllocMayFail \in BOOLEAN
ASSUME MarkersAssumption == Garbage \notin Int /\ BadAccess \notin Int
                            /\ Garbage # BadAccess

VARIABLES
    nBufferStartLine,  \* first image row held by the buffer
    nBufferLines,      \* number of rows the cache claims to hold
    nLastLineRead,     \* the code's belief of the last row libpng produced
    pabyBuffer,        \* buffer contents, slot -> band -> sample
    nBufferAlloc,      \* rows allocated for pabyBuffer; 0 is NULL
    pngRow,            \* rows libpng has really produced since png_read_info
    pngMisuse,         \* libpng was driven outside its contract
    lastIO             \* outcome of the last IReadBlock / IWriteBlock

vars == <<nBufferStartLine, nBufferLines, nLastLineRead, pabyBuffer,
          nBufferAlloc, pngRow, pngMisuse, lastIO>>

Rows == 0 .. Height - 1
Bands == 1 .. NBands
(* A band sample in the buffer: of which row, decoded by libpng or written  *)
(* by IWriteBlock; Garbage for allocated memory nothing was put in.        *)
Sample == [row : Rows, src : {"png", "user"}]
Content == Sample \cup {Garbage}
(* The row libpng decodes into a slot: every band's sample of row r. *)
DecodedRow(r) == [b \in Bands |-> [row |-> r, src |-> "png"]]
GarbageRow == [b \in Bands |-> Garbage]
NoIO == [op |-> "none", line |-> 0, band |-> 1, err |-> "CE_None",
         data |-> Garbage]
IOResult == [op : {"read", "write"}, line : Rows, band : Bands,
             err : {"CE_None", "CE_Failure"},
             data : Content \cup {BadAccess}] \cup {NoIO}

TypeOK ==
    /\ nBufferStartLine \in Rows
    /\ nBufferLines \in 0 .. Height
    /\ nLastLineRead \in -1 .. Height - 1
    /\ pabyBuffer \in [Rows -> [Bands -> Content]]
    /\ nBufferAlloc \in 0 .. Height
    /\ pngRow \in 0 .. Height
    /\ pngMisuse \in BOOLEAN
    /\ lastIO \in IOResult

(***************************************************************************)
(* PNGDataset() and the end of PNGDataset::Open: no buffer, the cursor at  *)
(* its sentinel, and libpng positioned after png_read_info, before row 0.  *)
(***************************************************************************)
Init ==
    /\ nBufferStartLine = 0
    /\ nBufferLines = 0
    /\ nLastLineRead = -1
    /\ pabyBuffer = [r \in Rows |-> GarbageRow]
    /\ nBufferAlloc = 0
    /\ pngRow = 0
    /\ pngMisuse = FALSE
    /\ lastIO = NoIO

(***************************************************************************)
(* LoadScanline is a helper both block operations call before touching    *)
(* the buffer, so it is written as the set of states it can leave the      *)
(* cache and libpng in, each with the CPLErr it returns.  A Cache record   *)
(* holds the values of the variables LoadScanline assigns.                 *)
(***************************************************************************)
Cache == [start : Rows, lines : 0 .. Height, last : -1 .. Height - 1,
          buf : [Rows -> [Bands -> Content]], alloc : 0 .. Height,
          row : 0 .. Height, misuse : BOOLEAN,
          err : {"CE_None", "CE_Failure"}]

(* A cache state with the given values. *)
CacheState(start, lines, last, buf, alloc, row, misuse, err) ==
    [start |-> start, lines |-> lines, last |-> last, buf |-> buf,
     alloc |-> alloc, row |-> row, misuse |-> misuse, err |-> err]

Now == CacheState(nBufferStartLine, nBufferLines, nLastLineRead, pabyBuffer,
                  nBufferAlloc, pngRow, pngMisuse, "CE_None")

(* The early return of LoadScanline: the row is inside the buffered range. *)
Buffered(nLine) ==
    nLine >= nBufferStartLine /\ nLine < nBufferStartLine + nBufferLines

(* Mutation used to test the properties: Restart only resets the cursor    *)
(* and forgets to rewind the file and recreate the read struct.            *)
RestartCursorOnly(c) ==
    CacheState(c.start, c.lines, -1, c.buf, c.alloc, c.row, c.misuse, c.err)

(***************************************************************************)
(* PNGDataset::Restart: rewind the file, recreate the read struct and read *)
(* the header again, so libpng is back before row 0; nLastLineRead = -1.   *)
(***************************************************************************)
Restart(c) ==
    CacheState(c.start, c.lines, -1, c.buf, c.alloc, 0, c.misuse, c.err)

(* Mutation: the interlaced branch never restarts a used decoder. *)
InterlacedStartNoRestart == Now

(* Interlaced branch, first step: a cursor off its sentinel means libpng   *)
(* has already been used, so it is restarted.                              *)
InterlacedStart == IF nLastLineRead # -1 THEN Restart(Now) ELSE Now

(* Mutation: the range is set one row short of the whole image. *)
WholeImageRangeShort(c) ==
    CacheState(0, Height - 1, c.last, c.buf, c.alloc, c.row, c.misuse, c.err)

(* The range is claimed to be the whole image before the allocation. *)
WholeImageRange(c) ==
    CacheState(0, Height, c.last, c.buf, c.alloc, c.row, c.misuse, c.err)

(* What png_read_image leaves in the buffer: every row, if libpng was      *)
(* before row 0, else nothing usable.                                      *)
WholeImage(c) ==
    [r \in Rows |-> IF c.row = 0 THEN DecodedRow(r) ELSE GarbageRow]

(* Mutation: the cursor is left one past the last row. *)
WholeImageDecodedPastEnd(c) ==
    CacheState(c.start, c.lines, Height, WholeImage(c), Height, Height,
               c.misuse \/ c.row # 0, c.err)

(***************************************************************************)
(* The allocation succeeded: png_read_image fills every row, but only on a *)
(* stream nothing was read from yet, and the cursor is set to the last     *)
(* row.                                                                    *)
(***************************************************************************)
WholeImageDecoded(c) ==
    CacheState(c.start, c.lines, Height - 1, WholeImage(c), Height, Height,
               c.misuse \/ c.row # 0, c.err)

(* VSIMalloc returned NULL: CE_Failure, with the range already claimed. *)
WholeImageAllocFailed(c) ==
    CacheState(c.start, c.lines, c.last, c.buf, 0, c.row, c.misuse,
               "CE_Failure")

(* The interlaced branch of LoadScanline; VSIMalloc may return NULL. *)
LoadInterlaced ==
    LET c1 == WholeImageRange(InterlacedStart)
    IN  (IF AllocMayFail THEN {WholeImageAllocFailed(c1)} ELSE {})
        \cup {WholeImageDecoded(c1)}

(* Mutation: the rewind test is off by one and misses nLine = nLastLineRead. *)
ProgressiveStartOffByOne(nLine) ==
    IF nLine < nLastLineRead THEN Restart(Now) ELSE Now

(* Progressive branch: Restart when the row is at or before the cursor. *)
ProgressiveStart(nLine) ==
    IF nLine <= nLastLineRead THEN Restart(Now) ELSE Now

(* Mutation: nBufferStartLine is not updated after reading the row. *)
LoadProgressiveKeepStart(nLine) ==
    LET c0    == ProgressiveStart(nLine)
        reads == nLine - c0.last
        got   == c0.row + reads - 1
        fresh == IF nBufferAlloc = 0 THEN GarbageRow ELSE pabyBuffer[0]
    IN  {CacheState(c0.start, 1,
                    IF reads > 0 THEN nLine ELSE c0.last,
                    [c0.buf EXCEPT ![0] = IF reads > 0 /\ got \in Rows
                                          THEN DecodedRow(got) ELSE fresh],
                    IF nBufferAlloc = 0 THEN 1 ELSE nBufferAlloc,
                    IF c0.row + reads > Height THEN Height ELSE c0.row + reads,
                    c0.misuse \/ c0.row + reads > Height,
                    c0.err)}

(***************************************************************************)
(* The progressive branch of LoadScanline: allocate the one-row buffer if  *)
(* there is none, Restart if needed, then call png_read_rows into slot 0   *)
(* while nLine > nLastLineRead.  Each call returns the row libpng is       *)
(* really at, so the slot ends up holding row c0.row + reads - 1.          *)
(***************************************************************************)
LoadProgressive(nLine) ==
    LET c0    == ProgressiveStart(nLine)
        reads == nLine - c0.last
        got   == c0.row + reads - 1
        fresh == IF nBufferAlloc = 0 THEN GarbageRow ELSE pabyBuffer[0]
    IN  {CacheState(nLine, 1,
                    IF reads > 0 THEN nLine ELSE c0.last,
                    [c0.buf EXCEPT ![0] = IF reads > 0 /\ got \in Rows
                                          THEN DecodedRow(got) ELSE fresh],
                    IF nBufferAlloc = 0 THEN 1 ELSE nBufferAlloc,
                    IF c0.row + reads > Height THEN Height ELSE c0.row + reads,
                    c0.misuse \/ c0.row + reads > Height,
                    c0.err)}

(* PNGDataset::LoadScanline(nLine): the states it can return in. *)
LoadScanline(nLine) ==
    IF Buffered(nLine) THEN {Now}
    ELSE IF Interlaced THEN LoadInterlaced
    ELSE LoadProgressive(nLine)

(* Commit the cache part of an outcome, with the buffer contents buf. *)
Apply(c, buf) ==
    /\ nBufferStartLine' = c.start
    /\ nBufferLines' = c.lines
    /\ nLastLineRead' = c.last
    /\ pabyBuffer' = buf
    /\ nBufferAlloc' = c.alloc
    /\ pngRow' = c.row
    /\ pngMisuse' = c.misuse

(* Row nLine is at slot nLine - c.start, if that is inside the buffer. *)
InBuffer(c, nLine) == nLine - c.start \in 0 .. c.alloc - 1

(***************************************************************************)
(* PNGRasterBand::IReadBlock for band nBand and block row nBlockYOff:      *)
(* LoadScanline, return its error if any, else copy the band's samples     *)
(* out of the buffered row at (nBlockYOff - nBufferStartLine).  Reading    *)
(* through a NULL or short buffer is undefined; it is recorded as          *)
(* BadAccess.                                                              *)
(***************************************************************************)
IReadBlock(nBand, nBlockYOff) ==
    \E c \in LoadScanline(nBlockYOff) :
        /\ Apply(c, c.buf)
        /\ lastIO' = [op |-> "read", line |-> nBlockYOff, band |-> nBand,
                      err |-> c.err,
                      data |-> IF c.err # "CE_None" THEN Garbage
                               ELSE IF InBuffer(c, nBlockYOff)
                               THEN c.buf[nBlockYOff - c.start][nBand]
                               ELSE BadAccess]

(***************************************************************************)
(* PNGRasterBand::IWriteBlock: the same load, then the caller's samples    *)
(* replace band nBand of the buffered row.  lastIO.data is the sample that *)
(* was overwritten, i.e. which row the write landed in.                    *)
(***************************************************************************)
IWriteBlock(nBand, nBlockYOff) ==
    \E c \in LoadScanline(nBlockYOff) :
        LET k  == nBlockYOff - c.start
            ok == c.err = "CE_None" /\ InBuffer(c, nBlockYOff)
        IN  /\ Apply(c, IF ok THEN [c.buf EXCEPT ![k][nBand] =
                                       [row |-> nBlockYOff, src |-> "user"]]
                        ELSE c.buf)
            /\ lastIO' = [op |-> "write", line |-> nBlockYOff, band |-> nBand,
                          err |-> c.err,
                          data |-> IF c.err # "CE_None" THEN Garbage
                                   ELSE IF ok THEN c.buf[k][nBand]
                                   ELSE BadAccess]

(* Mutation: FlushCache frees the buffer but keeps the buffered range. *)
FlushCacheKeepRange ==
    /\ nBufferAlloc # 0
    /\ nBufferAlloc' = 0
    /\ UNCHANGED <<nBufferStartLine, nBufferLines, nLastLineRead, pabyBuffer,
                   pngRow, pngMisuse, lastIO>>

(***************************************************************************)
(* PNGDataset::FlushCache: frees the buffer and empties the range, but     *)
(* only when pabyBuffer is not NULL; the cursor and libpng are untouched.  *)
(***************************************************************************)
FlushCache ==
    /\ nBufferAlloc # 0
    /\ nBufferAlloc' = 0
    /\ nBufferStartLine' = 0
    /\ nBufferLines' = 0
    /\ UNCHANGED <<nLastLineRead, pabyBuffer, pngRow, pngMisuse, lastIO>>

Next ==
    \/ \E b \in Bands, n \in Rows : IReadBlock(b, n)
    \/ \E b \in Bands, n \in Rows : IWriteBlock(b, n)
    \/ FlushCache

Spec == Init /\ [][Next]_vars

-----------------------------------------------------------------------------
(***************************************************************************)
(* Properties.                                                             *)
(***************************************************************************)

(* A block read or write that LoadScanline reports as successful touches   *)
(* the buffer slot that holds exactly the requested image row (spec: a     *)
(* request for row R is served from the buffer iff the buffer holds R).    *)
ServesRequestedRow ==
    lastIO.op # "none" /\ lastIO.err = "CE_None" =>
        lastIO.data \in Sample /\ lastIO.data.row = lastIO.line

(* libpng is never driven outside its contract: png_read_image only runs   *)
(* on a stream nothing has been read from since png_read_info, and         *)
(* png_read_rows is never asked for a row past the last one.  This is what *)
(* the nLastLineRead sentinel and Restart() exist for.                     *)
PngContractRespected == ~pngMisuse

(* nLastLineRead, the code's belief of where libpng is, always names the   *)
(* row just before the one png_read_rows would return next: every path    *)
(* that moves or rewinds libpng (Restart, png_read_image, png_read_rows)   *)
(* updates the cursor with it, and FlushCache leaves both alone.           *)
CursorMatchesDecoder == nLastLineRead = pngRow - 1

(* CPLAssert(pabyBuffer == NULL) in the interlaced branch: while an        *)
(* interlaced image is buffered, no request makes libpng decode over it    *)
(* again, so its samples change only by IWriteBlock until FlushCache (the  *)
(* spec's "decoded once, every later request served from the buffer", and *)
(* samples written by IWriteBlock are not silently reverted).              *)
InterlacedDecodesOncePerFill ==
    [][Interlaced /\ nBufferAlloc # 0 =>
         \A r \in Rows, b \in Bands :
            pabyBuffer'[r][b] # pabyBuffer[r][b] =>
                pabyBuffer'[r][b] \in Sample /\ pabyBuffer'[r][b].src = "user"]_vars


-----------------------------------------------------------------------------
(***************************************************************************)
(* The refinement mapping onto ScanlineCacheSpec: the cache is Empty while *)
(* pabyBuffer is NULL, otherwise in the mode bInterlaced selects; its      *)
(* range is (nBufferStartLine, nBufferLines); a request is served from    *)
(* the image row the sample it touched belongs to, -1 for a failed one,   *)
(* and -2 (which the abstract cache never produces) for an access through *)
(* memory that holds no row.                                               *)
(***************************************************************************)
AbsMode == IF nBufferAlloc = 0 THEN "Empty"
           ELSE IF Interlaced THEN "WholeImageCached" ELSE "SingleRowCached"
AbsServed == IF lastIO.op = "none" \/ lastIO.err # "CE_None" THEN -1
             ELSE IF lastIO.data \in Sample THEN lastIO.data.row ELSE -2

Abs == INSTANCE ScanlineCacheSpec
         WITH mode <- AbsMode, bufStart <- nBufferStartLine,
              bufCount <- nBufferLines, served <- AbsServed

(* LoadScanline, FlushCache and the block operations implement the cache  *)
(* the spec describes: every step of the code is a request served from    *)
(* the requested row with the range the spec dictates, a failed request  *)
(* that leaves the cache alone, a flush to Empty, or no visible change.   *)
ImplementsScanlineCacheSpec == Abs!Spec

=============================================================================
