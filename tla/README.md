# Verification models for the ENVI, PNG and MySQL-result code

This directory holds TLA+ models of three pieces of the repository, TLC
configurations that check them on small instances, an abstract specification
of the PNG scanline cache with a refinement mapping, and TLAPS proofs for
every value of the constants. The proofs cover the PNG cache's invariants and
its refinement, the PNG band transfer, `PNGCreateCopy`, the MySQL result
layer and the ENVI `Create`/`Open` pair.

## What the sources contain

`src/frmts/raw/envidataset.cpp` holds two drivers:

- **ENVI**, lines 1-1056. `ENVIDataset::Open` looks for a `.hdr` label beside
  the data file and parses it into keywords (`ReadHeader`). It then turns
  samples, lines, bands, interleave, data type, byte order and header offset
  into one `RawRasterBand` per band. `Create` writes such a label and reopens
  the file with `GDALOpen`, so it goes back through `Open`.
- **PNG**, from line 1057 to the end. libpng decodes rows strictly in order.
  `PNGDataset::LoadScanline` turns that into random row access:
  - a progressive image is buffered one row at a time, and `Restart()` rewinds
    libpng when an earlier row is requested;
  - an interlaced image is decoded whole into a buffer with `png_read_image`.

  `PNGRasterBand::IReadBlock` and `IWriteBlock` call `LoadScanline`, then copy
  one band's samples out of, or into, the pixel-interleaved row. `FlushCache`
  frees the buffer.

  `PNGCreateCopy` writes a PNG from another dataset. For each line it reads
  every band with `RasterIO` into one pixel-interleaved scanline, hands the
  scanline to `png_write_rows`, and at the end reopens the file with
  `GDALOpen`.

`src/ogr/ogrsf_frmts/mysql/ogrmysqlresultlayer.cpp` builds an OGR layer over a
MySQL result. `ReadResultDefinition` walks the columns and picks the FID and
geometry columns. If there is a geometry column, it runs three more queries
(geometry type, SRID, SRS text), all through the same `hResultSet` member.

## Modules

| module | models | state | actions |
|---|---|---|---|
| `PNGScanlineCache` | `LoadScanline`, `Restart`, `FlushCache`, and the two block operations as callers of `LoadScanline` | `nBufferStartLine`, `nBufferLines`, `nLastLineRead`, `pabyBuffer` (slot → band → which row was decoded there), `nBufferAlloc` (0 is NULL), `pngRow` (libpng's real position), `pngMisuse`, `lastIO` | `IReadBlock(b, n)`, `IWriteBlock(b, n)`, `FlushCache` |
| `PNGBandIO` | the copy loops of `IReadBlock`/`IWriteBlock`, byte by byte | the scanline bytes, the last version written per band, the last block read | `IReadBlock(b)`, `IWriteBlock(b, v)` |
| `MySQLResultLayer` | the constructor and `ReadResultDefinition` | the columns, a program counter over the constructor's blocks, `hResultSet`, the set of live results, misuse records, the fields, geometry type, FID and geometry columns, SRID, SRS | `Construct`, `ReadField`, `EndFields`, `QueryType`, `QuerySrid`, `QuerySrtext` |
| `ENVIDataset` | `Open` and `Create`, with the label as a record of keyword values | `hdrFile` (the label or NULL), `ds` (the open dataset or NULL), `request` (history: the arguments of the `Create` that returned `ds`), `leaked` (history: the last `Open` returned NULL without deleting its `ENVIDataset`) | `WriteLabel` (a label from another program), `Open(ext)`, `Close`, `Create(x, y, b, t)` |
| `ScanlineCacheSpec` | what the cache promises (spec sections 3, 4.2, 7), without the decoder or bytes | `mode` (Empty, SingleRowCached, WholeImageCached), `bufStart`, `bufCount`, `served` (the row the last request was served from, -1 on failure) | `Access(r)`, `AccessFails`, `Flush` |
| `PNGCreateCopy` | `PNGCreateCopy` | the source's band count and type, `bStrict`, `nBitDepth`, a program counter, `iLine`, `pabyScanline` (byte → tag), the rows written, the result | `Start` (checks, `VSIFOpen`, IHDR, `CPLMalloc`), `CopyLine`, `Finish` |
| `PNGScanlineCache_proofs` | TLAPS proofs about `PNGScanlineCache` | | |
| `MySQLResultLayer_proofs` | TLAPS proofs about `MySQLResultLayer` | | |
| `PNGCreateCopy_proofs` | TLAPS proofs about `PNGCreateCopy` | | |
| `ENVIDataset_proofs` | TLAPS proofs about `ENVIDataset` | | |
| `PNGBandIO_proofs` | TLAPS proofs about `PNGBandIO` | | |

Each `MC*.tla` module gives the constants small values for TLC.

### How the models follow the code

**PNG cache.**
- `LoadScanline(n)` is the set of cache states the C function can return in,
  each with its `CPLErr`. The branches are translated in code order:
  1. the early return;
  2. the interlaced branch: `Restart` if the cursor is off its sentinel, the
     range claimed, and `VSIMalloc` either failing or followed by
     `png_read_image`;
  3. the progressive branch: allocate, `Restart` if `n <= nLastLineRead`,
     then `png_read_rows` until the cursor reaches `n`.
- The block actions commit one of those outcomes (`Apply`) and then touch the
  slot `n - nBufferStartLine`.
- libpng is modelled by its true position, `pngRow`, so the code's belief
  (`nLastLineRead`) and the truth can drift apart. Driving libpng outside its
  contract sets `pngMisuse`: `png_read_image` on a used stream, or reading
  past the last row.
- Pixel data is abstracted to "which row libpng put here".

**Band transfer.**
- Bytes are tags: byte k of pixel x, band b, as decoded, or as written by
  version v of a caller's block.
- The 16-bit loop is a recursive function over `0..Width`, so the order of
  its writes, and which write wins, follow the C loop.

**MySQL.**
- The server is the environment. Each `mysql_query` may fail (when
  `QueryMayFail`), each `mysql_store_result` may return NULL, and each result
  may have no row.
- Freeing a result removes it from `live`. Fetching from or freeing a result
  that is not live is recorded in `memErr`.

**Refinement.** `PNGScanlineCache` maps onto `ScanlineCacheSpec`:
- `AbsMode` is Empty when no buffer is allocated, and otherwise the image's
  strategy;
- the range is `nBufferStartLine` and `nBufferLines`;
- `AbsServed` is the row the last block's sample came from.

A hit is an `Access` that leaves the range alone; a miss is an `Access` that
fills the range the strategy dictates; `FlushCache` is a `Flush`. The
property `ImplementsScanlineCacheSpec` is `Abs!Spec`.

**CreateCopy.**
- A byte is a tag: the `GDT_Byte` conversion of a source sample, its high or
  low 16-bit byte, or `Uninit` (the `CPLMalloc` buffer is never cleared).
- `PixelOffset(b, x)` is where `RasterIO` with pixel spacing `nBands` puts a
  band's sample. The bands of one line write disjoint bytes, so the band loop
  is one step. A failing band leaves its bytes as they were.
- `png_write_rows` takes the first `RowBytes` bytes: `nBands * nXSize`
  samples at the PNG's depth.
- `CopyPreservesSamples` decodes each row as a PNG reader does (two bytes,
  most significant first, at 16 bits).

**ENVI.**
- C `int` arithmetic wraps at `IntBits` bits (`IntWrap`). `vsi_l_offset` is
  an unsigned integer twice that wide (`ToOffset`).
- The strides are translated per interleave. The bsq band offset is an `int`
  product before it is widened, as in the code.
- Closing the dataset appends a "band names" keyword, which no modelled
  keyword depends on.
- `OpenResults` gives every outcome of `Open`: the dataset returned, and
  whether an `ENVIDataset` was constructed and then neither returned nor
  deleted.

## Runs

| run | cfg | expect | what it shows |
|---|---|---|---|
| png_progressive | `PNGCacheProgressive.cfg` | pass | For a progressive image, any mix of reads, writes and flushes keeps `nLastLineRead = pngRow - 1`, serves every successful block from the requested row, and implements `ScanlineCacheSpec`. |
| png_interlaced | `PNGCacheInterlaced.cfg` | pass | For an interlaced image, `png_read_image` runs only on a fresh stream, every block is served from its row, the buffer is decoded once per fill (later changes are writes), and the cache implements `ScanlineCacheSpec`. |
| png_oom_serves | `PNGCacheOOMServes.cfg` | violation | A failed allocation leaves the range claimed; `FlushCache` does not reset it because `pabyBuffer` is NULL, so the next read returns `CE_None` through a NULL buffer. |
| png_bandio_8bit | `PNGBandIO8.cfg` | pass | 8-bit, 3 bands: every read returns exactly the band's samples, whatever was written before. |
| png_bandio_16bit | `PNGBandIO16.cfg` | violation | 16-bit, 2 bands: the loops write `pImage[i]` and `pImage[i+1]`, not `[2i]` and `[2i+1]`, so the first read returns mixed bytes. |
| png_copy_8bit | `PNGCopy8.cfg` | pass | Byte sources, and Float32 ones when not strict, with 0 to 5 bands: every dataset `CreateCopy` returns decodes to the source's Byte samples. |
| png_copy_16bit | `PNGCopy16.cfg` | violation | A UInt16 source gets a 16-bit IHDR, but the scanline is filled with `GDT_Byte` samples one byte apart, so the file holds Byte-clamped samples at the wrong places and uninitialised bytes after them. |
| mysql_definition | `MySQLDefinition.cfg` | pass | When every query succeeds, each free and fetch in `ReadResultDefinition` hits a live result. |
| mysql_query_fails | `MySQLQueryFails.cfg` | violation | When a query fails, `hResultSet` still points at the result just freed, which is then fetched from and freed again. |
| mysql_fid_choice | `MySQLFidChoice.cfg` | violation | A NOT NULL primary key after an `ogc_fid` column replaces it as the FID, against the comment that `ogc_fid` comes first. |
| envi_layout | `ENVILayout.cfg` | pass | With 15-bit ints, nothing overflows. Every band `Open` builds finds each sample where the format's interleave puts it, and `Create`'s label reopens with the requested size, bands, type and native byte order. |
| envi_open_leaks | `ENVIOpenLeaks.cfg` | violation | Opening the `.hdr` itself, or a label with a missing keyword or an unknown data type or interleave, returns NULL without deleting the `ENVIDataset` (and its open `.hdr` file), unlike the `ReadHeader` and reopen failures. |

The MySQL and CreateCopy runs set `CHECK_DEADLOCK FALSE`: each models one
call, and its final state is the return. Every other run checks for deadlock.

Fairness: no run assumes any, and every property is a safety property. The
cache's operations are the caller's to make, so no progress is owed.
`PNGCreateCopy` and the MySQL constructor are one sequential function each,
with a bounded loop. That such a call returns holds by the model's shape
whatever the code does, so it is not stated as a property.

Each property of a passing run has a mutant in `PROJECT.json`. A mutant is a
plausible bug in the mapped code:
- an off-by-one rewind test, or a `Restart` that only resets the cursor;
- a `FlushCache` that keeps the range, a short range, or a progressive load
  that keeps the old start;
- a band base off by one, band-sequential placement, a `<=` loop bound, or a
  reopen one iteration late;
- a swapped data type case, or a wrong bil stride. Each
mutant is defined in the module just before the definition it replaces, and
TLC finds the property violated under the run's own cfg.

### Bounds

- **PNG cache:** height 4 and 2 bands. That allows:
  - a forward scan;
  - a rewind to a row before the cursor;
  - a rewind to the cursor row itself (the `<=` boundary);
  - a request for the last row.

  The interlaced runs cover a refill after a flush and a failed allocation
  followed by later requests.
- **Band transfer:** width 2, so each loop runs more than once and pixel i's
  second byte can land on pixel i+1's slot. Two versions of a block per band,
  so a read tells which write it sees.
- **MySQL:** two columns of every type arm, each named `ogc_fid` or not and
  primary key or not. This gives both orders of two FID candidates, and a
  geometry column beside an attribute column.
- **CreateCopy:** 2 pixels, 3 lines in the passing run (2 in the violation
  run). Band counts 0 to 5 cover both rejections and all four colour
  types. With two pixels, band-sequential and pixel-interleaved placement
  differ, and a second line shows what the buffer carries over.
- **ENVI:**
  - sizes 0 (rejected), 1 and 3, so a band, line and pixel can each be
    first, middle or last;
  - data types of 1 and 16 bytes, and one code `Open` rejects;
  - header offsets 0 and 5.

  `IntBits = 15` keeps every product of these sizes in range. TLC's own
  integers are 32-bit, so the real width cannot be used. None of the runs
  reaches the int wrap at line 842. Changing `ENVILayout.cfg` to
  `IntBits = 8` scales the int overflow of `nLineOffset * nLines` down to
  these sizes. TLC then reports `LayoutMatchesInterleave` violated: on a
  real 32-bit int, the bsq bands after the first point at the wrong bytes
  once a band passes 2 GB. This is a check to run by hand, not one of the
  runs above.

## Proofs (TLAPS)

`PNGScanlineCache_proofs` proves six theorems for every `Height`, `NBands`,
`Interlaced` and `AllocMayFail` that satisfy the modules' ASSUMEs:

- `TypeCorrect`: `Spec => []TypeOK`. There is one lemma per outcome builder
  (`Restart`, the interlaced and progressive branches, `Apply`) and one per
  action.
- `PngContractHolds`: `Spec => [](PngContractRespected /\ CursorMatchesDecoder)`.
- `ServesRequestedRowHolds`: under `~AllocMayFail`, `Spec => []ServesRequestedRow`.
- `RefinesScanlineCacheSpec`: under `~AllocMayFail`,
  `Spec => ImplementsScanlineCacheSpec`.
- `CursorMatchesDecoderHolds`: `Spec => []CursorMatchesDecoder`, a corollary
  of `PngContractHolds` stated for the property the `png_progressive` run checks.
- `InterlacedDecodesOnceHolds`: `Spec => InterlacedDecodesOncePerFill`, the
  action property, with no assumption on `AllocMayFail`.

`PngContractRespected` alone is not inductive. A `png_read_rows` loop stays
inside the image only because `nLastLineRead` tells truly where libpng is. So
the inductive invariant is
`IInv == TypeOK /\ PngContractRespected /\ CursorMatchesDecoder`.

Each outcome of `LoadScanline` is shown to be `Synced`: its cursor equals
libpng's position minus one, and no misuse occurred. The argument has three
cases:

- `Restart` puts both at the start.
- The interlaced branch reaches `png_read_image` only at position 0.
- The progressive branch reads `n - last` rows from position `last + 1`, so
  it ends at `n + 1 <= Height`.

`FlushCache` changes neither the cursor nor libpng.

`ServesRequestedRow` needs more: what the buffer holds. The strengthening is
`SInv == IInv /\ BufferHoldsRange /\ ServesRequestedRow`. `BufferHoldsRange`
says every slot k of the claimed range is allocated and holds, in every band,
a sample of row `nBufferStartLine + k`. `LoadServes` shows each outcome of
`LoadScanline(n)` has this property and covers row n:

- a hit keeps the state;
- the interlaced branch decodes the whole image at libpng position 0
  (from `IInv`);
- the progressive branch ends with libpng at `n + 1`, so slot 0 holds row n
  (from `IInv`).

A write replaces one sample of the slot by a sample of the same row.
`FlushCache` empties the range.

The refinement step uses the same lemma. A hit leaves mode, start and count
unchanged. A miss sets the range the strategy dictates, with a non-NULL
buffer. The served row is the requested one. A flush goes to Empty.

The assumption `~AllocMayFail` is necessary: with a failing allocation, the
run `png_oom_serves` shows that `ServesRequestedRow` is violated, and the
refinement fails with it.

`InterlacedDecodesOncePerFill` rests on
`WholeInv == TypeOK /\ (Interlaced /\ nBufferAlloc # 0 => nBufferStartLine = 0 /\ nBufferLines = Height)`.
While an interlaced image is buffered the range is the whole image. Every
`LoadScanline(n)` is then a hit that returns the state unchanged, so no
request decodes over the buffer. Only `IWriteBlock` changes a sample, and it
writes a user sample. A failed allocation leaves `nBufferAlloc = 0`, so the
invariant needs no assumption.

**MySQL result layer.** `MySQLResultLayer_proofs` proves two theorems for
every `NColumns`, column set and row count:

- `TypeCorrect`: `Spec => []TypeOK`.
- `ResultSetNeverMisusedHolds`: under `~QueryMayFail`,
  `Spec => []ResultSetNeverMisused`.

`memErr = {}` alone is not inductive: a fetch or a free is safe only if
`hResultSet` is live. The inductive invariant is
`HandleInv == TypeOK /\ memErr = {} /\ (hResultSet = NULL \/ hResultSet \in live)`.
Every block of the constructor either frees the result and sets the member
to NULL, or keeps a live one. The lemma `FreeResultLive` shows that a freed
handle leaves `live`. The lemma `LookupKeepsHandle` shows that the
geometry-type and SRID lookups keep the member NULL-or-live. The assumption
`~QueryMayFail` is needed: the `mysql_query_fails` run shows that a failing
`mysql_query` leaves the freed `hResultSet` in the member.

**PNGCreateCopy.** `PNGCreateCopy_proofs` proves two theorems for every
`XSize`, `YSize`, `BandCounts` and `SrcTypes`:

- `TypeCorrect`: `Spec => []TypeOK`.
- `CopyPreservesSamplesHolds`: under `~RasterIOMayFail` and
  `"UInt16" \notin SrcTypes`, `Spec => []CopyPreservesSamples`.

`TypeOK` is not inductive either. It says nothing of the rows already
written, or of the band count once the checks pass. The strengthening
`TypeInv` adds:

- every row of `file` is a function on the row's bytes;
- `Len(file) = iLine`;
- `result` stays `"none"` until `Finish`;
- `nBands \in 1..4` in the loop.

`CopyInv == TypeInv /\ nBitDepth = 8 /\ \A y < iLine : RowHolds(file[y+1], y)`
says every written row holds, at `x * nBands + b - 1`, the Byte conversion of
sample `<<b, x, y>>`. The lemmas `OffsetInRow` and `OffsetUnique` show the
pixel-interleaved offsets fall inside the row and never collide. `HitSingle`
then shows each byte a band writes has exactly one writer, so
`CopyLineStep` can compute the new row. Both assumptions are needed and
match the `png_copy_8bit` configuration:

- with a failing `RasterIO`, a band's bytes keep the previous line's values
  (TLC shows this when `PNGCopy8.cfg` sets `RasterIOMayFail = TRUE`, but no
  run of the project does);
- with a UInt16 source, `png_copy_16bit` shows the 16-bit samples are not
  what the reader decodes.

**ENVI.** `ENVIDataset_proofs` proves two theorems for every size, band
count, header offset and type set that satisfy the module's ASSUMEs. One of
those ASSUMEs is `AbsentAssumption`: a missing keyword is neither a type
code nor an interleave name.

- `CreateReopensAsCreatedHolds`: `Spec => []CreateReopensAsCreated`. This
  invariant is inductive as it stands. The lemma `OpenTypeInvertsCreateCode`
  shows that `Open`'s data type switch inverts `Create`'s. `OpenCreatedLabel`
  shows that `Open` of the label `Create` writes yields the requested
  dataset.
- `LayoutMatchesInterleaveHolds`: under `NoOverflow`,
  `Spec => []LayoutMatchesInterleave`.

The second theorem needs to know where `ds` came from. The inductive
invariant is
`LabelInv == hdrFile \in Label \cup {NULL} /\ (ds # NULL => \E r \in OpenResults(hdrFile, "img") : r.ds = ds)`.
`LayoutOfLabel` then computes the bsq, bil and bip offsets of an accepted
label.

`NoOverflow` says every product `DataSize[t] * S * L * B` of the instance
stays below the int wrap, and every header offset plus it stays below the
`vsi_l_offset` wrap. It is stated as a hypothesis because the provers
cannot reason about `2^IntBits`. It holds for the `ENVILayout` instance:
this was checked once with TLC, by evaluating `NoOverflow` under that
configuration, and it is not one of the runs. The code does not check for
overflow. With `IntBits = 8`, TLC finds the layout wrong (see the
`envi_layout` bounds above).

**PNG band transfer.** `PNGBandIO_proofs` proves two theorems for every
`Width` and `NBands`, under `BitDepth # 16 \/ NBands = 1`:

- `TypeCorrect`: `Spec => []TypeOK`;
- `ReadReturnsBandSamplesHolds`: `Spec => ReadReturnsBandSamples`, the
  interleave round-trip as an action property.

The hypothesis picks the two branches of the transfers that are right: the
`memcpy` of a single band, and the strided byte loop of one-byte samples.
With 16-bit samples and several bands, the run `png_bandio_16bit` shows the
round-trip fails.

The inductive invariant `BufInv` gives the whole scanline:

- byte `p` belongs to band `ByteBand(p)`;
- it holds libpng's byte if no block was written to that band;
- otherwise it holds the matching byte of the last block written.

`BufInv` is needed because a read of band b is correct only if the writes to
the other bands left b's bytes alone. The arithmetic rests on three lemmas:

- `DivModOf` and `DivModSplit`: quotient and remainder by a positive `n`;
- `StrideHit`: byte `p` is on band b's stride (`p >= b - 1` and
  `(p - (b - 1)) % NBands = 0`, the test of the write loop) exactly when
  `p % NBands = b - 1`.

The model picks a branch with a `CASE` whose first two guards both hold for
one 8-bit band. `GatherSingle` and `ScatterSingle` show that both branches
then give the same block. The 16-bit loops are recursive functions, and
what they compute for every width cannot be proved, so that branch stays
with TLC.

### What stays with TLC

TLAPS cannot prove three kinds of fact here, which stay with TLC:

- liveness and `ENABLED` (no property of the project needs them);
- facts proved by induction over data, such as what the recursive 16-bit
  loops of `PNGBandIO` compute for every width, and arithmetic on
  `2^IntBits` (hence the `NoOverflow` hypothesis);
- anything in a module that reaches a `RECURSIVE` operator.

Only TLC checks the following:

- the cases the theorems' assumptions exclude. Four of them have violation
  runs that show what goes wrong:
  - a failing allocation: `png_oom_serves`;
  - a failing query: `mysql_query_fails`;
  - a 16-bit copy: `png_copy_16bit`;
  - 16-bit samples with several bands in `PNGBandIO`: `png_bandio_16bit`.

Two excluded cases have no run: a failing `RasterIO` in `CreateCopy`, and
an overflowing ENVI layout. Each is shown only by the one-off TLC check
described above: `RasterIOMayFail = TRUE` for the copy, `IntBits = 8` for
the layout.

## Not modelled

- ENVI `ReadHeader`, `SplitList` and `ProcessMapinfo`: line and string
  parsing. The label is abstracted to the keyword values they produce.
- ENVI `FlushCache` and the projection and geotransform accessors: text
  output and field copies.
- `ESRIToUSGSZone`: a table lookup.
- PNG `Open`, `CollectMetadata`, and the colour table and interpretation:
  straight-line libpng calls. The state they set up is the cache's initial
  state.
- Driver registration.
- The int products that size buffers (`VSIMalloc` of the interlaced image,
  `CPLMalloc` in `CreateCopy`). The models keep images small, so these
  products are not represented; the ENVI model shows the same int wrap for
  its strides.
- The strings `ReadResultDefinition` duplicates twice. `OGRMySQLLayer`, which
  decides what the layer later reads from `hResultSet`, is not in the
  repository.
