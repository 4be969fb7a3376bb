------------------------------ MODULE ENVIDataset ------------------------------
(***************************************************************************)
(* ENVIDataset::Create and ENVIDataset::Open                               *)
(* (src/frmts/raw/envidataset.cpp): Create writes a .hdr label and reopens *)
(* the file through GDALOpen; Open reads the label's keywords and turns    *)
(* them into one RawRasterBand per band, each described by the byte       *)
(* offset of its first sample and its pixel and line strides.             *)
(*                                                                         *)
(* The label is a record of the keywords Open reads, each a parsed value  *)
(* (what atoi gives) or Absent.  C int arithmetic is IntBits wide and      *)
(* wraps; vsi_l_offset is an unsigned integer twice as wide.               *)
(***************************************************************************)
EXTENDS Integers

CONSTANTS
    Dims,           \* values of the samples, lines and bands keywords
    HeaderOffsets,  \* values of the header offset keyword
    DataTypeCodes,  \* values of the data type keyword
    IntBits,        \* width of a C int
    HostLSB,        \* whether CPL_LSB is defined
    Absent,         \* a keyword missing from the label
    NULL

ASSUME DimsAssumption == Dims \subseteq Nat
ASSUME HeaderOffsetsAssumption == HeaderOffsets \subseteq Nat
ASSUME DataTypeCodesAssumption == DataTypeCodes \subseteq Nat
ASSUME IntBitsAssumption == IntBits \in Nat \ {0}
ASSUME HostLSBAssumption == HostLSB \in BOOLEAN

(* Two's complement wrap of a C int, and the conversion of an int to the  *)
(* unsigned vsi_l_offset.                                                  *)
IntWrap(v) ==
    LET m == 2^IntBits
        r == v % m
    IN  IF r >= 2^(IntBits - 1) THEN r - m ELSE r
ToOffset(v) == v % 2^(2 * IntBits)

(* GDALGetDataTypeSize(eType) / 8 *)
DataSize == [GDT_Byte |-> 1, GDT_Int16 |-> 2, GDT_UInt16 |-> 2,
             GDT_Int32 |-> 4, GDT_UInt32 |-> 4, GDT_Float32 |-> 4,
             GDT_Float64 |-> 8, GDT_CFloat32 |-> 8, GDT_CFloat64 |-> 16,
             GDT_CInt16 |-> 4, GDT_CInt32 |-> 8]
DataTypes == DOMAIN DataSize

(* Mutation: data type 12 read back as GDT_UInt32 (the cases swapped). *)
OpenTypeUnsignedSwapped == [c \in {1, 2, 3, 4, 5, 6, 9, 12, 13} |->
               CASE c = 1 -> "GDT_Byte"    [] c = 2 -> "GDT_Int16"
                 [] c = 3 -> "GDT_Int32"   [] c = 4 -> "GDT_Float32"
                 [] c = 5 -> "GDT_Float64" [] c = 6 -> "GDT_CFloat32"
                 [] c = 9 -> "GDT_CFloat64" [] c = 12 -> "GDT_UInt32"
                 [] c = 13 -> "GDT_UInt16"]

(* Open's switch on the data type keyword; other codes are rejected. *)
OpenType == [c \in {1, 2, 3, 4, 5, 6, 9, 12, 13} |->
               CASE c = 1 -> "GDT_Byte"    [] c = 2 -> "GDT_Int16"
                 [] c = 3 -> "GDT_Int32"   [] c = 4 -> "GDT_Float32"
                 [] c = 5 -> "GDT_Float64" [] c = 6 -> "GDT_CFloat32"
                 [] c = 9 -> "GDT_CFloat64" [] c = 12 -> "GDT_UInt16"
                 [] c = 13 -> "GDT_UInt32"]

(* Create's switch on eType; other types are rejected. *)
CreateCode == [GDT_Byte |-> 1, GDT_Int16 |-> 2, GDT_Int32 |-> 3,
               GDT_Float32 |-> 4, GDT_Float64 |-> 5, GDT_CFloat32 |-> 6,
               GDT_CFloat64 |-> 9, GDT_UInt16 |-> 12, GDT_UInt32 |-> 13]

Interleaves == {"bsq", "bil", "bip", "other"}

(* A missing keyword is neither a data type code Open knows nor an        *)
(* interleave name.                                                        *)
ASSUME AbsentAssumption ==
    Absent \notin DOMAIN OpenType /\ Absent \notin Interleaves

Opt(S) == S \cup {Absent}

(* A label as Open's CSLFetchNameValue calls see it.  magic: the file     *)
(* starts with "ENVI".  Codes: those of labels other programs write, and   *)
(* those Create writes.                                                    *)
LabelWith(codes) ==
    [magic : BOOLEAN, samples : Opt(Dims), lines : Opt(Dims),
     bands : Opt(Dims), interleave : Opt(Interleaves),
     data_type : Opt(codes), header_offset : Opt(HeaderOffsets),
     byte_order : Opt({0, 1})]
ForeignHeader == LabelWith(DataTypeCodes)
Header == LabelWith(DataTypeCodes \cup {CreateCode[t] : t \in DOMAIN CreateCode})

VARIABLES
    hdrFile,    \* the .hdr label beside the data file, or NULL
    ds,         \* the dataset the last Open or Create returned, or NULL
    request,    \* history: the arguments of the Create that returned ds,
                \* or NULL when ds came from Open
    leaked      \* history: the last Open returned NULL without deleting
                \* the ENVIDataset it had constructed

vars == <<hdrFile, ds, request, leaked>>

Band == [offset : 0 .. 2^(2 * IntBits) - 1, pixel : Int, line : Int]
IsDataset(d) ==
    /\ DOMAIN d = {"xsize", "ysize", "type", "native", "bands"}
    /\ d.xsize \in Nat /\ d.ysize \in Nat
    /\ d.type \in DataTypes /\ d.native \in BOOLEAN
    /\ \E n \in Dims : DOMAIN d.bands = 1 .. n
    /\ \A i \in DOMAIN d.bands : d.bands[i] \in Band

TypeOK ==
    /\ hdrFile \in Header \cup {NULL}
    /\ ds = NULL \/ IsDataset(ds)
    /\ request \in [x : Dims, y : Dims, b : Dims, t : DataTypes] \cup {NULL}
    /\ leaked \in BOOLEAN

Init ==
    /\ hdrFile = NULL
    /\ ds = NULL
    /\ request = NULL
    /\ leaked = FALSE

-----------------------------------------------------------------------------
(* atoi(CSLFetchNameValue(...)) with the default Open uses when absent. *)
Val(v, default) == IF v = Absent THEN default ELSE v

(* Mutation: the bil band stride is taken to be the line stride. *)
StridesBilSwapped(h, nDataSize) ==
    LET S == Val(h.samples, 0)
        L == Val(h.lines, 0)
        B == Val(h.bands, 0)
    IN  CASE h.interleave = "bsq" ->
               LET lo == IntWrap(nDataSize * S)
               IN  [pixel |-> nDataSize, line |-> lo, band |-> IntWrap(lo * L)]
          [] h.interleave = "bil" ->
               [pixel |-> nDataSize, line |-> IntWrap(nDataSize * S * B),
                band |-> IntWrap(nDataSize * S * B)]
          [] h.interleave = "bip" ->
               [pixel |-> IntWrap(nDataSize * B),
                line |-> IntWrap(nDataSize * S * B), band |-> nDataSize]

(***************************************************************************)
(* "Compute the line offset": nPixelOffset, nLineOffset and nBandOffset    *)
(* for each interleave, in int arithmetic (nBandOffset is then held in a   *)
(* vsi_l_offset, but the bsq product nLineOffset * nLines is an int one).  *)
(***************************************************************************)
Strides(h, nDataSize) ==
    LET S == Val(h.samples, 0)
        L == Val(h.lines, 0)
        B == Val(h.bands, 0)
    IN  CASE h.interleave = "bsq" ->
               LET lo == IntWrap(nDataSize * S)
               IN  [pixel |-> nDataSize, line |-> lo, band |-> IntWrap(lo * L)]
          [] h.interleave = "bil" ->
               [pixel |-> nDataSize, line |-> IntWrap(nDataSize * S * B),
                band |-> IntWrap(nDataSize * S)]
          [] h.interleave = "bip" ->
               [pixel |-> IntWrap(nDataSize * B),
                line |-> IntWrap(nDataSize * S * B), band |-> nDataSize]

(***************************************************************************)
(* ENVIDataset::Open on the label h of a data file whose extension is ext: *)
(* no label returns before the ENVIDataset is constructed; ReadHeader's   *)
(* "ENVI" check deletes it; the refusal of the .hdr itself, the required  *)
(* keywords, the data type switch and the interleave test return without  *)
(* deleting it.  Then the byte order translation, the reopen of the data  *)
(* file (which may fail, deleting it), the strides, and the bands with    *)
(* first-sample offset nHeaderSize + nBandOffset * i.  The set of         *)
(* outcomes: the dataset returned, and whether a constructed one leaked.  *)
(***************************************************************************)
OpenResults(h, ext) ==
    LET fail(leak) == [ds |-> NULL, leak |-> leak]
    IN
    IF h = NULL \/ ~h.magic THEN {fail(FALSE)}
    ELSE IF \/ ext = "hdr"
            \/ Val(h.lines, 0) = 0 \/ Val(h.samples, 0) = 0 \/ Val(h.bands, 0) = 0
            \/ h.interleave = Absent
            \/ h.data_type # Absent /\ h.data_type \notin DOMAIN OpenType
    THEN {fail(TRUE)}
    ELSE
      LET eType == IF h.data_type = Absent THEN "GDT_Byte"
                   ELSE OpenType[h.data_type]
          native == IF h.byte_order = Absent THEN TRUE
                    ELSE IF HostLSB THEN h.byte_order = 0 ELSE h.byte_order # 0
          st == Strides(h, DataSize[eType])
          hs == Val(h.header_offset, 0)
      IN  {fail(FALSE)} \cup
          (IF h.interleave = "other" THEN {fail(TRUE)}
           ELSE {[ds |-> [xsize |-> h.samples, ysize |-> h.lines, type |-> eType,
                          native |-> native,
                          bands |-> [i \in 1 .. h.bands |->
                               [offset |-> ToOffset(hs + ToOffset(st.band) * (i - 1)),
                                pixel |-> st.pixel, line |-> st.line]]],
                  leak |-> FALSE]})

(* The data file comes with a label another program wrote. *)
WriteLabel ==
    /\ hdrFile = NULL
    /\ \E h \in ForeignHeader : hdrFile' = h
    /\ UNCHANGED <<ds, request, leaked>>

(* The dataset is closed: ~ENVIDataset's FlushCache appends a "band names" *)
(* keyword, which none of the keywords modelled here depends on.           *)
Close ==
    /\ ds # NULL
    /\ ds' = NULL
    /\ request' = NULL
    /\ UNCHANGED <<hdrFile, leaked>>

(* GDALOpen of the data file, or by mistake of its .hdr. *)
Open(ext) ==
    /\ ds = NULL
    /\ \E r \in OpenResults(hdrFile, ext) : ds' = r.ds /\ leaked' = r.leak
    /\ request' = NULL
    /\ UNCHANGED hdrFile

(***************************************************************************)
(* ENVIDataset::Create: reject a type with no ENVI code, create the data  *)
(* file (which may fail), write the label (samples, lines, bands, header  *)
(* offset 0, data type, bsq, the host's byte order), and return           *)
(* GDALOpen(pszFilename, GA_Update).                                       *)
(***************************************************************************)
Create(nXSize, nYSize, nBands, eType) ==
    /\ ds = NULL
    /\ eType \in DOMAIN CreateCode
    /\ \/ /\ hdrFile' = [magic |-> TRUE, samples |-> nXSize, lines |-> nYSize,
                         bands |-> nBands, interleave |-> "bsq",
                         data_type |-> CreateCode[eType], header_offset |-> 0,
                         byte_order |-> IF HostLSB THEN 0 ELSE 1]
          /\ \E r \in OpenResults(hdrFile', "img") : ds' = r.ds /\ leaked' = r.leak
       \/ /\ ds' = NULL
          /\ leaked' = FALSE
          /\ UNCHANGED hdrFile
    /\ request' = IF ds' = NULL THEN NULL
                  ELSE [x |-> nXSize, y |-> nYSize, b |-> nBands, t |-> eType]

Next ==
    \/ WriteLabel
    \/ \E ext \in {"img", "hdr"} : Open(ext)
    \/ Close
    \/ \E x, y, b \in Dims, t \in DataTypes : Create(x, y, b, t)

Spec == Init /\ [][Next]_vars

-----------------------------------------------------------------------------
(* The ENVI format's own definition of where sample (band b, line y,       *)
(* pixel x) of a D-byte type lies, for each interleave, from 0.            *)
RefOffset(il, D, S, L, B, b, y, x) ==
    CASE il = "bsq" -> ((b * L + y) * S + x) * D
      [] il = "bil" -> ((y * B + b) * S + x) * D
      [] il = "bip" -> ((y * S + x) * B + b) * D

(***************************************************************************)
(* Every band Open builds finds each of its samples where the label's     *)
(* interleave puts it: header offset plus the format's offset, for every  *)
(* band, line and pixel of the image.                                      *)
(***************************************************************************)
LayoutMatchesInterleave ==
    ds # NULL /\ hdrFile # NULL =>
      \A i \in DOMAIN ds.bands, y \in 0 .. ds.ysize - 1, x \in 0 .. ds.xsize - 1 :
         ds.bands[i].offset + y * ds.bands[i].line + x * ds.bands[i].pixel
           = Val(hdrFile.header_offset, 0)
             + RefOffset(hdrFile.interleave, DataSize[ds.type], ds.xsize,
                         ds.ysize, hdrFile.bands, i - 1, y, x)


(***************************************************************************)
(* A dataset Create returns is the one asked for: Create's label, read    *)
(* back by Open through GDALOpen, gives the requested size, band count    *)
(* and data type (Create's and Open's data type switches are inverse),    *)
(* in the host's byte order.                                               *)
(***************************************************************************)
CreateReopensAsCreated ==
    ds # NULL /\ request # NULL =>
       /\ ds.xsize = request.x /\ ds.ysize = request.y
       /\ DOMAIN ds.bands = 1 .. request.b
       /\ ds.type = request.t
       /\ ds.native


(***************************************************************************)
(* Open releases what it constructs: every return of ENVIDataset::Open    *)
(* after `new ENVIDataset` either hands the dataset to the caller or      *)
(* deletes it, as the ReadHeader and reopen failures do.                  *)
(***************************************************************************)
OpenReleasesOnError == ~leaked

=============================================================================
