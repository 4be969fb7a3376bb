--------------------------- MODULE ENVIDataset_proofs ---------------------------
(***************************************************************************)
(* Proofs about ENVIDataset::Create and ENVIDataset::Open, for every set  *)
(* of sizes and codes and every int width.                                *)
(***************************************************************************)
EXTENDS ENVIDataset, TLAPS

(* Open's data type switch undoes Create's: every type Create writes a    *)
(* code for is read back as that type.                                     *)
LEMMA OpenTypeInvertsCreateCode ==
    ASSUME NEW t \in DOMAIN CreateCode
    PROVE  /\ CreateCode[t] \in DOMAIN OpenType
           /\ OpenType[CreateCode[t]] = t
<1>1. t \in {"GDT_Byte", "GDT_Int16", "GDT_Int32", "GDT_Float32",
             "GDT_Float64", "GDT_CFloat32", "GDT_CFloat64", "GDT_UInt16",
             "GDT_UInt32"}
  BY DEF CreateCode
<1> QED
  BY <1>1 DEF CreateCode, OpenType

(* The label Create writes for the given arguments. *)
CreatedLabel(nXSize, nYSize, nBands, eType) ==
    [magic |-> TRUE, samples |-> nXSize, lines |-> nYSize,
     bands |-> nBands, interleave |-> "bsq",
     data_type |-> CreateCode[eType], header_offset |-> 0,
     byte_order |-> IF HostLSB THEN 0 ELSE 1]

(* A dataset Open returns is read off the label: its size and band count *)
(* are the label's, its type is the data type keyword's, and its byte     *)
(* order is native exactly when the byte order keyword says the host's.   *)
LEMMA OpenResultShape ==
    ASSUME NEW h, NEW ext, NEW r \in OpenResults(h, ext), r.ds # NULL
    PROVE  /\ r.ds.xsize = h.samples /\ r.ds.ysize = h.lines
           /\ DOMAIN r.ds.bands = 1 .. h.bands
           /\ r.ds.type = IF h.data_type = Absent THEN "GDT_Byte"
                          ELSE OpenType[h.data_type]
           /\ r.ds.native = IF h.byte_order = Absent THEN TRUE
                            ELSE IF HostLSB THEN h.byte_order = 0
                            ELSE h.byte_order # 0
<1>1. r # [ds |-> NULL, leak |-> FALSE] /\ r # [ds |-> NULL, leak |-> TRUE]
  OBVIOUS
<1> DEFINE Rejects ==
      \/ ext = "hdr"
      \/ Val(h.lines, 0) = 0 \/ Val(h.samples, 0) = 0 \/ Val(h.bands, 0) = 0
      \/ h.interleave = Absent
      \/ h.data_type # Absent /\ h.data_type \notin DOMAIN OpenType
<1>2. CASE h = NULL \/ ~h.magic
  <2>1. OpenResults(h, ext) = {[ds |-> NULL, leak |-> FALSE]}
    BY <1>2 DEF OpenResults
  <2> QED
    BY <1>1, <2>1
<1>3. CASE ~(h = NULL \/ ~h.magic) /\ Rejects
  <2>1. OpenResults(h, ext) = {[ds |-> NULL, leak |-> TRUE]}
    BY <1>3 DEF OpenResults
  <2> QED
    BY <1>1, <2>1
<1>4. CASE ~(h = NULL \/ ~h.magic) /\ ~Rejects
  <2> DEFINE eType == IF h.data_type = Absent THEN "GDT_Byte"
                      ELSE OpenType[h.data_type]
             native == IF h.byte_order = Absent THEN TRUE
                       ELSE IF HostLSB THEN h.byte_order = 0
                       ELSE h.byte_order # 0
             st == Strides(h, DataSize[eType])
             hs == Val(h.header_offset, 0)
             D == [ds |-> [xsize |-> h.samples, ysize |-> h.lines,
                           type |-> eType, native |-> native,
                           bands |-> [i \in 1 .. h.bands |->
                               [offset |-> ToOffset(hs + ToOffset(st.band) * (i - 1)),
                                pixel |-> st.pixel, line |-> st.line]]],
                   leak |-> FALSE]
  <2>1. OpenResults(h, ext)
          = {[ds |-> NULL, leak |-> FALSE]} \cup
            (IF h.interleave = "other" THEN {[ds |-> NULL, leak |-> TRUE]}
             ELSE {D})
    BY <1>4 DEF OpenResults
  <2>2. r = D
    BY <1>1, <2>1
  <2> QED
    BY <2>2
<1> QED
  BY <1>2, <1>3, <1>4

(* Whatever Open returns on a label Create wrote is NULL or the dataset  *)
(* Create was asked for.                                                  *)
LEMMA OpenCreatedLabel ==
    ASSUME NEW x \in Dims, NEW y \in Dims, NEW b \in Dims,
           NEW t \in DOMAIN CreateCode,
           NEW r \in OpenResults(CreatedLabel(x, y, b, t), "img")
    PROVE  r.ds = NULL \/
             /\ r.ds.xsize = x /\ r.ds.ysize = y
             /\ DOMAIN r.ds.bands = 1 .. b
             /\ r.ds.type = t
             /\ r.ds.native
<1> DEFINE h == CreatedLabel(x, y, b, t)
<1>1. h.data_type \in DOMAIN OpenType /\ OpenType[h.data_type] = t
  BY OpenTypeInvertsCreateCode DEF CreatedLabel
<1>2. h.data_type # Absent
  BY <1>1, AbsentAssumption
<1>3. h.byte_order # Absent => (IF HostLSB THEN h.byte_order = 0
                                ELSE h.byte_order # 0)
  BY HostLSBAssumption DEF CreatedLabel
<1>4. h.samples = x /\ h.lines = y /\ h.bands = b
  BY DEF CreatedLabel
<1>5. CASE r.ds # NULL
  BY <1>1, <1>2, <1>3, <1>4, <1>5, OpenResultShape
<1> QED
  BY <1>5

(***************************************************************************)
(* CreateReopensAsCreated is inductive by itself: only Create sets the    *)
(* request, and Open and Close clear it as they replace the dataset.      *)
(***************************************************************************)
LEMMA CreateReopensNext ==
    CreateReopensAsCreated /\ [Next]_vars => CreateReopensAsCreated'
<1> SUFFICES ASSUME CreateReopensAsCreated, [Next]_vars
             PROVE  CreateReopensAsCreated'
  OBVIOUS
<1>1. CASE WriteLabel
  BY <1>1 DEF WriteLabel, CreateReopensAsCreated
<1>2. CASE \E ext \in {"img", "hdr"} : Open(ext)
  BY <1>2 DEF Open, CreateReopensAsCreated
<1>3. CASE Close
  BY <1>3 DEF Close, CreateReopensAsCreated
<1>4. ASSUME NEW x \in Dims, NEW y \in Dims, NEW b \in Dims,
             NEW t \in DataTypes, Create(x, y, b, t)
      PROVE  CreateReopensAsCreated'
  <2>1. t \in DOMAIN CreateCode
    BY <1>4 DEF Create
  <2>2. CASE ds' = NULL
    BY <1>4, <2>2 DEF Create, CreateReopensAsCreated
  <2>3. CASE ds' # NULL
    <3>1. PICK r \in OpenResults(CreatedLabel(x, y, b, t), "img") : ds' = r.ds
      BY <1>4, <2>3 DEF Create, CreatedLabel
    <3>2. request' = [x |-> x, y |-> y, b |-> b, t |-> t]
      BY <1>4, <2>3 DEF Create
    <3> QED
      BY <2>1, <2>3, <3>1, <3>2, OpenCreatedLabel DEF CreateReopensAsCreated
  <2> QED
    BY <2>2, <2>3
<1>5. CASE UNCHANGED vars
  BY <1>5 DEF vars, CreateReopensAsCreated
<1> QED
  BY <1>1, <1>2, <1>3, <1>4, <1>5 DEF Next

(***************************************************************************)
(* A dataset Create returns through GDALOpen has the size, band count and *)
(* data type it was asked for, in the host's byte order, for every size   *)
(* and every type Create accepts.                                         *)
(***************************************************************************)
THEOREM CreateReopensAsCreatedHolds == Spec => []CreateReopensAsCreated
<1>1. Init => CreateReopensAsCreated
  BY DEF Init, CreateReopensAsCreated
<1>2. CreateReopensAsCreated /\ [Next]_vars => CreateReopensAsCreated'
  BY CreateReopensNext
<1> QED
  BY <1>1, <1>2, PTL DEF Spec

-----------------------------------------------------------------------------
(***************************************************************************)
(* The layout.  A dataset is always the one Open builds from the label    *)
(* beside the file: Open reads it, and Create writes it before reopening. *)
(* Label is the type of the labels the two write or find (every keyword a *)
(* number or a name, or Absent).                                          *)
(***************************************************************************)
Label ==
    [magic : BOOLEAN, samples : Opt(Dims), lines : Opt(Dims),
     bands : Opt(Dims), interleave : Opt(Interleaves),
     data_type : Opt(Nat), header_offset : Opt(HeaderOffsets \cup {0}),
     byte_order : Opt({0, 1})]

LabelInv ==
    /\ hdrFile \in Label \cup {NULL}
    /\ ds # NULL => \E r \in OpenResults(hdrFile, "img") : r.ds = ds

(* Open of the .hdr itself, or with no label, returns NULL. *)
LEMMA OpenNullCases ==
    ASSUME NEW h, NEW ext, NEW r \in OpenResults(h, ext),
           ext = "hdr" \/ h = NULL
    PROVE  r.ds = NULL
<1>1. CASE h = NULL \/ ~h.magic
  <2>1. OpenResults(h, ext) = {[ds |-> NULL, leak |-> FALSE]}
    BY <1>1 DEF OpenResults
  <2> QED
    BY <2>1
<1>2. CASE ~(h = NULL \/ ~h.magic)
  <2>1. OpenResults(h, ext) = {[ds |-> NULL, leak |-> TRUE]}
    BY <1>2 DEF OpenResults
  <2> QED
    BY <2>1
<1> QED
  BY <1>1, <1>2

LEMMA CreatedLabelType ==
    ASSUME NEW x \in Dims, NEW y \in Dims, NEW b \in Dims,
           NEW t \in DOMAIN CreateCode
    PROVE  CreatedLabel(x, y, b, t) \in Label
<1>1. CreateCode[t] \in Nat
  BY DEF CreateCode
<1> QED
  BY <1>1, HostLSBAssumption DEF CreatedLabel, Label, Opt, Interleaves

LEMMA LabelInvInit == Init => LabelInv
BY DEF Init, LabelInv

LEMMA LabelInvNext == LabelInv /\ [Next]_vars => LabelInv'
<1> SUFFICES ASSUME LabelInv, [Next]_vars PROVE LabelInv'
  OBVIOUS
<1>1. CASE WriteLabel
  <2>1. ForeignHeader \subseteq Label
    BY DataTypeCodesAssumption DEF ForeignHeader, LabelWith, Label, Opt
  <2>2. ds = NULL
    BY <1>1, OpenNullCases DEF WriteLabel, LabelInv
  <2> QED
    BY <1>1, <2>1, <2>2 DEF WriteLabel, LabelInv
<1>2. ASSUME NEW ext \in {"img", "hdr"}, Open(ext) PROVE LabelInv'
  <2>1. PICK r \in OpenResults(hdrFile, ext) : ds' = r.ds
    BY <1>2 DEF Open
  <2>2. CASE r.ds = NULL
    BY <1>2, <2>1, <2>2 DEF Open, LabelInv
  <2>3. CASE r.ds # NULL
    <3>1. ext = "img"
      BY <2>3, OpenNullCases
    <3> QED
      BY <1>2, <2>1, <3>1 DEF Open, LabelInv
  <2> QED
    BY <2>2, <2>3
<1>3. CASE Close
  BY <1>3 DEF Close, LabelInv
<1>4. ASSUME NEW x \in Dims, NEW y \in Dims, NEW b \in Dims,
             NEW t \in DataTypes, Create(x, y, b, t)
      PROVE  LabelInv'
  <2>1. t \in DOMAIN CreateCode
    BY <1>4 DEF Create
  <2>2. CASE hdrFile' = CreatedLabel(x, y, b, t)
             /\ \E r \in OpenResults(hdrFile', "img") : ds' = r.ds
    <3>1. hdrFile' \in Label
      BY <2>1, <2>2, CreatedLabelType DEF CreatedLabel
    <3> QED
      BY <2>2, <3>1 DEF LabelInv
  <2>3. CASE ds' = NULL /\ UNCHANGED hdrFile
    BY <2>3 DEF LabelInv
  <2> QED
    BY <1>4, <2>2, <2>3 DEF Create, CreatedLabel
<1>5. CASE UNCHANGED vars
  BY <1>5 DEF vars, LabelInv
<1> QED
  BY <1>1, <1>2, <1>3, <1>4, <1>5 DEF Next

(***************************************************************************)
(* C ints are wide enough for the labels: no int product Open forms from  *)
(* the sizes (at most nDataSize * samples * lines * bands) wraps, and no  *)
(* header offset plus such a product wraps as a vsi_l_offset.  The code   *)
(* does not check this; LayoutMatchesInterleave is proved under it.        *)
(***************************************************************************)
NoOverflow ==
    \A t \in DataTypes, S \in Dims, L \in Dims, B \in Dims,
       hs \in HeaderOffsets \cup {0} :
        \A v \in 0 .. DataSize[t] * S * L * B :
            IntWrap(v) = v /\ ToOffset(hs + v) = hs + v

(* The data type and the bands Open builds from an accepted label h. *)
OpenedType(h) ==
    IF h.data_type = Absent THEN "GDT_Byte" ELSE OpenType[h.data_type]
OpenedBands(h) ==
    LET st == Strides(h, DataSize[OpenedType(h)])
        hs == Val(h.header_offset, 0)
    IN  [i \in 1 .. h.bands |->
           [offset |-> ToOffset(hs + ToOffset(st.band) * (i - 1)),
            pixel |-> st.pixel, line |-> st.line]]

(* A label Open accepts has every size, a known interleave and a known    *)
(* data type, and the dataset is built from them.                         *)
LEMMA OpenAccepted ==
    ASSUME NEW h \in Label \cup {NULL}, NEW ext, NEW r \in OpenResults(h, ext),
           r.ds # NULL
    PROVE  /\ h \in Label
           /\ h.samples \in Dims \ {0} /\ h.lines \in Dims \ {0}
           /\ h.bands \in Dims \ {0}
           /\ h.interleave \in {"bsq", "bil", "bip"}
           /\ Val(h.samples, 0) = h.samples /\ Val(h.lines, 0) = h.lines
           /\ Val(h.bands, 0) = h.bands
           /\ OpenedType(h) \in DataTypes
           /\ r.ds.xsize = h.samples /\ r.ds.ysize = h.lines
           /\ r.ds.type = OpenedType(h)
           /\ r.ds.bands = OpenedBands(h)
<1>1. h # NULL /\ h.magic
  BY OpenNullCases DEF OpenResults
<1>2. h \in Label
  BY <1>1
<1> DEFINE Rejects ==
      \/ ext = "hdr"
      \/ Val(h.lines, 0) = 0 \/ Val(h.samples, 0) = 0 \/ Val(h.bands, 0) = 0
      \/ h.interleave = Absent
      \/ h.data_type # Absent /\ h.data_type \notin DOMAIN OpenType
<1>3. ~Rejects
  <2>1. SUFFICES ASSUME Rejects PROVE FALSE
    OBVIOUS
  <2>2. OpenResults(h, ext) = {[ds |-> NULL, leak |-> TRUE]}
    BY <1>1, <2>1 DEF OpenResults
  <2> QED
    BY <2>2
<1> DEFINE D == [ds |-> [xsize |-> h.samples, ysize |-> h.lines,
                         type |-> OpenedType(h),
                         native |-> IF h.byte_order = Absent THEN TRUE
                                   ELSE IF HostLSB THEN h.byte_order = 0
                                   ELSE h.byte_order # 0,
                         bands |-> OpenedBands(h)],
                 leak |-> FALSE]
<1>4. OpenResults(h, ext)
        = {[ds |-> NULL, leak |-> FALSE]} \cup
          (IF h.interleave = "other" THEN {[ds |-> NULL, leak |-> TRUE]}
           ELSE {D})
  BY <1>1, <1>3 DEF OpenResults, OpenedType, OpenedBands
<1>5. r = D /\ h.interleave # "other"
  <2>1. r \in {[ds |-> NULL, leak |-> FALSE], [ds |-> NULL, leak |-> TRUE], D}
    BY <1>4
  <2>2. r # [ds |-> NULL, leak |-> FALSE] /\ r # [ds |-> NULL, leak |-> TRUE]
    OBVIOUS
  <2>3. r = D
    BY <2>1, <2>2
  <2>4. h.interleave # "other"
    <3>1. SUFFICES ASSUME h.interleave = "other" PROVE FALSE
      OBVIOUS
    <3>2. r \in {[ds |-> NULL, leak |-> FALSE], [ds |-> NULL, leak |-> TRUE]}
      BY <1>4, <3>1
    <3> QED
      BY <2>2, <3>2
  <2> QED
    BY <2>3, <2>4
<1>6. /\ h.samples \in Dims \ {0} /\ h.lines \in Dims \ {0}
      /\ h.bands \in Dims \ {0}
      /\ h.interleave \in {"bsq", "bil", "bip"}
      /\ Val(h.samples, 0) = h.samples /\ Val(h.lines, 0) = h.lines
      /\ Val(h.bands, 0) = h.bands
  BY <1>2, <1>3, <1>5 DEF Label, Opt, Val, Interleaves
<1>7. OpenedType(h) \in DataTypes
  <2>1. \A c \in DOMAIN OpenType : OpenType[c] \in DataTypes
    BY DEF OpenType, DataTypes, DataSize
  <2> QED
    BY <1>3, <2>1 DEF OpenedType, DataTypes, DataSize
<1> QED
  BY <1>2, <1>5, <1>6, <1>7

(* Every element size is a positive number of bytes. *)
LEMMA DataSizePositive ==
    ASSUME NEW t \in DataTypes PROVE DataSize[t] \in Nat \ {0}
BY DEF DataTypes, DataSize

(* A product of positive factors bounds each partial product. *)
LEMMA ProductBounds ==
    ASSUME NEW D \in Nat \ {0}, NEW S \in Nat \ {0}, NEW L \in Nat \ {0},
           NEW B \in Nat \ {0}, NEW k \in 0 .. B - 1
    PROVE  /\ D * S * L * k \in 0 .. D * S * L * B
           /\ D * S * k \in 0 .. D * S * L * B
           /\ D * k \in 0 .. D * S * L * B
           /\ D * S \in 0 .. D * S * L * B
           /\ D * S * L \in 0 .. D * S * L * B
           /\ D * S * B \in 0 .. D * S * L * B
           /\ D * B \in 0 .. D * S * L * B
<1>1. D * S * L \in Nat /\ D * S \in Nat /\ D * S * B \in Nat
  OBVIOUS
<1>2. D * S * L * k <= D * S * L * B
  BY <1>1
<1>3. D * S * k <= D * S * B /\ D * S * B <= D * S * B * L
  BY <1>1
<1>4. D * k <= D * B /\ D * B <= D * B * S * L
  OBVIOUS
<1>5. D * S <= D * S * L /\ D * S * L <= D * S * L * B
  BY <1>1
<1>6. D * S * B * L = D * S * L * B /\ D * B * S * L = D * S * L * B
  OBVIOUS
<1>7. /\ D * S * L * k \in Nat /\ D * S * k \in Nat /\ D * k \in Nat
      /\ D * B \in Nat /\ D * S * L * B \in Nat
  BY <1>1
<1> QED
  BY <1>2, <1>3, <1>4, <1>5, <1>6, <1>7

(***************************************************************************)
(* When no product wraps, band i of an accepted label, read with the      *)
(* strides Open computes, finds sample (y, x) at the header offset plus   *)
(* the ENVI format's offset of (band i - 1, line y, pixel x).              *)
(***************************************************************************)
LEMMA LayoutOfLabel ==
    ASSUME NoOverflow, NEW h \in Label,
           h.samples \in Dims \ {0}, h.lines \in Dims \ {0},
           h.bands \in Dims \ {0}, h.interleave \in {"bsq", "bil", "bip"},
           Val(h.samples, 0) = h.samples, Val(h.lines, 0) = h.lines,
           Val(h.bands, 0) = h.bands,
           NEW t \in DataTypes, NEW i \in 1 .. h.bands,
           NEW y \in Int, NEW x \in Int
    PROVE  LET st == Strides(h, DataSize[t])
               hs == Val(h.header_offset, 0)
           IN  ToOffset(hs + ToOffset(st.band) * (i - 1))
                 + y * st.line + x * st.pixel
               = hs + RefOffset(h.interleave, DataSize[t], h.samples,
                                h.lines, h.bands, i - 1, y, x)
<1> DEFINE D == DataSize[t]
           S == h.samples
           L == h.lines
           B == h.bands
           H0 == Val(h.header_offset, 0)
           St == Strides(h, D)
<1> USE DEF D, S, L, B, H0
<1>1. D \in Nat \ {0} /\ S \in Nat \ {0} /\ L \in Nat \ {0} /\ B \in Nat \ {0}
  BY DataSizePositive, DimsAssumption
<1>2. H0 \in HeaderOffsets \cup {0} /\ H0 \in Nat
  <2>1. \/ h.header_offset \in HeaderOffsets
        \/ h.header_offset = 0 \/ h.header_offset = Absent
    BY DEF Label, Opt
  <2>2. h.header_offset \in HeaderOffsets => h.header_offset \in Nat
    BY HeaderOffsetsAssumption
  <2> QED
    BY <2>1, <2>2 DEF Val
<1>3. \A v \in 0 .. D * S * L * B :
          IntWrap(v) = v /\ ToOffset(H0 + v) = H0 + v /\ ToOffset(0 + v) = 0 + v
  <2>1. S \in Dims /\ L \in Dims /\ B \in Dims /\ 0 \in HeaderOffsets \cup {0}
    OBVIOUS
  <2>2. ASSUME NEW v \in 0 .. D * S * L * B
        PROVE  IntWrap(v) = v /\ ToOffset(H0 + v) = H0 + v /\ ToOffset(0 + v) = 0 + v
    <3>1. \A hs \in HeaderOffsets \cup {0} :
             \A w \in 0 .. DataSize[t] * S * L * B :
                 IntWrap(w) = w /\ ToOffset(hs + w) = hs + w
      BY <2>1 DEF NoOverflow
    <3> QED
      BY <1>2, <3>1
  <2>3. \A v \in 0 .. D * S * L * B : ToOffset(0 + v) = 0 + v
    BY <2>2
  <2> QED
    BY <2>2, <2>3
<1>4. i - 1 \in 0 .. B - 1
  BY <1>1
<1>5. /\ D * S * L * (i - 1) \in 0 .. D * S * L * B
      /\ D * S * (i - 1) \in 0 .. D * S * L * B
      /\ D * (i - 1) \in 0 .. D * S * L * B
      /\ D * S \in 0 .. D * S * L * B
      /\ D * S * L \in 0 .. D * S * L * B
      /\ D * S * B \in 0 .. D * S * L * B
      /\ D * B \in 0 .. D * S * L * B
  BY <1>1, <1>4, ProductBounds
<1>6. CASE h.interleave = "bsq"
  <2>1. St = [pixel |-> D, line |-> IntWrap(D * S),
              band |-> IntWrap(IntWrap(D * S) * L)]
    BY <1>6 DEF Strides
  <2>2. St.pixel = D /\ St.line = D * S /\ St.band = D * S * L
    BY <2>1, <1>3, <1>5
  <2>3. ToOffset(H0 + ToOffset(St.band) * (i - 1)) = H0 + D * S * L * (i - 1)
    <3>1. ToOffset(St.band) = D * S * L
      BY <2>2, <1>3, <1>5
    <3> QED
      BY <3>1, <1>3, <1>5
  <2> QED
    BY <1>1, <1>2, <1>6, <2>2, <2>3 DEF RefOffset
<1>7. CASE h.interleave = "bil"
  <2>1. St = [pixel |-> D, line |-> IntWrap(D * S * B),
              band |-> IntWrap(D * S)]
    BY <1>7 DEF Strides
  <2>2. St.pixel = D /\ St.line = D * S * B /\ St.band = D * S
    BY <2>1, <1>3, <1>5
  <2>3. ToOffset(H0 + ToOffset(St.band) * (i - 1)) = H0 + D * S * (i - 1)
    <3>1. ToOffset(St.band) = D * S
      BY <2>2, <1>3, <1>5
    <3> QED
      BY <3>1, <1>3, <1>5
  <2> QED
    BY <1>1, <1>2, <1>7, <2>2, <2>3 DEF RefOffset
<1>8. CASE h.interleave = "bip"
  <2>1. St = [pixel |-> IntWrap(D * B), line |-> IntWrap(D * S * B),
              band |-> D]
    BY <1>8 DEF Strides
  <2>2. St.pixel = D * B /\ St.line = D * S * B /\ St.band = D
    BY <2>1, <1>3, <1>5
  <2>3. ToOffset(H0 + ToOffset(St.band) * (i - 1)) = H0 + D * (i - 1)
    <3>1. ToOffset(St.band) = D
      <4>1. D \in 0 .. D * S * L * B
        BY <1>1, <1>5
      <4> QED
        BY <2>2, <1>3, <4>1
    <3> QED
      BY <3>1, <1>3, <1>5
  <2> QED
    BY <1>1, <1>2, <1>8, <2>2, <2>3 DEF RefOffset
<1> QED
  BY <1>6, <1>7, <1>8

(* The dataset, being Open's reading of the label beside it, lays its    *)
(* samples out as the label says.                                          *)
LEMMA LabelInvLayout ==
    ASSUME NoOverflow PROVE LabelInv => LayoutMatchesInterleave
<1> SUFFICES ASSUME LabelInv, ds # NULL, hdrFile # NULL,
                    NEW i \in DOMAIN ds.bands, NEW y \in 0 .. ds.ysize - 1,
                    NEW x \in 0 .. ds.xsize - 1
             PROVE  ds.bands[i].offset + y * ds.bands[i].line
                      + x * ds.bands[i].pixel
                    = Val(hdrFile.header_offset, 0)
                      + RefOffset(hdrFile.interleave, DataSize[ds.type],
                                  ds.xsize, ds.ysize, hdrFile.bands, i - 1, y, x)
  BY DEF LayoutMatchesInterleave
<1>1. PICK r \in OpenResults(hdrFile, "img") : r.ds = ds
  BY DEF LabelInv
<1>2. /\ hdrFile \in Label
      /\ hdrFile.samples \in Dims \ {0} /\ hdrFile.lines \in Dims \ {0}
      /\ hdrFile.bands \in Dims \ {0}
      /\ hdrFile.interleave \in {"bsq", "bil", "bip"}
      /\ Val(hdrFile.samples, 0) = hdrFile.samples
      /\ Val(hdrFile.lines, 0) = hdrFile.lines
      /\ Val(hdrFile.bands, 0) = hdrFile.bands
      /\ OpenedType(hdrFile) \in DataTypes
      /\ ds.xsize = hdrFile.samples /\ ds.ysize = hdrFile.lines
      /\ ds.type = OpenedType(hdrFile)
      /\ ds.bands = OpenedBands(hdrFile)
  BY <1>1, OpenAccepted DEF LabelInv
<1> DEFINE St == Strides(hdrFile, DataSize[OpenedType(hdrFile)])
           H0 == Val(hdrFile.header_offset, 0)
<1>3. i \in 1 .. hdrFile.bands
  BY <1>2 DEF OpenedBands
<1>4. ds.bands[i] = [offset |-> ToOffset(H0 + ToOffset(St.band) * (i - 1)),
                     pixel |-> St.pixel, line |-> St.line]
  BY <1>2, <1>3 DEF OpenedBands
<1>5. y \in Int /\ x \in Int
  BY <1>2, DimsAssumption
<1>6. ToOffset(H0 + ToOffset(St.band) * (i - 1)) + y * St.line + x * St.pixel
        = H0 + RefOffset(hdrFile.interleave, DataSize[OpenedType(hdrFile)],
                         hdrFile.samples, hdrFile.lines, hdrFile.bands,
                         i - 1, y, x)
  BY <1>2, <1>3, <1>5, LayoutOfLabel
<1> QED
  BY <1>2, <1>4, <1>6

(***************************************************************************)
(* For every label another program wrote and every label Create wrote,    *)
(* each band ENVIDataset::Open builds finds each of its samples where the *)
(* label's interleave puts it (bsq, bil or bip), whenever C ints are wide *)
(* enough for the label's sizes.  NoOverflow is needed: when a product    *)
(* wraps, the strides point elsewhere, and the code does not check it.    *)
(***************************************************************************)
THEOREM LayoutMatchesInterleaveHolds ==
    ASSUME NoOverflow PROVE Spec => []LayoutMatchesInterleave
<1>1. Init => LabelInv
  BY LabelInvInit
<1>2. LabelInv /\ [Next]_vars => LabelInv'
  BY LabelInvNext
<1>3. LabelInv => LayoutMatchesInterleave
  BY LabelInvLayout
<1> QED
  BY <1>1, <1>2, <1>3, PTL DEF Spec

=============================================================================
