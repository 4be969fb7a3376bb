--------------------------- MODULE MySQLResultLayer ---------------------------
(***************************************************************************)
(* The construction of an OGRMySQLResultLayer                             *)
(* (src/ogr/ogrsf_frmts/mysql/ogrmysqlresultlayer.cpp): the layer adopts   *)
(* the MYSQL_RES of the caller's query, then ReadResultDefinition walks    *)
(* its columns to build the feature definition and, when one column is a   *)
(* geometry, runs three more queries on geometry_columns and              *)
(* spatial_ref_sys through the same hResultSet member.                     *)
(*                                                                         *)
(* The server is the environment: each mysql_query may fail, each          *)
(* mysql_store_result may return NULL, each result may have no row.  A     *)
(* MYSQL_RES is named by the query that produced it; live is the set of    *)
(* results not yet passed to mysql_free_result.  Column names, widths,     *)
(* precisions and SQL text are left out: no property tells them apart.     *)
(***************************************************************************)
EXTENDS Integers, Sequences

CONSTANTS
    NColumns,       \* mysql_num_fields of the caller's result
    FieldTypes,     \* psMSField->type, one representative per switch arm
    TypeNames,      \* values the type column of geometry_columns may hold
    SRIDs,          \* values the srid column may hold
    QueryMayFail,   \* whether mysql_query may return non-zero
    NULL

ASSUME NColumnsAssumption == NColumns \in Nat
ASSUME FieldTypesAssumption ==
    FieldTypes \subseteq {"LONG", "DECIMAL", "DOUBLE", "STRING", "BLOB",
                          "GEOMETRY", "ENUM"}
ASSUME QueryMayFailAssumption == QueryMayFail \in BOOLEAN

(* The results hResultSet can point to, named by their query. *)
Results == {"caller", "type", "srid", "srtext"}

(* What mysql_fetch_field returns for one column. *)
Column == [type : FieldTypes, name : {"ogc_fid", "other"}, pkNotNull : BOOLEAN]

(* The OGR field type of each switch arm that calls AddFieldDefn. *)
OFTOf == [LONG |-> "OFTInteger", DECIMAL |-> "OFTReal", DOUBLE |-> "OFTReal",
          STRING |-> "OFTString", BLOB |-> "OFTString"]

(* The if/else chain on pszType: only standard OGC names are recognised. *)
OGCTypes == {"POINT", "LINESTRING", "POLYGON", "MULTIPOINT",
             "MULTILINESTRING", "MULTIPOLYGON", "GEOMETRYCOLLECTION"}
WkbOf(pszType) == IF pszType \in OGCTypes THEN pszType ELSE "wkbUnknown"

VARIABLES
    columns,        \* the caller's result set's columns
    pc,             \* which block of the constructor runs next
    iRawField,      \* loop index of the column walk, from 1
    hResultSet,     \* the MYSQL_RES pointer member
    live,           \* results allocated and not yet freed
    memErr,         \* fetches and frees applied to a freed result
    fields,         \* poDefn's attribute fields: <<column, OGR type>>
    geomType,       \* poDefn's geometry type
    pszFIDColumn,   \* the column chosen as FID, 0 for NULL
    pszGeomColumn,  \* the geometry column, 0 for NULL
    nSRSId,
    poSRS           \* NULL or the spatial reference read back

vars == <<columns, pc, iRawField, hResultSet, live, memErr, fields, geomType,
          pszFIDColumn, pszGeomColumn, nSRSId, poSRS>>

TypeOK ==
    /\ columns \in [1 .. NColumns -> Column]
    /\ pc \in {"construct", "fields", "type", "srid", "srtext", "done"}
    /\ iRawField \in 1 .. NColumns + 1
    /\ hResultSet \in Results \cup {NULL}
    /\ live \subseteq Results
    /\ memErr \subseteq {"fetch_freed", "free_freed"}
    /\ fields \in Seq((1 .. NColumns) \X {"OFTInteger", "OFTReal", "OFTString"})
    /\ geomType \in {"wkbNone", "wkbUnknown"} \cup OGCTypes
    /\ pszFIDColumn \in 0 .. NColumns
    /\ pszGeomColumn \in 0 .. NColumns
    /\ nSRSId \in {-2} \cup SRIDs
    /\ poSRS \in {NULL, "srs"}

(***************************************************************************)
(* The caller hands over a live result with any columns; the members of   *)
(* the OGRMySQLLayer base start NULL, and nSRSId at -2 ("haven't yet even *)
(* looked for it").                                                        *)
(***************************************************************************)
Init ==
    /\ columns \in [1 .. NColumns -> Column]
    /\ pc = "construct"
    /\ iRawField = 1
    /\ hResultSet = "caller"
    /\ live = {"caller"}
    /\ memErr = {}
    /\ fields = << >>
    /\ geomType = "wkbNone"
    /\ pszFIDColumn = 0
    /\ pszGeomColumn = 0
    /\ nSRSId = -2
    /\ poSRS = NULL

-----------------------------------------------------------------------------
(* The constructor up to the column walk: hResultSet = hResultSetIn,       *)
(* BuildFullQueryStatement, and ReadResultDefinition's new OGRFeatureDefn  *)
(* and mysql_field_seek(hResultSet, 0).                                    *)
Construct ==
    /\ pc = "construct"
    /\ pc' = "fields"
    /\ UNCHANGED <<columns, iRawField, hResultSet, live, memErr, fields,
                   geomType, pszFIDColumn, pszGeomColumn, nSRSId, poSRS>>

(* Mutation: the loop runs while iRawField <= mysql_num_fields; the extra *)
(* mysql_fetch_field returns NULL and nothing is recorded from it.        *)
ReadFieldPastEnd ==
    /\ pc = "fields"
    /\ iRawField <= NColumns + 1
    /\ iRawField' = iRawField + 1
    /\ UNCHANGED <<columns, pc, hResultSet, live, memErr, fields, geomType,
                   pszFIDColumn, pszGeomColumn, nSRSId, poSRS>>

(***************************************************************************)
(* One iteration of the column walk: the switch on psMSField->type adds an *)
(* attribute field or records the geometry column, then an "ogc_fid"      *)
(* column, or else a NOT NULL primary key, becomes the FID column.         *)
(***************************************************************************)
ReadField ==
    /\ pc = "fields"
    /\ iRawField <= NColumns
    /\ LET f == columns[iRawField] IN
         /\ fields' = IF f.type \in DOMAIN OFTOf
                      THEN Append(fields, <<iRawField, OFTOf[f.type]>>)
                      ELSE fields
         /\ pszGeomColumn' = IF f.type = "GEOMETRY" THEN iRawField
                             ELSE pszGeomColumn
         /\ pszFIDColumn' = IF f.name = "ogc_fid" \/ f.pkNotNull
                            THEN iRawField ELSE pszFIDColumn
    /\ iRawField' = iRawField + 1
    /\ UNCHANGED <<columns, pc, hResultSet, live, memErr, geomType, nSRSId,
                   poSRS>>

(* The loop ends; SetGeomType(wkbNone), then wkbUnknown if a geometry     *)
(* column was seen, which starts the lookups.                              *)
EndFields ==
    /\ pc = "fields"
    /\ iRawField > NColumns
    /\ pc' = IF pszGeomColumn # 0 THEN "type" ELSE "done"
    /\ geomType' = IF pszGeomColumn # 0 THEN "wkbUnknown" ELSE "wkbNone"
    /\ UNCHANGED <<columns, iRawField, hResultSet, live, memErr, fields,
                   pszFIDColumn, pszGeomColumn, nSRSId, poSRS>>

-----------------------------------------------------------------------------
(* if( hResultSet != NULL ) mysql_free_result( hResultSet ); the pointer  *)
(* is not reset.                                                           *)
FreeResult(h, lv, err) ==
    IF h = NULL THEN [live |-> lv, err |-> err]
    ELSE IF h \in lv THEN [live |-> lv \ {h}, err |-> err]
    ELSE [live |-> lv, err |-> err \cup {"free_freed"}]

(* The outcomes of "if( !mysql_query(...) ) hResultSet =                   *)
(* mysql_store_result(...)" for query q: the member's new value.           *)
QueryOutcomes(q, h) ==
    (IF QueryMayFail THEN {h} ELSE {}) \cup {NULL, q}

(***************************************************************************)
(* "if( hResultSet != NULL ) papszRow = mysql_fetch_row( hResultSet )":   *)
(* the rows the fetch may give, where rows are what the result may hold.  *)
(* On a result already freed the behaviour is undefined: any row, or      *)
(* none, and FetchErr records the access.                                 *)
(***************************************************************************)
FetchRows(h, rows) == IF h = NULL THEN {NULL} ELSE rows \cup {NULL}

FetchErr(h, lv, err) ==
    IF h # NULL /\ h \notin lv THEN err \cup {"fetch_freed"} ELSE err

(* Mutation: the type lookup fetches before it runs its query. *)
QueryTypeFetchFirst ==
    /\ pc = "type"
    /\ LET fr == FreeResult(hResultSet, live, memErr) IN
       \E h \in QueryOutcomes("type", hResultSet) :
         \E row \in FetchRows(hResultSet, TypeNames) :
           /\ hResultSet' = h
           /\ live' = IF h = "type" THEN fr.live \cup {"type"} ELSE fr.live
           /\ memErr' = FetchErr(hResultSet, fr.live, fr.err)
           /\ geomType' = IF row # NULL THEN WkbOf(row) ELSE geomType
    /\ pc' = "srid"
    /\ UNCHANGED <<columns, iRawField, fields, pszFIDColumn, pszGeomColumn,
                   nSRSId, poSRS>>

(* The geometry type lookup: free the current result, query, fetch, and   *)
(* set the type when the row names one.                                    *)
QueryType ==
    /\ pc = "type"
    /\ LET fr == FreeResult(hResultSet, live, memErr) IN
       \E h \in QueryOutcomes("type", hResultSet) :
         \E row \in FetchRows(h, TypeNames) :
           /\ hResultSet' = h
           /\ live' = IF h = "type" THEN fr.live \cup {"type"} ELSE fr.live
           /\ memErr' = FetchErr(h, live', fr.err)
           /\ geomType' = IF row # NULL THEN WkbOf(row) ELSE geomType
    /\ pc' = "srid"
    /\ UNCHANGED <<columns, iRawField, fields, pszFIDColumn, pszGeomColumn,
                   nSRSId, poSRS>>

(* The SRID lookup: free, query, fetch, nSRSId = atoi(papszRow[0]). *)
QuerySrid ==
    /\ pc = "srid"
    /\ LET fr == FreeResult(hResultSet, live, memErr) IN
       \E h \in QueryOutcomes("srid", hResultSet) :
         \E row \in FetchRows(h, SRIDs) :
           /\ hResultSet' = h
           /\ live' = IF h = "srid" THEN fr.live \cup {"srid"} ELSE fr.live
           /\ memErr' = FetchErr(h, live', fr.err)
           /\ nSRSId' = IF row # NULL THEN row ELSE nSRSId
    /\ pc' = "srtext"
    /\ UNCHANGED <<columns, iRawField, fields, geomType, pszFIDColumn,
                   pszGeomColumn, poSRS>>

(***************************************************************************)
(* The spatial_ref_sys lookup: free, query, fetch; poSRS is kept only when *)
(* a WKT came back and importFromWkt accepted it.  This last result is    *)
(* left in hResultSet.                                                     *)
(***************************************************************************)
QuerySrtext ==
    /\ pc = "srtext"
    /\ LET fr == FreeResult(hResultSet, live, memErr) IN
       \E h \in QueryOutcomes("srtext", hResultSet) :
         \E row \in FetchRows(h, {"wkt", "badwkt"}) :
           /\ hResultSet' = h
           /\ live' = IF h = "srtext" THEN fr.live \cup {"srtext"} ELSE fr.live
           /\ memErr' = FetchErr(h, live', fr.err)
           /\ poSRS' = IF row = "wkt" THEN "srs" ELSE NULL
    /\ pc' = "done"
    /\ UNCHANGED <<columns, iRawField, fields, geomType, pszFIDColumn,
                   pszGeomColumn, nSRSId>>

Next ==
    \/ Construct
    \/ ReadField
    \/ EndFields
    \/ QueryType
    \/ QuerySrid
    \/ QuerySrtext

Spec == Init /\ [][Next]_vars

-----------------------------------------------------------------------------
(***************************************************************************)
(* Every fetch and every free in ReadResultDefinition is applied to a      *)
(* result that is still allocated: the "hResultSet != NULL" guards are     *)
(* meant to make the member NULL-or-live.                                  *)
(***************************************************************************)
ResultSetNeverMisused == memErr = {}

(***************************************************************************)
(* The comment at the FID choice: "assume a FID name first, and if it     *)
(* isn't there take a field that is both not null and a primary key".     *)
(* Once the columns are walked, if there is an ogc_fid column the FID is  *)
(* an ogc_fid column.                                                      *)
(***************************************************************************)
FIDPrefersOgcFid ==
    pc \notin {"construct", "fields"} =>
        ((\E i \in 1 .. NColumns : columns[i].name = "ogc_fid")
            => pszFIDColumn # 0 /\ columns[pszFIDColumn].name = "ogc_fid")

=============================================================================
