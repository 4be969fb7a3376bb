------------------------- MODULE MCMySQLResultLayer -------------------------
(***************************************************************************)
(* MySQLResultLayer for TLC.  Two columns, of every type arm, named        *)
(* ogc_fid or not, primary key or not: enough for a geometry column next  *)
(* to an attribute column, and for two FID candidates in either order.    *)
(* One recognised and one unrecognised geometry type name, two SRIDs.     *)
(***************************************************************************)
EXTENDS MySQLResultLayer

MCNColumns == 2
MCFieldTypes == {"LONG", "DECIMAL", "DOUBLE", "STRING", "BLOB", "GEOMETRY",
                 "ENUM"}
MCTypeNames == {"POINT", "GEOMETRY"}
MCSRIDs == {0, 4326}
=============================================================================
