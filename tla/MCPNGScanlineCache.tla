------------------------- MODULE MCPNGScanlineCache -------------------------
(* Model-checking instance of PNGScanlineCache.  The image height is kept  *)
(* small: four rows are enough for a forward scan, a rewind to a row       *)
(* before the cursor, a rewind to the cursor row itself and a request of   *)
(* the last row, in both buffering strategies.                             *)
EXTENDS PNGScanlineCache

MCHeight == 4

MCNBands == 2

=============================================================================
