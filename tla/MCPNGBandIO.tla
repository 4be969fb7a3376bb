----------------------------- MODULE MCPNGBandIO -----------------------------
(***************************************************************************)
(* PNGBandIO for TLC: two pixels per row, so every loop runs more than one *)
(* iteration and a byte written for pixel i can land on pixel i+1's slot,  *)
(* and two versions of a block per band, so a read can tell which write   *)
(* it sees.                                                                *)
(***************************************************************************)
EXTENDS PNGBandIO

MCWidth == 2
MCVersions == {1, 2}
=============================================================================
