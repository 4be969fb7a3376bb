--------------------------- MODULE MCPNGCreateCopy ---------------------------
(* Model-checking instance of PNGCreateCopy.  Two pixels and two or three *)
(* lines (set in the cfg)                                                  *)
(* make every stride of the interleaved buffer matter (a band's byte of   *)
(* pixel 1 lands next to pixel 0's), and a second line shows what the      *)
(* buffer carries over.  Band counts 0 and 5 are rejected; 1 to 4 (grey,  *)
(* grey+alpha, rgb, rgba) are accepted.                                   *)
EXTENDS PNGCreateCopy

MCBandCounts == 0 .. 5

=============================================================================
