---------------------------- MODULE MCENVIDataset ----------------------------
(***************************************************************************)
(* ENVIDataset for TLC.  Sizes 0 (rejected), 1 and 3, so that bands, lines *)
(* and pixels each have a first, a middle and a last; data types of 1 and *)
(* 16 bytes, and one code Open does not know.                              *)
(***************************************************************************)
EXTENDS ENVIDataset

MCDims == {0, 1, 3}
MCHeaderOffsets == {0, 5}
MCDataTypeCodes == {1, 9, 7}
=============================================================================
