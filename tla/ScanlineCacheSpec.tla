-------------------------- MODULE ScanlineCacheSpec --------------------------
(***************************************************************************)
(* What the scanline cache promises its callers (spec sections 3, 4.2 and  *)
(* 7), without the decoder or the bytes: the cache is Empty, holds one     *)
(* row, or holds the whole image; a row request is served without any     *)
(* change to the cache iff the buffered range covers it, and otherwise     *)
(* refills the cache with the range the image's mode dictates; a request  *)
(* that fails for lack of memory leaves the cache as it was; a flush       *)
(* empties it.  served is the row the last request was served from, -1     *)
(* when it failed or before any request.                                   *)
(***************************************************************************)
EXTENDS Integers

CONSTANTS Height, Interlaced

VARIABLES mode, bufStart, bufCount, served

vars == <<mode, bufStart, bufCount, served>>

Rows == 0 .. Height - 1
Modes == {"Empty", "SingleRowCached", "WholeImageCached"}

(* buffer_start_row <= R < buffer_start_row + buffer_row_count *)
Servable(r) == bufStart <= r /\ r < bufStart + bufCount

Init ==
    /\ mode = "Empty"
    /\ bufStart = 0
    /\ bufCount = 0
    /\ served = -1

(* The range a request for row r that is not servable leaves buffered. *)
Fill(r) ==
    IF Interlaced
    THEN mode' = "WholeImageCached" /\ bufStart' = 0 /\ bufCount' = Height
    ELSE mode' = "SingleRowCached" /\ bufStart' = r /\ bufCount' = 1

(* A block request for row r that succeeds, served from row r. *)
Access(r) ==
    /\ IF Servable(r) THEN UNCHANGED <<mode, bufStart, bufCount>> ELSE Fill(r)
    /\ served' = r

(* A request whose whole-image allocation fails: reported, and the cache  *)
(* is not corrupted.                                                       *)
AccessFails ==
    /\ Interlaced
    /\ UNCHANGED <<mode, bufStart, bufCount>>
    /\ served' = -1

(* An explicit flush drops the buffer. *)
Flush ==
    /\ mode # "Empty"
    /\ mode' = "Empty"
    /\ bufStart' = 0
    /\ bufCount' = 0
    /\ UNCHANGED served

Next ==
    \/ \E r \in Rows : Access(r)
    \/ AccessFails
    \/ Flush

Spec == Init /\ [][Next]_vars

=============================================================================
