---------------------------- MODULE MCReadingStats ----------------------------
(***************************************************************************)
(* ReadingStats for TLC: nothing tells two books apart.                    *)
(***************************************************************************)
EXTENDS ReadingStats, TLC
CONSTANTS b1, b2, b3
Books == Permutations(Book)
=============================================================================
