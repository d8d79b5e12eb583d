------------------------------ MODULE MCWordList ------------------------------
(***************************************************************************)
(* WordList for TLC: two words that are alike, and a long one.             *)
(***************************************************************************)
EXTENDS WordList, TLC
CONSTANTS a, b, long, stem
Kept  == [t \in {a, b, long} |-> IF t = long THEN stem ELSE t]
Lags  == <<1, 2>>
Alike == Permutations({a, b})
=============================================================================
