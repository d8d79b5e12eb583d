---------------------------- MODULE MCReadingPlace ----------------------------
(***************************************************************************)
(* ReadingPlace for TLC: a chapter that has one page in both layouts, and  *)
(* one that has one page or two, depending on the layout.                  *)
(***************************************************************************)
EXTENDS ReadingPlace
CONSTANTS small, large
BookLength == [c \in Chapter |-> IF c = 0 THEN 2 ELSE 3]
PageSizes  == [l \in Layout |-> IF l = small THEN 3 ELSE 2]
=============================================================================
