---------------------------- MODULE MCQuestionCache ----------------------------
(***************************************************************************)
(* QuestionCache for TLC: two books, which nothing tells apart.            *)
(***************************************************************************)
EXTENDS QuestionCache, TLC
CONSTANTS b1, b2
Books == Permutations(Book)
=============================================================================
