---------------------------- MODULE MCBookmarks -----------------------------
(* Bookmarks with interchangeable marks, for model checking. *)
EXTENDS Bookmarks, TLC

MarkSymmetry == Permutations(Marks)
==============================================================================
