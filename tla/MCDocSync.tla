------------------------------ MODULE MCDocSync ------------------------------
(* Instances of DocSync for TLC. *)
EXTENDS DocSync, TLC

\* "x" is a text, "x " the same with trailing blanks: will_save makes it "x".
KeepText == [x \in Texts |-> x]
StripText == [x \in Texts |-> IF x = "x " THEN "x" ELSE x]

\* With no distinguished file or document, they may be renamed.
Interchangeable == Permutations(Files) \cup Permutations(Clients)
==============================================================================
