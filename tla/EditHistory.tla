----------------------------- MODULE EditHistory -----------------------------
(***************************************************************************)
(* What undo and redo promise: a line of texts, with the text of the       *)
(* buffer somewhere on it, and perhaps the place where the buffer was last *)
(* unmodified.  An edit forgets what lies ahead; undo and redo go back and *)
(* forth; the buffer is unmodified exactly at the clean place.             *)
(* UndoStack implements this.                                              *)
(***************************************************************************)
EXTENDS Naturals, Sequences

CONSTANTS
  Char,  \* the characters of texts
  Lost   \* the clean place when undo and redo do not lead to it; no number

VARIABLES
  past,   \* the texts behind, nearest first
  here,   \* the text of the buffer
  ahead,  \* the texts ahead, nearest first
  clean   \* how many texts lie behind the clean place, or Lost

historyVars == <<past, here, ahead, clean>>

Text == Seq(Char)

IsModified == clean # Len(past)

HistoryInit ==
  /\ past = <<>>
  /\ here = <<>>
  /\ ahead = <<>>
  /\ clean = 0

\* The clean place after an edit: it is lost when it was ahead.
CleanBehind == IF clean \in 0 .. Len(past) THEN clean ELSE Lost

Edit ==
  /\ here' \in Text
  /\ past' = <<here>> \o past
  /\ ahead' = <<>>
  /\ clean' = CleanBehind

\* An edit that joins the one before it, so that both are undone at once; never
\* right at the clean place, which undo could not find again.
JoinedEdit ==
  /\ past # <<>>
  /\ IsModified
  /\ here' \in Text
  /\ ahead' = <<>>
  /\ clean' = CleanBehind
  /\ UNCHANGED past

Back ==
  /\ past # <<>>
  /\ past' = Tail(past)
  /\ here' = Head(past)
  /\ ahead' = <<here>> \o ahead
  /\ UNCHANGED clean

Forth ==
  /\ ahead # <<>>
  /\ past' = <<here>> \o past
  /\ here' = Head(ahead)
  /\ ahead' = Tail(ahead)
  /\ UNCHANGED clean

\* The history is dropped; the text stays.
Forget ==
  /\ past' = <<>>
  /\ ahead' = <<>>
  /\ clean' = IF IsModified THEN Lost ELSE 0
  /\ UNCHANGED here

\* While edits are not recorded there is nothing to go back to.
EditUnrecorded ==
  /\ past = <<>>
  /\ ahead = <<>>
  /\ here' \in Text
  /\ clean' = Lost
  /\ UNCHANGED <<past, ahead>>

\* The place of the buffer becomes the clean one, or no place is.
MarkClean(b) ==
  /\ clean' = IF b THEN Len(past) ELSE Lost
  /\ UNCHANGED <<past, here, ahead>>

HistoryNext ==
  \/ Edit \/ JoinedEdit \/ EditUnrecorded
  \/ Back \/ Forth \/ Forget
  \/ \E b \in BOOLEAN : MarkClean(b)

HistorySpec == HistoryInit /\ [][HistoryNext]_historyVars
==============================================================================
