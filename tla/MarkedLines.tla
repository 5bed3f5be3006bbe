----------------------------- MODULE MarkedLines -----------------------------
(***************************************************************************)
(* What a text buffer promises about line marks: a text is a sequence of   *)
(* lines, each with its marks; marks go where their line goes, and are     *)
(* deleted with it.  Lines are numbered from 0.  Bookmarks implements this *)
(* with the balanced tree of LineBTree.                                    *)
(***************************************************************************)
EXTENDS Integers, Sequences

CONSTANTS
  Marks,
  MaxInsert  \* bound on the line ends inserted at once, at least 1

VARIABLE lines

\* The lines of a text in front of number i, and from number i on.
Before(text, i) == SubSeq(text, 1, i)
From(text, i) == SubSeq(text, i + 1, Len(text))

Marked(text) == UNION {text[k] : k \in DOMAIN text}

\* n line ends inserted: new lines in front of line i.
NewLines(text, i, n) == Before(text, i) \o [k \in 1 .. n |-> {}] \o From(text, i)

\* Lines first .. last - 1 deleted as a whole.
DeletedLines(text, first, last) == Before(text, first) \o From(text, last)

\* Text deleted from the middle of line first to somewhere in line last.
JoinedLines(text, first, last) ==
  Before(text, first) \o <<text[first + 1] \cup text[last + 1]>> \o From(text, last + 1)

Unmarked(text, M) == [k \in DOMAIN text |-> text[k] \ M]

\* Line i is marked; bookmarks that came to share a line may be thinned out then.
MarkedLine(text, m, i, M) == [Unmarked(text, M) EXCEPT ![i + 1] = @ \cup {m}]

Step(text, new) ==
  \/ /\ Len(new) = Len(text)
     /\ \/ \E M \in SUBSET Marked(text) : new = Unmarked(text, M)
        \/ \E m \in Marks \ Marked(text), M \in SUBSET Marked(text) :
             \E i \in 0 .. Len(text) - 1 : new = MarkedLine(text, m, i, M)
  \/ LET n == Len(new) - Len(text) IN
     /\ n \in 1 .. MaxInsert
     /\ \E i \in 0 .. Len(text) : new = NewLines(text, i, n)
  \/ LET n == Len(text) - Len(new) IN
     /\ n > 0
     /\ \E first \in 0 .. Len(new) - 1 :
          \/ new = DeletedLines(text, first, first + n)
          \/ new = JoinedLines(text, first, first + n)

LinesSpec == lines = <<{}>> /\ [][Step(lines, lines')]_lines
==============================================================================
