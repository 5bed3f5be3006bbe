------------------------------ MODULE Bookmarks ------------------------------
(***************************************************************************)
(* Bookmarks of a document: the text buffer's handlers of inserted and     *)
(* deleted text (mootextbuffer.c), which keep the line buffer in step with *)
(* the lines GTK has, and the document's list of bookmarks                 *)
(* (mooeditbookmark.cpp), which an idle callback sorts again after marks   *)
(* have moved.                                                             *)
(***************************************************************************)
EXTENDS LineBTree

CONSTANTS
  MaxLines,   \* bound on the lines of the text
  MaxInsert,  \* bound on the line ends inserted at once
  MaxDelete   \* bound on the line ends deleted at once

ASSUME BookmarksAssumption ==
  /\ MaxLines \in Nat
  /\ MaxInsert \in Nat \ {0}
  /\ MaxDelete \in Nat \ {0}

VARIABLES
  line_buf,     \* the line buffer of the MooTextBuffer
  line_count,   \* the number of lines GTK has
  bookmarks,    \* the list edit->priv->bookmarks
  update_idle   \* edit->priv->update_bookmarks_idle is not 0

vars == <<line_buf, line_count, bookmarks, update_idle>>

Init ==
  /\ line_buf = NewLineBuffer
  /\ line_count = 1
  /\ bookmarks = <<>>
  /\ update_idle = FALSE

Lines == 0 .. line_count - 1
Attached(buf) == UNION Range(LinesOf(buf.root))

\* Mutant of Without: deleted marks stay in the list.
WithDeleted(list, M) == list

\* _moo_edit_line_mark_deleted, for the marks M.
Without(list, M) == SelectSeq(list, LAMBDA m : m \notin M)

\* Mutant of MarksMoved: no update is scheduled.
MarksMovedUnnoticed(M) == UNCHANGED update_idle

\* _moo_edit_line_mark_moved, for the marks M.
MarksMoved(M) == update_idle' = (update_idle \/ M # {})

(***************************************************************************)
(* The list of bookmarks.                                                  *)
(***************************************************************************)

\* update_bookmarks: the list is sorted, and of the bookmarks that share a line
\* the last one of the list stays.  A list of one is not asked for its line.
Updated(buf, list) ==
  LET asked == IF Len(list) > 1 THEN Asked(buf, Range(list)) ELSE buf
      dup == {list[j] : j \in {i \in DOMAIN list : \E k \in DOMAIN list :
                                i < k /\ asked.line_no[list[i]] = asked.line_no[list[k]]}}
  IN [buf |-> FoldSet(LAMBDA m, b : RemoveMark(b, m), asked, dup),
      list |-> SetToSortSeq(Range(list) \ dup,
                            LAMBDA a, b : asked.line_no[a] < asked.line_no[b])]

UpdatedNow(buf, list) ==
  IF update_idle THEN Updated(buf, list) ELSE [buf |-> buf, list |-> list]

\* g_slist_insert_sorted asks the bookmarks up to the place of m.
InsertSorted(buf, list, m) ==
  LET asked == Asked(buf, Range(list))
      before == {k \in DOMAIN list : asked.line_no[list[k]] >= asked.line_no[m]}
      place == IF before = {} THEN Len(list) + 1 ELSE Min(before)
  IN [buf |-> Asked(buf, {list[k] : k \in 1 .. Min({place, Len(list)})}),
      list |-> InsertAt(list, place, m)]

\* moo_edit_remove_bookmark.
RemoveBookmark(buf, m) ==
  /\ line_buf' = RemoveMark(buf, m)
  /\ bookmarks' = Without(bookmarks, {m})
  /\ UNCHANGED update_idle

\* moo_edit_add_bookmark, with a number yet to be found: get_unused_bookmark_no
\* lists the bookmarks, and a pending update takes place.
AddBookmark(buf, line, m) ==
  LET now == UpdatedNow(AddMark(buf, m, line), bookmarks)
      new == InsertSorted(now.buf, now.list, m)
  IN /\ line_buf' = new.buf
     /\ bookmarks' = new.list
     /\ update_idle' = FALSE

\* moo_edit_toggle_bookmark.  Which of two bookmarks of the line comes first is
\* left open.
ToggleBookmark(line) ==
  LET there == MarksAt(line_buf, line) \cap Range(bookmarks)
      buf == Listed(line_buf, line)
  IN /\ IF there = {} THEN \E m \in Marks \ Attached(line_buf) : AddBookmark(buf, line, m)
                      ELSE \E m \in there : RemoveBookmark(buf, m)
     /\ UNCHANGED line_count

\* The idle callback, or a reader of the list that comes before it.
UpdateBookmarks ==
  /\ update_idle
  /\ LET now == UpdatedNow(line_buf, bookmarks) IN
       /\ line_buf' = now.buf
       /\ bookmarks' = now.list
  /\ update_idle' = FALSE
  /\ UNCHANGED line_count

\* _moo_edit_delete_bookmarks, when bookmarks are disabled.
DeleteBookmarks ==
  /\ bookmarks # <<>>
  /\ line_buf' = FoldLeft(RemoveMark, line_buf, bookmarks)
  /\ bookmarks' = <<>>
  /\ UNCHANGED <<line_count, update_idle>>

(***************************************************************************)
(* The text.                                                               *)
(***************************************************************************)

\* n line ends are inserted into a line; front: at its start, and the text
\* starts with a line end.
InsertText(line, n, front) ==
  LET split == SplitLine(line_buf, line, n)
      moved == IF front THEN MarksAt(split, line) ELSE {}
      listed == IF front THEN Listed(split, line) ELSE split
  IN
  /\ line_count + n <= MaxLines
  /\ line_count' = line_count + n
  /\ line_buf' = FoldSet(LAMBDA m, b : MoveMark(b, m, line + n), listed, moved)
  /\ MarksMoved(moved)
  /\ UNCHANGED bookmarks

\* Text is deleted from line first to line last; starts: from the start of first.
DeleteText(first, last, starts) ==
  LET left == IF starts THEN DeleteLines(line_buf, first, last - first, -1)
                        ELSE DeleteLines(line_buf, first + 1, last - first, first)
      moved == IF starts THEN {} ELSE LineAt(line_buf.root, last)
      deleted == Attached(line_buf) \ Attached(left)
  IN
  /\ line_count' = line_count - (last - first)
  /\ line_buf' = left
  /\ bookmarks' = Without(bookmarks, deleted)
  /\ MarksMoved(moved)

\* A line is painted, or a bookmark asked where it is.
Paint(line) ==
  /\ line_buf' = Listed(line_buf, line)
  /\ UNCHANGED <<line_count, bookmarks, update_idle>>

GetLine(m) ==
  /\ line_buf' = Asked(line_buf, {m})
  /\ UNCHANGED <<line_count, bookmarks, update_idle>>

Next ==
  \/ \E line \in Lines : ToggleBookmark(line) \/ Paint(line)
  \/ \E line \in Lines, n \in 1 .. MaxInsert, front \in BOOLEAN : InsertText(line, n, front)
  \/ \E first, last \in Lines, starts \in BOOLEAN :
       first < last /\ last <= first + MaxDelete /\ DeleteText(first, last, starts)
  \/ \E m \in Range(bookmarks) : GetLine(m)
  \/ UpdateBookmarks
  \/ DeleteBookmarks

Spec == Init /\ [][Next]_vars

(***************************************************************************)
(* Properties.                                                             *)
(***************************************************************************)
RECURSIVE Sound(_), Depth(_)
Depth(node) == IF node.is_bottom THEN 0 ELSE 1 + Depth(node.children[1])
Sound(node) ==
  /\ node.count = Offset(node, Len(node.children) + 1)
  /\ node.n_marks = MarksOver(node, DOMAIN node.children)
  /\ Len(node.children) < MaxCapacity
  /\ ~node.is_bottom => \A k \in DOMAIN node.children :
       LET child == node.children[k] IN
       /\ Len(child.children) >= MinCapacity
       /\ Depth(child) = Depth(node) - 1
       /\ Sound(child)

\* The counts of lines and marks in every node are right, no node but the root
\* is less than half full, all bottom nodes are equally deep, and the tree has as
\* many lines as GTK.
TreeSound == Sound(line_buf.root) /\ line_buf.root.count = line_count

\* A line number a mark has cached is the number of the line the mark is on,
\* whatever was inserted and deleted in front of it since.
LineNumbersTrue ==
  \A m \in Attached(line_buf) :
    line_buf.line_no[m] # Stale => m \in LinesOf(line_buf.root)[line_buf.line_no[m] + 1]

Text == INSTANCE MarkedLines WITH lines <- LinesOf(line_buf.root)

\* Every step does to the lines and their marks what MarkedLines says of a text:
\* a mark stays with its line through every split and merge of nodes, and goes
\* only with its line or when its bookmark does.
KeepsMarks == Text!LinesSpec

\* The list of bookmarks holds each mark of the text once, and no mark that has
\* gone with its line.
BookmarksOwned ==
  /\ Range(bookmarks) = Attached(line_buf)
  /\ Cardinality(Range(bookmarks)) = Len(bookmarks)

\* Unless the idle callback is pending, bookmarks are in the order of their lines
\* and no two share one: the next bookmark from the cursor is the nearest.
SortedUnlessPending ==
  ~update_idle => \A j, k \in DOMAIN bookmarks :
    j < k => IndexOf(line_buf.root, bookmarks[j]) < IndexOf(line_buf.root, bookmarks[k])
==============================================================================
