------------------------------ MODULE LineBTree ------------------------------
(***************************************************************************)
(* The balanced tree of the lines of a text (moo/mooedit/mootextbtree.c)   *)
(* and the line buffer on top of it (moolinebuffer.c): finding, inserting  *)
(* and deleting lines by number, marks on lines, and the line number each  *)
(* mark caches (moolinemark.c).                                            *)
(*                                                                         *)
(* A node is a record that contains its children: the pointer to a parent  *)
(* is the path that leads to a node, and a loop that follows it is the     *)
(* return from a recursion.  A line is the set of its marks, so that a     *)
(* mark's pointer to its line is membership.  Lines are numbered from 0.   *)
(***************************************************************************)
EXTENDS Integers, Sequences, FiniteSets, FiniteSetsExt, SequencesExt

CONSTANTS
  Marks,
  MinCapacity  \* BTREE_NODE_MIN_CAPACITY, 8 in the code

ASSUME LineBTreeAssumption == MinCapacity \in Nat /\ MinCapacity >= 2

MaxCapacity == 2 * MinCapacity

\* The stamp of the tree is another one than when the mark cached its line.
Stale == -1

\* _moo_text_btree_new.
NewTree == [is_bottom |-> TRUE, count |-> 1, n_marks |-> 0, children |-> <<{}>>]

CountOf(node, k) == IF node.is_bottom THEN 1 ELSE node.children[k].count
MarksOf(node, k) == IF node.is_bottom THEN Cardinality(node.children[k])
                                      ELSE node.children[k].n_marks

MarksOver(node, K) == MapThenSumSet(LAMBDA k : MarksOf(node, k), K)

\* The number of lines in front of child k.
RECURSIVE Offset(_, _)
Offset(node, k) == IF k = 1 THEN 0 ELSE Offset(node, k - 1) + CountOf(node, k - 1)

\* The child the loop of get_data stops at.
ChildWith(node, i) == CHOOSE k \in DOMAIN node.children :
                        Offset(node, k) <= i /\ i < Offset(node, k + 1)

\* _moo_text_btree_get_data.
RECURSIVE LineAt(_, _)
LineAt(node, i) ==
  IF node.is_bottom
    THEN node.children[i + 1]
    ELSE LET k == ChildWith(node, i) IN LineAt(node.children[k], i - Offset(node, k))

(***************************************************************************)
(* Inserting a line.                                                       *)
(***************************************************************************)

\* A node left with its children K when it is split.
Half(node, K) ==
  [node EXCEPT !.children = SubSeq(@, Min(K), Max(K)),
               !.count = Offset(node, Max(K) + 1) - Offset(node, Min(K)),
               !.n_marks = IF @ = 0 THEN 0 ELSE MarksOver(node, K)]

\* One turn of the second loop of _moo_text_btree_insert: the nodes that take
\* the place of node.
Split(node) ==
  IF Len(node.children) < MaxCapacity
    THEN <<node>>
    ELSE <<Half(node, 1 .. MinCapacity), Half(node, MinCapacity + 1 .. MaxCapacity)>>

\* The child the first loop of insert stops at: a line may be appended to it.
ChildFor(node, i) == CHOOSE k \in DOMAIN node.children :
                       /\ i <= Offset(node, k + 1)
                       /\ k = 1 \/ i > Offset(node, k)

RECURSIVE Inserted(_, _)
Inserted(node, i) ==
  IF node.is_bottom
    THEN Split([node EXCEPT !.children = InsertAt(@, i + 1, {}), !.count = @ + 1])
    ELSE LET k == ChildFor(node, i)
             grown == Inserted(node.children[k], i - Offset(node, k))
         IN Split([node EXCEPT !.children = SubSeq(@, 1, k - 1) \o grown
                                              \o SubSeq(@, k + 1, Len(@)),
                               !.count = @ + 1])

\* The root, which is put under a new one when it is split.  The new one takes
\* the counts the root has by then.
Rooted(root, nodes) ==
  IF Len(nodes) = 1
    THEN nodes[1]
    ELSE [is_bottom |-> FALSE, count |-> root.count + 1, n_marks |-> root.n_marks,
          children |-> nodes]

(***************************************************************************)
(* Deleting a line.                                                        *)
(***************************************************************************)

\* Mutant of Joined: the marks of the second node are not added.
JoinedUnmarked(node, k) ==
  LET next == node.children[k + 1] IN
  [node EXCEPT !.children[k].children = @ \o next.children,
               !.children[k].count = @ + next.count,
               !.children = RemoveAt(@, k + 1)]

\* merge_nodes for the children k and k + 1 of node.
Joined(node, k) ==
  LET next == node.children[k + 1] IN
  [node EXCEPT !.children[k].children = @ \o next.children,
               !.children[k].count = @ + next.count,
               !.children[k].n_marks = @ + next.n_marks,
               !.children = RemoveAt(@, k + 1)]

\* Child k of node takes the nearest child of its sibling s.
Borrowed(node, k, s) ==
  LET sib == node.children[s]
      j == IF s < k THEN Len(sib.children) ELSE 1
      child == sib.children[j]
  IN
  [node EXCEPT
     !.children[k].children = IF s < k THEN <<child>> \o @ ELSE Append(@, child),
     !.children[k].count = @ + CountOf(sib, j),
     !.children[k].n_marks = @ + MarksOf(sib, j),
     !.children[s].children = RemoveAt(@, j),
     !.children[s].count = @ - CountOf(sib, j),
     !.children[s].n_marks = @ - MarksOf(sib, j)]

\* One turn of the loop of _moo_text_btree_delete, for child k of node.
Filled(node, k) ==
  LET s == IF k = 1 THEN 2 ELSE k - 1 IN
  IF Len(node.children[k].children) >= MinCapacity THEN node
  ELSE IF Len(node.children[s].children) > MinCapacity THEN Borrowed(node, k, s)
  ELSE Joined(node, IF k = 1 THEN 1 ELSE k - 1)

RECURSIVE Removed(_, _)
Removed(node, i) ==
  IF node.is_bottom
    THEN [node EXCEPT !.children = RemoveAt(@, i + 1),
                      !.count = @ - 1,
                      !.n_marks = @ - MarksOf(node, i + 1)]
    ELSE LET k == ChildWith(node, i)
             shrunk == Removed(node.children[k], i - Offset(node, k))
         IN Filled([node EXCEPT !.children[k] = shrunk,
                                !.count = @ - 1,
                                !.n_marks = @ - Cardinality(LineAt(node, i))], k)

\* The root, which gives way to its only child.
Collapsed(root) ==
  IF ~root.is_bottom /\ Len(root.children) = 1 THEN root.children[1] ELSE root

(***************************************************************************)
(* Marks.                                                                  *)
(***************************************************************************)

\* The marks of line i become M, and _moo_text_btree_update_n_marks follows the
\* line to the root.
RECURSIVE WithMarks(_, _, _)
WithMarks(node, i, M) ==
  LET added == Cardinality(M) - Cardinality(LineAt(node, i)) IN
  IF node.is_bottom
    THEN [node EXCEPT !.children[i + 1] = M, !.n_marks = @ + added]
    ELSE LET k == ChildWith(node, i) IN
         [node EXCEPT !.children[k] = WithMarks(@, i - Offset(node, k), M),
                      !.n_marks = @ + added]

\* node_get_marks, for a node whose first line is number offset: the marks of
\* lines first .. last, each with the number of the line it was found on.
RECURSIVE MarksInRange(_, _, _, _)
MarksInRange(node, first, last, offset) ==
  IF node.n_marks = 0 \/ last < offset \/ first >= offset + node.count THEN {}
  ELSE IF node.is_bottom
    THEN UNION {{[mark |-> m, line |-> offset + k - 1] : m \in node.children[k]} :
                  k \in {j \in DOMAIN node.children : offset + j - 1 \in first .. last}}
  ELSE UNION {MarksInRange(node.children[k], first, last, offset + Offset(node, k)) :
                k \in DOMAIN node.children}

RECURSIVE LinesOf(_)
LinesOf(node) ==
  IF node.is_bottom
    THEN node.children
    ELSE FlattenSeq([k \in DOMAIN node.children |-> LinesOf(node.children[k])])

\* line_get_index for the line of mark m.
RECURSIVE IndexOf(_, _)
IndexOf(node, m) ==
  IF node.is_bottom
    THEN (CHOOSE k \in DOMAIN node.children : m \in node.children[k]) - 1
    ELSE LET k == CHOOSE j \in DOMAIN node.children :
                    \E l \in Range(LinesOf(node.children[j])) : m \in l
         IN Offset(node, k) + IndexOf(node.children[k], m)

(***************************************************************************)
(* The line buffer: a tree and the line numbers marks have cached.         *)
(***************************************************************************)
NewLineBuffer == [root |-> NewTree, line_no |-> [m \in Marks |-> Stale]]

\* Mutant of Changed: the stamp stays.
Unstamped(buf, root) == [buf EXCEPT !.root = root]

\* tree->stamp++.
Changed(buf, root) == [root |-> root, line_no |-> [m \in Marks |-> Stale]]

Repeat(Op(_), buf, num) == FoldLeft(LAMBDA b, k : Op(b), buf, [k \in 1 .. num |-> k])

\* _moo_text_btree_insert_range.
InsertRange(buf, first, num) ==
  Repeat(LAMBDA b : Changed(b, Rooted(b.root, Inserted(b.root, first))), buf, num)

\* _moo_text_btree_delete_range; the marks of the lines are set to no line.
DeleteRange(buf, first, num) ==
  Repeat(LAMBDA b : Changed(b, Collapsed(Removed(b.root, first))), buf, num)

\* _moo_line_buffer_split_line.
SplitLine(buf, line, num) == InsertRange(buf, line + 1, num)

SetMarks(buf, line, M) == [buf EXCEPT !.root = WithMarks(@, line, M)]

\* _moo_line_mark_set_line for marks of one line.
Numbered(buf, M, line) ==
  [buf EXCEPT !.line_no = [m \in Marks |-> IF m \in M THEN line ELSE @[m]]]

\* Mutant of DeleteLines: the marks of the last line go, too.
DeleteLinesAndMarks(buf, first, num, move_to) == DeleteRange(buf, first, num)

\* _moo_line_buffer_delete.
DeleteLines(buf, first, num, move_to) ==
  IF move_to < 0
    THEN DeleteRange(buf, first, num)
    ELSE LET moved == LineAt(buf.root, first + num - 1)
             rest == DeleteRange(SetMarks(buf, first + num - 1, {}), first, num)
         IN Numbered(SetMarks(rest, move_to, LineAt(rest.root, move_to) \cup moved),
                     moved, move_to)

\* _moo_line_buffer_add_mark.
AddMark(buf, m, line) ==
  Numbered(SetMarks(buf, line, LineAt(buf.root, line) \cup {m}), {m}, line)

\* moo_line_mark_get_line, for the marks M.
Asked(buf, M) ==
  [buf EXCEPT !.line_no = [m \in Marks |-> IF m \in M /\ @[m] = Stale
                                             THEN IndexOf(buf.root, m) ELSE @[m]]]

\* _moo_line_buffer_remove_mark.
RemoveMark(buf, m) ==
  LET line == Asked(buf, {m}).line_no[m] IN
  Numbered(SetMarks(buf, line, LineAt(buf.root, line) \ {m}), {m}, Stale)

\* _moo_line_buffer_move_mark.
MoveMark(buf, m, line) == AddMark(RemoveMark(buf, m), m, line)

\* _moo_line_buffer_get_marks_in_range for one line, and what it leaves in the
\* marks.
Found(buf, line) == MarksInRange(buf.root, line, line, 0)
MarksAt(buf, line) == {found.mark : found \in Found(buf, line)}
Listed(buf, line) ==
  FoldSet(LAMBDA found, b : Numbered(b, {found.mark}, found.line), buf, Found(buf, line))
==============================================================================
