------------------------------ MODULE UndoStack ------------------------------
(***************************************************************************)
(* MooUndoStack (moo/mooutils/mooundo.c) with the edit actions of          *)
(* MooTextBuffer (moo/mooedit/mootextbuffer.c), and GtkTextBuffer's        *)
(* modified flag.  It implements EditHistory.                              *)
(*                                                                         *)
(* The code keeps stacks of groups of actions.  Here a stack is the one    *)
(* sequence of all actions, and opens marks the oldest action of a group   *)
(* (no group is empty).  Undo and redo run through the actions of a group  *)
(* one step after another.  Actions carry the texts between which they     *)
(* lead, recorded when they are made and read by properties only.          *)
(***************************************************************************)
EXTENDS Integers, Sequences

CONSTANTS
  Char,
  Blanks,      \* spaces and tabs
  Newlines,
  ActionIds,   \* addresses of action records, other than 0 (NULL)
  MaxLength,   \* bound on the length of the text
  MaxNesting,  \* bound on nested user, non-undoable, non-interactive actions
  Lost         \* see EditHistory

ASSUME UndoStackAssumption ==
  /\ Blanks \subseteq Char
  /\ Newlines \subseteq Char
  /\ 0 \notin ActionIds
  /\ MaxLength \in Nat
  /\ MaxNesting \in Nat
  /\ Lost \notin Nat

VARIABLES
  text,               \* GtkTextBuffer: the text
  modified,           \*   and the flag gtk_text_buffer_get_modified returns
  user_action_count,
  modifying_action,   \* MooTextBufferPrivate: an action, or 0
  non_interactive,
  undo_stack,         \* MooUndoStack: newest action first
  redo_stack,         \*   the action to be redone first
  frozen,
  continue_group,
  do_continue,
  new_group,
  walk,               \* the group that is being undone or redone, if any
  saved               \* the text when the flag was last set to FALSE

stackVars == <<undo_stack, redo_stack, frozen, continue_group, do_continue, new_group>>
bufferVars == <<text, modified, user_action_count, modifying_action, non_interactive>>
vars == <<stackVars, bufferVars, walk, saved>>

Text == Seq(Char)
Nesting == 0 .. MaxNesting

Action == [id          : ActionIds,
           type        : {"insert", "delete"},
           pos         : Nat,
           str         : Text,
           interactive : BOOLEAN,
           forward     : BOOLEAN,
           mergeable   : BOOLEAN,
           opens       : BOOLEAN,
           from        : Text,
           to          : Text]

InsertAt(t, p, s) == SubSeq(t, 1, p) \o s \o SubSeq(t, p + 1, Len(t))
DeleteAt(t, p, n) == SubSeq(t, 1, p) \o SubSeq(t, p + n + 1, Len(t))

InsertedText(a, t) == InsertAt(t, a.pos, a.str)
DeletedText(a, t) == DeleteAt(t, a.pos, Len(a.str))

\* insert_action_undo, delete_action_undo and the like: the text afterwards.
Undone(a, t) == IF a.type = "insert" THEN DeletedText(a, t) ELSE InsertedText(a, t)
Redone(a, t) == IF a.type = "insert" THEN InsertedText(a, t) ELSE DeletedText(a, t)

Push(a, stack) == <<a>> \o stack

IdsOf(stack) == {stack[k].id : k \in DOMAIN stack}
FreeIds == ActionIds \ (IdsOf(undo_stack) \cup IdsOf(redo_stack))

\* action_new, insert_action_new, delete_action_new.
NewAction(type, p, s, forward, t) ==
  LET interactive == non_interactive = 0 /\ user_action_count > 0 IN
  [id          |-> CHOOSE i \in FreeIds : TRUE,
   type        |-> type,
   pos         |-> p,
   str         |-> s,
   interactive |-> interactive,
   forward     |-> forward /\ interactive /\ type = "delete",
   mergeable   |-> Len(s) = 1 /\ s[1] \notin Newlines,
   opens       |-> FALSE,
   from        |-> text,
   to          |-> t]

\* insert_action_merge, delete_action_merge: a goes on where last left off, and
\* does not start a new word after blanks.
Continues(last, a) ==
  LET Word(c, before) == c \in Blanks \/ before \notin Blanks IN
  \/ /\ a.type = "insert"
     /\ a.pos = last.pos + Len(last.str)
     /\ Word(a.str[1], last.str[Len(last.str)])
  \/ /\ a.type = "delete"
     /\ last.forward = a.forward
     /\ \/ /\ last.pos = a.pos
           /\ Word(a.str[1], last.str[Len(last.str)])
        \/ /\ last.pos = a.pos + Len(a.str)
           /\ Word(a.str[1], last.str[1])

\* A merge that does not care where the buffer was unmodified.
MergesAcrossSaved(last, a, m) ==
  /\ last.type = a.type
  /\ last.mergeable
  /\ a.mergeable
  /\ last.interactive = a.interactive
  /\ Continues(last, a)

\* action_merge, with m for modifying_action, and the check of the types.
Merges(last, a, m) ==
  /\ last.type = a.type
  /\ last.mergeable
  /\ a.mergeable
  /\ m # a.id
  /\ last.interactive = a.interactive
  /\ Continues(last, a)

\* A merge that always appends.
MergedAppends(last, a) ==
  [last EXCEPT !.str = @ \o a.str, !.pos = IF a.type = "delete" THEN a.pos ELSE @, !.to = a.to]

Merged(last, a) ==
  [last EXCEPT
     !.str = IF a.type = "delete" /\ last.pos # a.pos THEN a.str \o @ ELSE @ \o a.str,
     !.pos = IF a.type = "delete" THEN a.pos ELSE @,
     !.to = a.to]

\* What is left of an action that refused to merge.
Sealed(last, a) == [last EXCEPT !.mergeable = @ /\ last.type # a.type]

Init ==
  /\ text = <<>>
  /\ modified = FALSE
  /\ user_action_count = 0
  /\ modifying_action = 0
  /\ non_interactive = 0
  /\ undo_stack = <<>>
  /\ redo_stack = <<>>
  /\ frozen = 0
  /\ continue_group = 0
  /\ do_continue = FALSE
  /\ new_group = FALSE
  /\ walk = "none"
  /\ saved = <<>>

\* Without the reset of edit_action_destroy.
AfterDestroyKeeps(m, ids) == m

\* edit_action_destroy of the actions ids: what becomes of modifying_action m.
AfterDestroy(m, ids) == IF m \in ids THEN 0 ELSE m

\* moo_undo_stack_add_action for action a, and the destruction of what can no
\* longer be redone; m is modifying_action once a was created.  An action that
\* is merged is destroyed too: it is not modifying_action, see Merges.
AddAction(a, m) ==
  /\ undo_stack' =
       IF undo_stack = <<>> \/ new_group
         THEN Push([a EXCEPT !.opens = TRUE], undo_stack)
       ELSE IF Merges(undo_stack[1], a, m)
         THEN Push(Merged(undo_stack[1], a), Tail(undo_stack))
       ELSE Push([a EXCEPT !.opens = ~do_continue],
                 Push(Sealed(undo_stack[1], a), Tail(undo_stack)))
  /\ redo_stack' = <<>>
  /\ modifying_action' = AfterDestroy(m, IdsOf(redo_stack))
  /\ new_group' = FALSE
  /\ do_continue' = (do_continue \/ continue_group > 0)

\* moo_text_buffer_insert_text and moo_text_buffer_delete_range: the text becomes
\* t by an action of the given type.  GTK sets the modified flag.
EditText(type, p, s, forward, t) ==
  /\ walk = "none"
  /\ Len(t) <= MaxLength
  /\ text' = t
  /\ modified' = TRUE
  /\ IF frozen > 0
       THEN UNCHANGED <<undo_stack, redo_stack, modifying_action, new_group, do_continue>>
       ELSE /\ FreeIds # {}
            /\ LET a == NewAction(type, p, s, forward, t) IN
               AddAction(a, IF modified THEN modifying_action ELSE a.id)
  /\ UNCHANGED <<user_action_count, non_interactive, frozen, continue_group, walk, saved>>

Insert(p, s) ==
  /\ p \in 0 .. Len(text)
  /\ s # <<>>
  /\ EditText("insert", p, s, FALSE, InsertAt(text, p, s))

\* forward: the cursor is not behind the text that is deleted (the Delete key).
Delete(p, n, forward) ==
  /\ n > 0
  /\ p + n <= Len(text)
  /\ EditText("delete", p, SubSeq(text, p + 1, p + n), forward, DeleteAt(text, p, n))

\* action_undo_or_redo for action a, after the text has changed; the second
\* assertion returns when a modifying_action is left over.
UndoOrRedo(a) ==
  /\ modified' = ~(modified /\ modifying_action = a.id)
  /\ modifying_action' = IF ~modified /\ modifying_action = 0 THEN a.id
                         ELSE IF modified /\ modifying_action = a.id THEN 0
                         ELSE modifying_action

\* moo_undo_stack_undo_real and moo_undo_stack_redo_real up to the first action.
StartWalk(direction) ==
  /\ walk = "none"
  /\ direction = "undo" => undo_stack # <<>>
  /\ direction = "redo" => redo_stack # <<>>
  /\ walk' = direction
  /\ frozen' = frozen + 1
  /\ new_group' = TRUE
  /\ UNCHANGED <<undo_stack, redo_stack, continue_group, do_continue, bufferVars, saved>>

\* A walk that stops after one action of the group.
EndWalkEarly(last) ==
  /\ walk' = "none"
  /\ frozen' = frozen - 1

\* A walk that forgets to thaw the stack.
EndWalkFrozen(last) ==
  /\ walk' = IF last THEN "none" ELSE walk
  /\ frozen' = frozen

EndWalk(last) ==
  /\ walk' = IF last THEN "none" ELSE walk
  /\ frozen' = IF last THEN frozen - 1 ELSE frozen

\* One turn of the loop of action_group_undo.
UndoAction ==
  LET a == undo_stack[1] IN
  /\ walk = "undo"
  /\ undo_stack' = Tail(undo_stack)
  /\ redo_stack' = Push(a, redo_stack)
  /\ text' = Undone(a, text)
  /\ UndoOrRedo(a)
  /\ EndWalk(a.opens)
  /\ UNCHANGED <<user_action_count, non_interactive, continue_group, do_continue,
                 new_group, saved>>

\* One turn of the loop of action_group_redo.
RedoAction ==
  LET a == redo_stack[1]
      rest == Tail(redo_stack)
  IN
  /\ walk = "redo"
  /\ redo_stack' = rest
  /\ undo_stack' = Push(a, undo_stack)
  /\ text' = Redone(a, text)
  /\ UndoOrRedo(a)
  /\ EndWalk(rest = <<>> \/ rest[1].opens)
  /\ UNCHANGED <<user_action_count, non_interactive, continue_group, do_continue,
                 new_group, saved>>

\* Without moo_text_buffer_modified_changed.
SetModifiedKeeps(b) ==
  /\ walk = "none"
  /\ b # modified
  /\ modified' = b
  /\ saved' = IF b THEN saved ELSE text
  /\ UNCHANGED <<stackVars, text, modifying_action, user_action_count, non_interactive, walk>>

\* gtk_text_buffer_set_modified, by saving, loading or a script.
SetModified(b) ==
  /\ walk = "none"
  /\ b # modified
  /\ modified' = b
  /\ modifying_action' = IF b THEN modifying_action ELSE 0
  /\ saved' = IF b THEN saved ELSE text
  /\ UNCHANGED <<stackVars, text, user_action_count, non_interactive, walk>>

\* gtk_text_buffer_begin_user_action emits the signal for the outermost one.
BeginUserAction ==
  /\ walk = "none"
  /\ user_action_count < MaxNesting
  /\ user_action_count' = user_action_count + 1
  /\ continue_group' = IF user_action_count = 0 THEN continue_group + 1 ELSE continue_group
  /\ UNCHANGED <<undo_stack, redo_stack, frozen, do_continue, new_group, text, modified,
                 modifying_action, non_interactive, walk, saved>>

EndUserAction ==
  /\ walk = "none"
  /\ user_action_count > 0
  /\ user_action_count' = user_action_count - 1
  /\ IF user_action_count = 1
       THEN /\ continue_group' = continue_group - 1
            /\ do_continue' = (do_continue /\ continue_group > 1)
       ELSE UNCHANGED <<continue_group, do_continue>>
  /\ UNCHANGED <<undo_stack, redo_stack, frozen, new_group, text, modified,
                 modifying_action, non_interactive, walk, saved>>

\* moo_undo_stack_freeze clears the stacks, moo_undo_stack_clear destroys the
\* actions.
BeginNonUndoableAction ==
  /\ walk = "none"
  /\ frozen < MaxNesting
  /\ frozen' = frozen + 1
  /\ IF frozen = 0
       THEN /\ undo_stack' = <<>>
            /\ redo_stack' = <<>>
            /\ modifying_action' =
                 AfterDestroy(modifying_action, IdsOf(undo_stack) \cup IdsOf(redo_stack))
            /\ new_group' = FALSE
       ELSE UNCHANGED <<undo_stack, redo_stack, modifying_action, new_group>>
  /\ UNCHANGED <<continue_group, do_continue, text, modified, user_action_count,
                 non_interactive, walk, saved>>

EndNonUndoableAction ==
  /\ walk = "none"
  /\ frozen > 0
  /\ frozen' = frozen - 1
  /\ UNCHANGED <<undo_stack, redo_stack, continue_group, do_continue, new_group,
                 bufferVars, walk, saved>>

NonInteractive(n) ==
  /\ walk = "none"
  /\ n \in Nesting
  /\ non_interactive' = n
  /\ n = non_interactive + 1 \/ n + 1 = non_interactive
  /\ UNCHANGED <<stackVars, text, modified, user_action_count, modifying_action, walk, saved>>

Brackets ==
  \/ BeginUserAction \/ EndUserAction
  \/ BeginNonUndoableAction \/ EndNonUndoableAction
  \/ \E n \in Nesting : NonInteractive(n)

Walks ==
  \/ \E direction \in {"undo", "redo"} : StartWalk(direction)
  \/ UndoAction \/ RedoAction

Next ==
  \/ \E p \in 0 .. Len(text), n \in 1 .. MaxLength :
       \E s \in [1 .. n -> Char] : Insert(p, s)
  \/ \E p \in 0 .. Len(text), n \in 1 .. MaxLength, forward \in BOOLEAN :
       Delete(p, n, forward)
  \/ Walks
  \/ Brackets
  \/ \E b \in BOOLEAN : SetModified(b)

Spec == Init /\ [][Next]_vars

-----------------------------------------------------------------------------
(* Properties *)

\* The types of the buffer and of its undo stack.
TypeOK ==
  /\ text \in Text
  /\ modified \in BOOLEAN
  /\ user_action_count \in Nesting
  /\ modifying_action \in ActionIds \cup {0}
  /\ non_interactive \in Nesting
  /\ undo_stack \in Seq(Action)
  /\ redo_stack \in Seq(Action)
  /\ frozen \in 0 .. MaxNesting + 1
  /\ continue_group \in Nesting
  /\ do_continue \in BOOLEAN
  /\ new_group \in BOOLEAN
  /\ walk \in {"none", "undo", "redo"}
  /\ saved \in Text

\* The text is the one between the two stacks, each action leads from the text
\* its neighbour leads to, and undoing or redoing an action does what it says.
Chained ==
  /\ \A k \in DOMAIN undo_stack :
       LET a == undo_stack[k] IN
       /\ a.to = IF k = 1 THEN text ELSE undo_stack[k - 1].from
       /\ Undone(a, a.to) = a.from
       /\ Redone(a, a.from) = a.to
  /\ \A k \in DOMAIN redo_stack :
       LET a == redo_stack[k] IN
       /\ a.from = IF k = 1 THEN text ELSE redo_stack[k - 1].to
       /\ Undone(a, a.to) = a.from
       /\ Redone(a, a.from) = a.to

\* A buffer that says it is unmodified has the text it had when it was last
\* saved, loaded or marked unmodified, however undo and redo led there: the
\* editor closes and reloads such documents without asking.
ModifiedTruthful == modified \/ text = saved

\* modifying_action is never a freed action, and it leads away from the saved
\* text in the direction in which the stacks are walked; the assertion of
\* action_undo_or_redo on it holds.
ModifyingActionLive ==
  /\ ~modified => modifying_action = 0
  /\ modifying_action # 0 =>
       \/ \E k \in DOMAIN undo_stack :
            undo_stack[k].id = modifying_action /\ undo_stack[k].from = saved
       \/ \E k \in DOMAIN redo_stack :
            redo_stack[k].id = modifying_action /\ redo_stack[k].to = saved

\* Between an undo or redo and the next no group is torn between the stacks, and
\* a frozen stack is empty.
GroupsWhole ==
  walk = "none" =>
    /\ undo_stack # <<>> => undo_stack[Len(undo_stack)].opens
    /\ redo_stack # <<>> => redo_stack[1].opens
    /\ frozen > 0 => undo_stack = <<>> /\ redo_stack = <<>>

PositionOf(id, stack) == CHOOSE k \in DOMAIN stack : stack[k].id = id

\* Where undo or redo find the saved text.
CleanPlace ==
  IF ~modified THEN Len(undo_stack)
  ELSE IF modifying_action \in IdsOf(undo_stack)
    THEN Len(undo_stack) - PositionOf(modifying_action, undo_stack)
  ELSE IF modifying_action \in IdsOf(redo_stack)
    THEN Len(undo_stack) + PositionOf(modifying_action, redo_stack)
  ELSE Lost

History == INSTANCE EditHistory WITH
  past <- [k \in DOMAIN undo_stack |-> undo_stack[k].from],
  here <- text,
  ahead <- [k \in DOMAIN redo_stack |-> redo_stack[k].to],
  clean <- CleanPlace

\* The buffer keeps the promise of EditHistory: undo and redo move along the
\* texts the edits led through, and the buffer becomes unmodified exactly where
\* it was.
ImplementsHistory == History!HistorySpec
==============================================================================
