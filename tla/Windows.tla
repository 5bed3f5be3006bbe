------------------------------- MODULE Windows -------------------------------
(***************************************************************************)
(* Windows, their tabs, and the end of the program: MooEditor's list of    *)
(* windows and its closing functions (moo/mooedit/mooeditor.cpp), the tabs *)
(* of MooEditWindow (mooeditwindow.cpp), quitting and the session file of  *)
(* MooApp (moo/mooapp/mooapp.cpp).                                         *)
(*                                                                         *)
(* Closing asks questions in modal dialogs, each a nested main loop.  A    *)
(* window has a GtkWindowGroup of its own (mooeditwindow.cpp:1015), so a   *)
(* dialog blocks its window only: meanwhile the user works in the others,  *)
(* another instance sends files, the session manager asks to quit, a       *)
(* signal arrives.  stack holds the handlers that wait, the innermost      *)
(* last; an answer to a dialog counts when its handler is the innermost.   *)
(*                                                                         *)
(* The order of tabs is left out, and any tab of a window may be its       *)
(* active one, any window the top one.  Sessions are used, autosync is     *)
(* off, no document prints; "modified" is modified and not marked clean.   *)
(***************************************************************************)
EXTENDS Naturals, FiniteSets, Sequences, SequencesExt

CONSTANTS
  Wins,       \* windows
  Docs,       \* documents
  Files,      \* names of files
  NoWin,      \* no window
  Untitled,   \* the name of a document that has none
  Closed,     \* the name of a document that does not exist
  NoSession,  \* NULL for app->priv->session, no file for the session file
  MaxDocs,    \* bound: documents open after one more was asked for
  MaxNesting  \* bound: handlers that wait when a command or a signal comes

ASSUME WindowsAssumption ==
  /\ IsFiniteSet(Docs) /\ Docs # {}
  /\ Wins # {}
  /\ Untitled \notin Files
  /\ Closed \notin Files \cup {Untitled}
  /\ NoSession \notin Seq(SUBSET (Files \cup {Untitled}))
  /\ MaxDocs \in Nat /\ MaxNesting \in Nat

VARIABLES
  windows,      \* editor->priv->windows
  tabs,         \* the documents of each window
  file,         \* the name of each document
  modified,     \* the documents find_modified finds
  stack,        \* the handlers under way
  running,      \* app->priv->running
  in_try_quit,
  saved_session_in_try_quit,
  session,      \* app->priv->session
  sessionFile,  \* what the session file holds
  outcome       \* how the program ended; "none" before that

vars == <<windows, tabs, file, modified, stack, running, in_try_quit,
          saved_session_in_try_quit, session, sessionFile, outcome>>

\* A handler: docs are those to close, ask those the question on the screen
\* names, saving those still to be saved, rest the windows close_all has
\* left, why whose close_all it is.  held is only for SessionKept: the files
\* that were open when the program was told to quit.
Handler == [proc : {"close_docs", "close_window", "close_all"},
            win : Wins \cup {NoWin}, docs : SUBSET Docs, ask : SUBSET Docs,
            saving : SUBSET Docs, rest : Seq(Wins),
            why : {"try", "do", "signal"}, held : SUBSET Files]

(***************************************************************************)
(* Handlers call each other, so what they do is written on one record of   *)
(* the program's state; Becomes makes it the next state.                   *)
(***************************************************************************)
State ==
  [windows |-> windows, tabs |-> tabs, file |-> file, modified |-> modified,
   stack |-> stack, running |-> running, in_try_quit |-> in_try_quit,
   saved_session_in_try_quit |-> saved_session_in_try_quit,
   session |-> session, sessionFile |-> sessionFile, outcome |-> outcome]

\* The process is gone, whatever it was doing; the session file stays.
Gone(s, how) ==
  [s EXCEPT !.windows = <<>>, !.tabs = [w \in Wins |-> {}],
            !.file = [d \in Docs |-> Closed], !.modified = {}, !.stack = <<>>,
            !.running = FALSE, !.in_try_quit = FALSE,
            !.saved_session_in_try_quit = FALSE, !.session = NoSession,
            !.outcome = how]

Becomes(t) ==
  LET s == IF t.outcome = "closed_twice" THEN Gone(t, t.outcome) ELSE t
  IN /\ windows' = s.windows /\ tabs' = s.tabs /\ file' = s.file
     /\ modified' = s.modified /\ stack' = s.stack /\ running' = s.running
     /\ in_try_quit' = s.in_try_quit
     /\ saved_session_in_try_quit' = s.saved_session_in_try_quit
     /\ session' = s.session /\ sessionFile' = s.sessionFile
     /\ outcome' = s.outcome

Push(s, h) == [s EXCEPT !.stack = Append(@, h)]
Pop(s) == [s EXCEPT !.stack = Front(@)]
Top == Last(stack)
Listed(s) == ToSet(s.windows)

OpenFiles(s) == {s.file[d] : d \in Docs} \cap Files
FilesIn(s, w) == {s.file[d] : d \in s.tabs[w]} \cap Files
Empty(s, d) == s.file[d] = Untitled /\ d \notin s.modified

\* Documents and windows that handlers hold references to are not reused.
FreeDocs(s) ==
  {d \in Docs : s.file[d] = Closed /\ \A h \in ToSet(s.stack) : d \notin h.docs}
FreeWins(s) ==
  {w \in Wins \ Listed(s) : \A h \in ToSet(s.stack) : w # h.win /\ w \notin ToSet(h.rest)}
FreshDoc(s) == CHOOSE d \in FreeDocs(s) : TRUE
FreshWin(s) == CHOOSE w \in FreeWins(s) : TRUE

InsertDoc(s, w, d, name) ==
  [s EXCEPT !.tabs[w] = @ \cup {d}, !.file[d] = name]

CreateWindow(s, w) == [s EXCEPT !.windows = Append(@, w)]

NewDocIn(s, w) == InsertDoc(s, w, FreshDoc(s), Untitled)

(***************************************************************************)
(* The session lists, for each window, the names of its documents.         *)
(***************************************************************************)
SaveSession(s) ==
  [s EXCEPT !.session =
     [i \in DOMAIN s.windows |-> {s.file[d] : d \in s.tabs[s.windows[i]]}]]

WriteSession(s) == [s EXCEPT !.sessionFile = s.session]

SessionFiles(l) ==
  IF l = NoSession THEN {} ELSE (UNION {l[i] : i \in DOMAIN l}) \cap Files

\* load_window_session, for the i-th window of the list: files that cannot be
\* read are skipped, files that are open already stay where they are; a file
\* may take the place of the empty document before it (taken).
Restored(l, i, missing, taken) ==
  LET files == (l[i] \cap Files) \ (missing \cup UNION {l[j] : j \in 1 .. i - 1})
  IN IF taken /\ files # {} THEN files ELSE files \cup (l[i] \cap {Untitled})

Places(l, missing, taken) ==
  UNION {{i} \X Restored(l, i, missing, taken) : i \in DOMAIN l}

NoPlace == <<0, Closed>>

\* New windows ws, one for each of the list, and new documents for the names
\* in them: place is where each document goes, if it is one of them.
LoadSession(s, ws, place) ==
  [s EXCEPT !.windows = ws,
            !.tabs = [w \in Wins |->
                        {d \in Docs : \E i \in DOMAIN ws : ws[i] = w /\ place[d][1] = i}],
            !.file = [d \in Docs |-> place[d][2]]]

(***************************************************************************)
(* Closing                                                                 *)
(***************************************************************************)
FindModified(s, D) == D \cap s.modified

WindowlessAssertion(s, D) == \A d \in D : \E w \in Listed(s) : d \in s.tabs[w]

DoCloseDocs(s, D) ==
  [s EXCEPT !.tabs = [w \in Wins |-> @[w] \ D],
            !.file = [d \in Docs |-> IF d \in D THEN Closed ELSE @[d]],
            !.modified = @ \ D,
            !.outcome = IF WindowlessAssertion(s, D) THEN @ ELSE "closed_twice"]

\* The end of moo_app_do_quit; handlers further out are still to return.
DoneQuit(s) == [Gone(WriteSession(s), "quit") EXCEPT !.stack = s.stack]

WillCloseWindow(s) ==
  IF s.running /\ ~s.saved_session_in_try_quit /\ Len(s.windows) = 1
  THEN SaveSession(s) ELSE s

\* With no window left moo_app_quit finds nothing to ask.
AfterCloseWindow(s) ==
  IF s.running /\ ~s.in_try_quit /\ s.windows = <<>> THEN DoneQuit(s) ELSE s

DoCloseWindow(s, w) ==
  LET closed == DoCloseDocs(WillCloseWindow(s), s.tabs[w])
      i == CHOOSE i \in DOMAIN s.windows : s.windows[i] = w
  IN AfterCloseWindow([closed EXCEPT !.windows = RemoveAt(@, i)])

\* Mutant: a window whose last document was closed is left as it is.
RefilledNever(s, w) == s

Refilled(s, w) == IF s.tabs[w] = {} THEN NewDocIn(s, w) ELSE s

\* moo_app_do_quit begins: it closes every window, and does not look at the
\* result.
BeginDoQuit(s, why, held) ==
  Push([s EXCEPT !.running = FALSE],
       [proc |-> "close_all", win |-> NoWin, docs |-> {},
        ask |-> {}, saving |-> {}, rest |-> s.windows, why |-> why, held |-> held])

\* Mutant: the flag of a quit that was cancelled stays.
TryQuitDoneKeepsFlag(s) == [s EXCEPT !.saved_session_in_try_quit = FALSE]

TryQuitDone(s) ==
  [s EXCEPT !.saved_session_in_try_quit = FALSE, !.in_try_quit = FALSE]

\* _moo_editor_close_all returns ok to moo_app_try_quit or moo_app_do_quit.
CloseAllReturns(s, ok) ==
  LET h == Last(s.stack)
      t == Pop(s)
  IN CASE h.why = "try" /\ ok -> BeginDoQuit(TryQuitDone(t), "do", h.held)
       [] h.why = "try" /\ ~ok -> TryQuitDone(t)
       [] h.why = "do" -> DoneQuit(t)
       [] OTHER -> Gone(WriteSession(t), "signal")

\* A handler returns to the close_all it was called by, if it was.
Return(s, ok) ==
  IF s.stack = <<>> \/ Last(s.stack).proc # "close_all" THEN s
  ELSE IF ok THEN [s EXCEPT !.stack[Len(s.stack)].rest = Tail(@)]
       ELSE CloseAllReturns(s, FALSE)

\* Nothing is left to ask.
Proceed(s) ==
  LET h == Last(s.stack)
      t == Pop(s)
  IN IF h.proc = "close_docs"
     THEN LET closed == DoCloseDocs(t, h.docs)
          IN IF closed.outcome = "none" THEN Refilled(closed, h.win) ELSE closed
     ELSE Return(IF h.win \in Listed(t) THEN DoCloseWindow(t, h.win) ELSE t, TRUE)

Begin(s, proc, w, D, held) ==
  LET ask == FindModified(s, D)
      t == Push(s, [proc |-> proc, win |-> w, docs |-> D, ask |-> ask,
                    saving |-> {}, rest |-> <<>>, why |-> "do", held |-> held])
  IN IF ask = {} THEN Proceed(t) ELSE t

CloseDocs(s, w, D) == Begin(s, "close_docs", w, D, {})

CloseWindow(s, w, held) ==
  IF w \in Listed(s) THEN Begin(s, "close_window", w, s.tabs[w], held)
  ELSE Return(s, TRUE)

\* Mutant: saved_session_in_try_quit is not set, so that closing the last
\* window saves the session again.
TryQuitSavesTwice(s) ==
  LET t == SaveSession([s EXCEPT !.in_try_quit = TRUE])
  IN Push(t, [proc |-> "close_all", win |-> NoWin, docs |-> {}, ask |-> {},
              saving |-> {}, rest |-> t.windows, why |-> "try",
              held |-> OpenFiles(s)])

TryQuit(s) ==
  LET t == SaveSession([s EXCEPT !.in_try_quit = TRUE,
                                 !.saved_session_in_try_quit = TRUE])
  IN Push(t, [proc |-> "close_all", win |-> NoWin, docs |-> {},
              ask |-> {}, saving |-> {}, rest |-> t.windows, why |-> "try",
              held |-> OpenFiles(s)])

(***************************************************************************)
(* The program goes on by itself: _moo_editor_close_all                    *)
(***************************************************************************)
Waiting == stack # <<>> => Top.proc # "close_all"

CloseAllStep ==
  /\ ~Waiting
  /\ outcome = "none"
  /\ Becomes(IF Top.rest = <<>> THEN CloseAllReturns(State, TRUE)
             ELSE CloseWindow(State, Head(Top.rest), Top.held))

(***************************************************************************)
(* Answers to the innermost question                                       *)
(***************************************************************************)
Asking == outcome = "none" /\ stack # <<>> /\ Top.proc # "close_all" /\ Top.saving = {}
Saving == outcome = "none" /\ stack # <<>> /\ Top.saving # {}

Discard ==
  /\ Asking
  /\ Becomes(Proceed(State))

CancelClose ==
  /\ Asking
  /\ Becomes(Return(Pop(State), FALSE))

\* With one document there is nothing to choose; of several, some are
\* chosen and the others discarded.
SaveSelected ==
  /\ Asking
  /\ \E D \in (SUBSET Top.ask) \ {{}} :
       Becomes([State EXCEPT !.stack[Len(stack)].saving = D])

\* moo_editor_save of one of them, with the dialogs it may show.
Saved(s, d, f) ==
  IF s.file[d] = Closed THEN s
  ELSE [s EXCEPT !.file[d] = f, !.modified = @ \ {d}]

NamesFor(d) == IF file[d] = Untitled THEN Files ELSE {file[d]}

SaveOne ==
  /\ Saving
  /\ \E d \in Top.saving : \E f \in NamesFor(d) :
       LET s == Saved([State EXCEPT !.stack[Len(stack)].saving = @ \ {d}], d, f)
       IN Becomes(IF Last(s.stack).saving = {} THEN Proceed(s) ELSE s)

SaveFails ==
  /\ Saving
  /\ Becomes(Return(Pop(State), FALSE))

\* A handler further out resumes after the editor was freed.
ResumeFreed ==
  /\ outcome = "quit"
  /\ stack # <<>>
  /\ Becomes(Gone(State, "freed"))

(***************************************************************************)
(* The user, in a window no dialog blocks                                  *)
(***************************************************************************)
\* Mutant: the dialog is not in the group of the window.
BlockedNever(w) == FALSE

Blocked(w) == \E h \in ToSet(stack) : h.win = w

Usable == IF outcome = "none" /\ Waiting THEN {w \in Listed(State) : ~Blocked(w)} ELSE {}

SpareDoc ==
  /\ FreeDocs(State) # {}
  /\ Cardinality({d \in Docs : file[d] # Closed}) < MaxDocs

NextWin == {w \in FreeWins(State) : w = FreshWin(State)}

MayNest == Len(stack) < MaxNesting

Type ==
  \E w \in Usable : \E d \in tabs[w] \ modified :
    Becomes([State EXCEPT !.modified = @ \cup {d}])

SaveCommand ==
  \E w \in Usable : \E d \in tabs[w] \cap modified : \E f \in NamesFor(d) :
    Becomes(Saved(State, d, f))

NewDoc ==
  /\ SpareDoc
  /\ \E w \in Usable : Becomes(NewDocIn(State, w))

NewWindow ==
  /\ SpareDoc
  /\ Usable # {}
  /\ \E w \in NextWin : Becomes(NewDocIn(CreateWindow(State, w), w))

\* Close, Close Others, Close All: some of the documents of one window.
CloseDocsCommand ==
  /\ MayNest
  /\ \E w \in Usable : \E D \in (SUBSET tabs[w]) \ {{}} :
       Becomes(CloseDocs(State, w, D))

CloseWindowCommand ==
  /\ MayNest
  /\ \E w \in Usable : Becomes(CloseWindow(State, w, {}))

\* The document leaves its window, which closes if nothing is left in it;
\* an empty document that is active at the place it goes to is closed.
MovedDoc(s, d, old, dest) ==
  LET left == [s EXCEPT !.tabs[old] = @ \ {d}]
      t == IF left.tabs[old] = {} THEN DoCloseWindow(left, old) ELSE left
  IN InsertDoc(t, dest, d, s.file[d])

MoveDoc ==
  \E old, dest \in Usable : \E d \in tabs[old], there \in tabs[dest] :
    /\ old # dest
    /\ LET s == MovedDoc(State, d, old, dest)
       IN Becomes(IF Empty(State, there) THEN DoCloseDocs(s, {there}) ELSE s)

Detach ==
  /\ FreeDocs(State) # {}
  /\ \E old \in Usable : \E d \in tabs[old] :
       \E dest \in NextWin :
         LET s == NewDocIn(CreateWindow(State, dest), dest)
             empty == s.tabs[dest]
         IN Becomes(DoCloseDocs(MovedDoc(s, d, old, dest), empty))

(***************************************************************************)
(* Requests that come from outside, or from any window                     *)
(***************************************************************************)
\* A file takes the place of an empty active document, else it gets a
\* document of its own, in a new window if the request says so.  A file
\* that is open already is only shown.
OpenFile ==
  /\ Waiting
  /\ outcome = "none"
  /\ SpareDoc
  /\ \E f \in Files \ OpenFiles(State) :
       \/ \E w \in Listed(State) : \E d \in tabs[w] :
            Becomes(IF Empty(State, d) THEN [State EXCEPT !.file[d] = f]
                    ELSE InsertDoc(State, w, FreshDoc(State), f))
       \/ \E w \in NextWin :
            Becomes(InsertDoc(CreateWindow(State, w), w, FreshDoc(State), f))

\* moo_app_quit, from a menu or from the session manager
Quit ==
  /\ Waiting
  /\ outcome = "none"
  /\ MayNest
  /\ running /\ ~in_try_quit
  /\ Becomes(TryQuit(State))

\* check_signal; not again from the main loops under it.
CheckSignal ==
  /\ Waiting
  /\ outcome = "none"
  /\ MayNest
  /\ \A h \in ToSet(stack) : h.why # "signal"
  /\ Becomes(IF running THEN BeginDoQuit(State, "signal", {})
             ELSE Gone(State, "signal"))

Kill ==
  /\ outcome = "none"
  /\ Becomes(Gone(State, "killed"))

(***************************************************************************)
(* The program starts: moo_app_load_session, then a window if there is     *)
(* none.                                                                   *)
(***************************************************************************)
Started(s) ==
  LET t == [s EXCEPT !.running = TRUE, !.outcome = "none"]
      w == FreshWin(t)
  IN IF t.windows = <<>> THEN NewDocIn(CreateWindow(t, w), w) ELSE t

Start ==
  /\ outcome # "none"
  /\ stack = <<>>
  /\ LET l == IF sessionFile = NoSession THEN <<>> ELSE sessionFile
     IN \E missing \in SUBSET SessionFiles(sessionFile), taken \in BOOLEAN :
          LET places == Places(l, missing, taken)
          IN \E ws \in [DOMAIN l -> Wins], place \in [Docs -> places \cup {NoPlace}] :
               /\ IsInjective(ws)
               /\ \A p \in places : \E d \in Docs : \A e \in Docs : place[e] = p <=> e = d
               /\ Becomes(Started(LoadSession(State, ws, place)))

Init ==
  /\ windows = <<>> /\ tabs = [w \in Wins |-> {}]
  /\ file = [d \in Docs |-> Closed] /\ modified = {}
  /\ stack = <<>> /\ running = FALSE
  /\ in_try_quit = FALSE /\ saved_session_in_try_quit = FALSE
  /\ session = NoSession /\ sessionFile = NoSession
  /\ outcome = "quit"

Next ==
  \/ CloseAllStep \/ Discard \/ CancelClose \/ SaveSelected \/ SaveOne \/ SaveFails
  \/ ResumeFreed
  \/ Type \/ SaveCommand \/ NewDoc \/ NewWindow \/ CloseDocsCommand
  \/ CloseWindowCommand \/ MoveDoc \/ Detach
  \/ OpenFile \/ Quit \/ CheckSignal \/ Kill \/ Start

Spec == Init /\ [][Next]_vars

-----------------------------------------------------------------------------
(***************************************************************************)
(* Properties                                                              *)
(***************************************************************************)
\* The flags of MooApp say what is under way, whatever dialogs and requests
\* nest: a quit that was cancelled, or that a signal overtook, never leaves
\* the program unable to quit or to save its session (moo_app_try_quit).
FlagsTruthful ==
  outcome = "none" =>
    /\ in_try_quit <=> \E h \in ToSet(stack) : h.proc = "close_all" /\ h.why = "try"
    /\ saved_session_in_try_quit <=> in_try_quit
    /\ running <=> ~\E h \in ToSet(stack) :
                      h.proc = "close_all" /\ h.why \in {"do", "signal"}

\* Unsaved changes go only with the documents that the question just
\* answered named (close_docs_real, moo_editor_before_close_window,
\* do_close_window): no document that came or changed while the question was up
\* goes with them.  The end of the program is left out: signals, and the second
\* round of a quit that moo_app_do_quit makes, drop changes in spite of a Cancel.
AskedFirst ==
  [][\A d \in modified :
       /\ file'[d] = Closed
       /\ outcome' \in (IF running THEN {"none", "quit"} ELSE {"none"})
       => stack # <<>> /\ d \in Top.ask]_vars

\* A window that has a tab keeps one as long as it is listed: closing its
\* last document gives it an empty one, moving its last document away
\* closes it (moo_editor_close_docs, _moo_editor_move_doc).
NeverEmptied ==
  [][\A w \in Listed(State) :
       w \in Listed(State)' /\ tabs[w] # {} => tabs'[w] # {}]_vars

\* When the program ends on its own terms, the session file lists the files
\* that were open when it was told to quit, or in its last window when that
\* was closed, whatever happened under the dialogs in between
\* (moo_app_try_quit, editor_will_close_window, moo_app_write_session).
SessionKept ==
  [][outcome = "none" /\ outcome' = "quit" =>
       (IF running THEN OpenFiles(State) ELSE Top.held)
         \subseteq SessionFiles(sessionFile')]_vars
=============================================================================
