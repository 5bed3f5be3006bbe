------------------------------- MODULE DocSync -------------------------------
(***************************************************************************)
(* Documents and the disk: MooEdit, the file operations of                 *)
(* mooedit-fileops.cpp, the save/reload/close operations of MooEditor, the *)
(* autosync timer of mooedit.cpp, and their client side of MooFileWatch.   *)
(*                                                                         *)
(* The program has one thread and a main loop, but a modal dialog runs a   *)
(* nested main loop in the middle of a handler: timers and the poll of the *)
(* file watch are dispatched while the handler is suspended, and may       *)
(* reload or close the very document the dialog is about.  The variable    *)
(* stack is the call stack of handlers; each action is one function of the *)
(* source, from its entry or from the answer to a dialog up to its next    *)
(* call, dialog or return.  Other processes change the disk at any step.   *)
(***************************************************************************)
EXTENDS FileWatch, Sequences

CONSTANTS
  Texts,        \* document and file contents
  EmptyText,
  Undecodable,  \* file contents no encoding of the list decodes
  Strip,        \* what will_save makes of a text ("strip", "add-newline")
  Unencodable,  \* texts the encoding of a document may be unable to express
  FailingFiles, \* files whose writing may fail or be refused by a plugin
  CleanDocs,    \* documents a plugin may mark with moo_edit_set_clean
  Timers,       \* ids of GLib timeout sources other than 0
  Prefs,        \* values the preference AUTO_SYNC takes during the run
  MaxDepth,     \* bound on the depth of nested handlers
  QuitDepth     \* a quit comes under fewer handlers than this: 0 for never, 1
                \* for the outermost main loop only

\* The MooEdit objects are the clients of the watch.
Docs == Clients
NoDoc == NoClient

ASSUME DocSyncAssumption ==
  /\ EmptyText \in Texts
  /\ Undecodable \subseteq Texts
  /\ Unencodable \subseteq Texts
  /\ Strip \in [Texts -> Texts]
  /\ FailingFiles \subseteq Files
  /\ CleanDocs \subseteq Docs
  /\ Prefs \subseteq BOOLEAN
  /\ 0 \notin Timers
  /\ MaxDepth \in Nat
  /\ QuitDepth \in Nat

VARIABLES
  contents,  \* the bytes of each file
  doc,       \* MooEditPrivate of each document
  timers,    \* pending autosync sources and their document
  autoSync,  \* MOO_EDIT_PREFS_AUTO_SYNC
  stack,     \* handlers in progress, innermost first
  ret,       \* result of the call that returned last
  fault      \* a handler used a document that was already closed

docVars == <<contents, doc, timers, autoSync, stack, ret, fault>>
vars == <<watchVars, docVars>>

StatusFlags == {"MODIFIED_ON_DISK", "DELETED", "MODIFIED", "NEW", "CLEAN"}

CHANGED_ON_DISK == {"MODIFIED_ON_DISK", "DELETED"}

\* saved: the text as last read from or written to the document's file
Doc == [open              : BOOLEAN,
        filename          : Files \cup {NoFile},
        text              : Texts,
        saved             : Texts,
        buf_modified      : BOOLEAN,
        status            : SUBSET StatusFlags,
        file_monitor_id   : Ids \cup {0},
        modified_on_disk  : BOOLEAN,
        deleted_from_disk : BOOLEAN,
        sync_timeout_id   : Timers \cup {0}]

\* A MooEdit as g_object_new leaves it: untitled, empty.
FreshDoc ==
  [open              |-> TRUE,
   filename          |-> NoFile,
   text              |-> EmptyText,
   saved             |-> EmptyText,
   buf_modified      |-> FALSE,
   status            |-> {},
   file_monitor_id   |-> 0,
   modified_on_disk  |-> FALSE,
   deleted_from_disk |-> FALSE,
   sync_timeout_id   |-> 0]

ClosedDoc == [FreshDoc EXCEPT !.open = FALSE]

Dialogs == {"overwrite_modified_dialog", "save_as_dialog", "save_error_dialog",
            "save_error_enc_dialog", "reload_modified_dialog", "load_error_dialog",
            "try_encoding_dialog", "save_changes_dialog"}

Calls == {"save", "do_save", "save_utf8", "save_local", "reload", "load_file", "load_text",
          "close", "do_close_doc", "autosync_callback", "file_watch_callback",
          "do_stat", "close_all"}

\* A caller waiting for a call it made.
Resumes == {"close_after_save", "autosync_after_save", "new_doc_after_save_as",
            "open_after_load"}

\* code: the file event of a callback, or the user's leave to discard changes
Frame == [at   : Dialogs \cup Calls \cup Resumes,
          doc  : Docs \cup {NoDoc},
          file : Files \cup {NoFile},
          data : Texts,
          id   : Ids \cup {0},
          code : {"none", "changed", "deleted", "error", "discard"}]

Call(at, d) == [at |-> at, doc |-> d, file |-> NoFile, data |-> EmptyText,
                id |-> 0, code |-> "none"]

Idle == fault = "none" /\ stack = <<>>

\* The innermost handler is at label, and its document is still open.
At(label) ==
  /\ fault = "none"
  /\ stack # <<>>
  /\ stack[1].at = label
  /\ stack[1].doc \in Docs => doc[stack[1].doc].open

Asking(dialog) == fault = "none" /\ stack # <<>> /\ stack[1].at = dialog

\* The main loop runs, the outermost one or the one of a modal dialog.
MainLoop == fault = "none" /\ (stack # <<>> => stack[1].at \in Dialogs)

\* in_try_quit
Quitting == \E k \in DOMAIN stack : stack[k].at = "close_all"

\* How many handlers are in progress, a quit not counted.
Depth == Cardinality({k \in DOMAIN stack : stack[k].at # "close_all"})

Top == stack[1]
D == Top.doc

Push(frame) == stack' = <<frame>> \o stack
Goto(frame) == stack' = <<frame>> \o Tail(stack)
Return(r) == stack' = Tail(stack) /\ ret' = r

\* The handler on top closes a window, and not a document only: do_close_window
\* goes by the documents the window has after the question was answered.
ForWindow == Len(stack) > 1 /\ stack[2].at = "close_all"

\* The handler on top uses a document that is closed: do_close_doc fails its
\* assertion, any other handler reads an object that may have been freed.
UseAfterClose ==
  /\ fault = "none"
  /\ stack # <<>>
  /\ Top.at \notin Dialogs
  /\ D \in Docs
  /\ ~doc[D].open
  /\ ~(Top.at = "do_close_doc" /\ ForWindow)
  /\ fault' = IF Top.at = "do_close_doc" THEN "assert" ELSE "freed"
  /\ UNCHANGED <<watchVars, contents, doc, timers, autoSync, stack, ret>>

(***************************************************************************)
(* Pieces of handlers: the autosync timer and the file watch.              *)
(***************************************************************************)
FreeTimers(d) ==
  {t \in Timers : timers[t] = NoDoc /\ \A e \in Docs \ {d} : doc[e].sync_timeout_id # t}

RemoveTimer(t) == [u \in Timers |-> IF u = t THEN NoDoc ELSE timers[u]]

\* Mutant of Changed: the timer that runs is left running.
ChangedKeepsTimer(d, r) ==
  IF autoSync
    THEN /\ FreeTimers(d) # {}
         /\ LET t == CHOOSE u \in FreeTimers(d) : TRUE IN
            /\ doc' = [doc EXCEPT ![d] = [r EXCEPT !.sync_timeout_id = t]]
            /\ timers' = [timers EXCEPT ![t] = d]
    ELSE /\ doc' = [doc EXCEPT ![d] = r]
         /\ UNCHANGED timers

\* changed_cb, run on every change of the text of d; r is d after the change.
Changed(d, r) ==
  IF autoSync
    THEN /\ FreeTimers(d) # {}
         /\ LET t == CHOOSE u \in FreeTimers(d) : TRUE IN
            /\ doc' = [doc EXCEPT ![d] = [r EXCEPT !.sync_timeout_id = t]]
            /\ timers' = [RemoveTimer(doc[d].sync_timeout_id) EXCEPT ![t] = d]
    ELSE /\ doc' = [doc EXCEPT ![d] = r]
         /\ UNCHANGED timers

\* modified_changed_cb, run when the modified flag of the buffer flips to b.
ModifiedChanged(r, b) ==
  IF autoSync
    THEN [r EXCEPT !.buf_modified = b]
    ELSE [r EXCEPT !.buf_modified = b,
                   !.status = IF b THEN @ \cup {"MODIFIED"} ELSE @ \ {"MODIFIED"}]

\* gtk_text_buffer: the text of r becomes x, by an edit.
Edited(r, x) ==
  LET s == [r EXCEPT !.text = x] IN
  IF r.buf_modified THEN s ELSE ModifiedChanged(s, TRUE)

\* Mutant of WatchStopped: the monitor is forgotten and not cancelled.
WatchForgotten(d) == monitors

\* The table after _moo_edit_stop_file_watch (d).
WatchStopped(d) ==
  IF doc[d].file_monitor_id = 0
    THEN monitors
    ELSE Cancelled(monitors, doc[d].file_monitor_id)

StopFileWatch(d, r) ==
  /\ monitors' = WatchStopped(d)
  /\ doc' = [doc EXCEPT ![d] = [r EXCEPT !.file_monitor_id = 0]]
  /\ UNCHANGED <<fs, now, poll>>

\* The id _moo_edit_start_file_watch gets for file f: 0 when stat() fails.
StartedId(f) == IF Exists(f) THEN CHOOSE i \in FreshIds : TRUE ELSE 0

\* Mutant of StartFileWatch: the previous monitor is not stopped.
StartFileWatchAnew(d, f) ==
  /\ FreshIds # {}
  /\ monitors' = IF Exists(f) THEN Created(monitors, StartedId(f), f, d) ELSE monitors
  /\ UNCHANGED <<fs, now, poll>>

\* Mutant of StartFileWatch: the result of stat() is not looked at.
StartFileWatchBlind(d, f) ==
  /\ FreshIds # {}
  /\ monitors' = Created(WatchStopped(d), CHOOSE i \in FreshIds : TRUE, f, d)
  /\ UNCHANGED <<fs, now, poll>>

\* _moo_edit_start_file_watch for file f, except for the id stored in d.
StartFileWatch(d, f) ==
  /\ FreshIds # {}
  /\ monitors' = IF Exists(f) THEN Created(WatchStopped(d), StartedId(f), f, d)
                              ELSE WatchStopped(d)
  /\ UNCHANGED <<fs, now, poll>>

(***************************************************************************)
(* Saving: moo_editor_save, moo_editor_save_as, do_save.                   *)
(***************************************************************************)
Save ==
  /\ At("save")
  /\ Goto([Top EXCEPT !.file = doc[D].filename,
                      !.at = IF doc[D].filename = NoFile THEN "save_as_dialog"
                             ELSE IF "MODIFIED_ON_DISK" \in doc[D].status
                                    THEN "overwrite_modified_dialog"
                             ELSE "do_save"])
  /\ UNCHANGED <<watchVars, contents, doc, timers, autoSync, ret, fault>>

AnswerOverwriteModified(yes) ==
  /\ Asking("overwrite_modified_dialog")
  /\ IF yes THEN Goto([Top EXCEPT !.at = "do_save"]) /\ UNCHANGED ret
            ELSE Return(FALSE)
  /\ UNCHANGED <<watchVars, contents, doc, timers, autoSync, fault>>

AnswerSaveAs(f) ==
  /\ Asking("save_as_dialog")
  /\ IF f \in Files THEN Goto([Top EXCEPT !.at = "do_save", !.file = f]) /\ UNCHANGED ret
                    ELSE Return(FALSE)
  /\ UNCHANGED <<watchVars, contents, doc, timers, autoSync, fault>>

\* The document after moo_editor_will_save: stripping is an edit like another.
WillSave(r) == IF Strip[r.text] = r.text THEN r ELSE Edited(r, Strip[r.text])

\* A handler of before-save refuses.
CancelSave ==
  /\ At("do_save")
  /\ Top.file \in FailingFiles
  /\ Return(FALSE)
  /\ UNCHANGED <<watchVars, contents, doc, timers, autoSync, fault>>

\* do_write: the file is replaced by the text, or is left as it was.
DoWrite(text) ==
  /\ \/ /\ contents' = [contents EXCEPT ![Top.file] = text]
        /\ fs' = [fs EXCEPT ![Top.file] = [err |-> "none", mtime |-> now]]
        /\ Goto([Top EXCEPT !.at = "save_local", !.data = text])
     \/ /\ Top.file \in FailingFiles
        /\ Goto([Top EXCEPT !.at = "save_error_dialog"])
        /\ UNCHANGED <<contents, fs>>
  /\ UNCHANGED <<now, monitors, poll, autoSync, ret, fault>>

\* do_save up to the first result of do_save_local: g_convert fails when the
\* document's encoding lacks a character of the text.
DoSave ==
  LET r == WillSave(doc[D]) IN
  /\ At("do_save")
  /\ IF r = doc[D] THEN UNCHANGED <<doc, timers>> ELSE Changed(D, r)
  /\ \/ DoWrite(r.text)
     \/ /\ r.text \in Unencodable
        /\ Goto([Top EXCEPT !.at = "save_error_enc_dialog"])
        /\ UNCHANGED <<watchVars, contents, autoSync, ret, fault>>

AnswerSaveErrorEnc(yes) ==
  /\ Asking("save_error_enc_dialog")
  /\ IF yes THEN Goto([Top EXCEPT !.at = "save_utf8"]) /\ UNCHANGED ret
            ELSE Return(FALSE)
  /\ UNCHANGED <<watchVars, contents, doc, timers, autoSync, fault>>

\* do_save once more, in UTF-8: the text is what it is by now.
SaveUtf8 ==
  /\ At("save_utf8")
  /\ DoWrite(doc[D].text)
  /\ UNCHANGED <<doc, timers>>

AcknowledgeSaveError ==
  /\ Asking("save_error_dialog")
  /\ Return(FALSE)
  /\ UNCHANGED <<watchVars, contents, doc, timers, autoSync, fault>>

\* Mutant of SaveLocal: the buffer stays modified.
SaveLocalModified ==
  /\ At("save_local")
  /\ StartFileWatch(D, Top.file)
  /\ doc' = [doc EXCEPT ![D].status = {},
                        ![D].filename = Top.file,
                        ![D].saved = Top.data,
                        ![D].file_monitor_id = StartedId(Top.file)]
  /\ Return(TRUE)
  /\ UNCHANGED <<contents, timers, autoSync, fault>>

\* moo_edit_save_local once the file is written.
SaveLocal ==
  /\ At("save_local")
  /\ StartFileWatch(D, Top.file)
  /\ doc' = [doc EXCEPT ![D].status = {},
                        ![D].filename = Top.file,
                        ![D].buf_modified = FALSE,
                        ![D].saved = Top.data,
                        ![D].file_monitor_id = StartedId(Top.file)]
  /\ Return(TRUE)
  /\ UNCHANGED <<contents, timers, autoSync, fault>>

(***************************************************************************)
(* Loading: moo_editor_reload, _moo_edit_load_file, moo_edit_load_text.    *)
(***************************************************************************)
NeedsPrompt(d) == "MODIFIED" \in doc[d].status /\ "CLEAN" \notin doc[d].status

Reload ==
  /\ At("reload")
  /\ IF doc[D].filename = NoFile
       THEN Return(FALSE)
       ELSE /\ Goto([Top EXCEPT !.file = doc[D].filename,
                                !.at = IF NeedsPrompt(D) THEN "reload_modified_dialog"
                                                         ELSE "load_file"])
            /\ UNCHANGED ret
  /\ UNCHANGED <<watchVars, contents, doc, timers, autoSync, fault>>

AnswerReloadModified(yes) ==
  /\ Asking("reload_modified_dialog")
  /\ IF yes THEN Goto([Top EXCEPT !.at = "load_file"]) /\ UNCHANGED ret
            ELSE Return(FALSE)
  /\ UNCHANGED <<watchVars, contents, doc, timers, autoSync, fault>>

\* _moo_edit_load_file: read the file, convert it; failing, stop the watch.
LoadFile ==
  /\ At("load_file")
  /\ IF Exists(Top.file)
       THEN /\ Goto([Top EXCEPT !.data = contents[Top.file],
                                !.at = IF contents[Top.file] \in Undecodable
                                         THEN "try_encoding_dialog" ELSE "load_text"])
            /\ UNCHANGED <<watchVars, doc>>
       ELSE /\ Goto([Top EXCEPT !.at = "load_error_dialog"])
            /\ StopFileWatch(D, doc[D])
  /\ UNCHANGED <<contents, timers, autoSync, ret, fault>>

AcknowledgeLoadError ==
  /\ Asking("load_error_dialog")
  /\ Return(FALSE)
  /\ UNCHANGED <<watchVars, contents, doc, timers, autoSync, fault>>

AnswerTryEncoding ==
  /\ Asking("try_encoding_dialog")
  /\ Goto([Top EXCEPT !.at = "load_text"])
  /\ UNCHANGED <<watchVars, contents, doc, timers, autoSync, ret, fault>>

CancelTryEncoding ==
  /\ Asking("try_encoding_dialog")
  /\ doc[D].open
  /\ StopFileWatch(D, doc[D])
  /\ Return(FALSE)
  /\ UNCHANGED <<contents, timers, autoSync, fault>>

\* moo_edit_load_text, and moo_edit_reload_local which repeats its last steps.
\* The buffer says it changed when there was text to delete or to insert.
LoadText ==
  LET loaded == [doc[D] EXCEPT !.text = Top.data,
                               !.saved = Top.data,
                               !.buf_modified = FALSE,
                               !.status = {},
                               !.filename = Top.file,
                               !.file_monitor_id = StartedId(Top.file)]
  IN
  /\ At("load_text")
  /\ StartFileWatch(D, Top.file)
  /\ IF {doc[D].text, Top.data} = {EmptyText}
       THEN doc' = [doc EXCEPT ![D] = loaded] /\ UNCHANGED timers
       ELSE Changed(D, loaded)
  /\ Return(TRUE)
  /\ UNCHANGED <<contents, autoSync, fault>>

(***************************************************************************)
(* Closing: moo_editor_close_doc, close_docs_real, do_close_doc; and what  *)
(* a quit does with each window, moo_editor_before_close_window (the same  *)
(* question) and do_close_window.                                          *)
(***************************************************************************)
Close ==
  /\ At("close")
  /\ Goto([Top EXCEPT !.at = IF NeedsPrompt(D) THEN "save_changes_dialog"
                                               ELSE "do_close_doc"])
  /\ UNCHANGED <<watchVars, contents, doc, timers, autoSync, ret, fault>>

AnswerSaveChanges(answer) ==
  /\ Asking("save_changes_dialog")
  /\ CASE answer = "save"    -> /\ stack' = <<Call("save", D),
                                               [Top EXCEPT !.at = "close_after_save"]>>
                                             \o Tail(stack)
                                /\ UNCHANGED ret
       [] answer = "discard" -> /\ Goto([Top EXCEPT !.at = "do_close_doc", !.code = answer])
                                /\ UNCHANGED ret
       [] answer = "cancel"  -> Return(FALSE)
  /\ UNCHANGED <<watchVars, contents, doc, timers, autoSync, fault>>

\* Mutant of CloseAfterSave: the result of moo_editor_save is not looked at.
CloseAfterAnySave ==
  /\ At("close_after_save")
  /\ Goto([Top EXCEPT !.at = "do_close_doc"])
  /\ UNCHANGED <<watchVars, contents, doc, timers, autoSync, ret, fault>>

CloseAfterSave ==
  /\ At("close_after_save")
  /\ IF ret THEN Goto([Top EXCEPT !.at = "do_close_doc"]) /\ UNCHANGED ret
            ELSE Return(FALSE)
  /\ UNCHANGED <<watchVars, contents, doc, timers, autoSync, fault>>

\* Mutant of DoCloseDoc: the monitor outlives its document.
DoCloseDocWatched ==
  /\ At("do_close_doc")
  /\ doc' = [doc EXCEPT ![D] = ClosedDoc]
  /\ timers' = RemoveTimer(doc[D].sync_timeout_id)
  /\ Return(TRUE)
  /\ UNCHANGED <<watchVars, contents, autoSync, fault>>

\* do_close_doc and _moo_edit_closed.
DoCloseDoc ==
  /\ At("do_close_doc")
  /\ StopFileWatch(D, ClosedDoc)
  /\ timers' = RemoveTimer(doc[D].sync_timeout_id)
  /\ Return(TRUE)
  /\ UNCHANGED <<contents, autoSync, fault>>

\* The window that is being closed has no document left to close.
WindowEmptied ==
  /\ fault = "none"
  /\ stack # <<>>
  /\ Top.at = "do_close_doc"
  /\ ~doc[D].open
  /\ ForWindow
  /\ Return(TRUE)
  /\ UNCHANGED <<watchVars, contents, doc, timers, autoSync, fault>>

(***************************************************************************)
(* Quitting: moo_app_quit, by the session manager or from another window,  *)
(* through whichever main loop runs.  Each document is taken to be in a    *)
(* window of its own, and none is made while a quit asks: Windows has      *)
(* windows with many documents and what opens under the questions of a     *)
(* quit.  A quit under another one returns at once.                        *)
(***************************************************************************)
Quit ==
  /\ MainLoop
  /\ ~Quitting
  /\ Depth < QuitDepth
  /\ Push(Call("close_all", NoDoc))
  /\ ret' = TRUE
  /\ UNCHANGED <<watchVars, contents, doc, timers, autoSync, fault>>

\* _moo_editor_close_all, at its next window.
CloseWindow(d) ==
  /\ At("close_all")
  /\ ret
  /\ doc[d].open
  /\ Push(Call("close", d))
  /\ UNCHANGED <<watchVars, contents, doc, timers, autoSync, ret, fault>>

QuitCancelled ==
  /\ At("close_all")
  /\ ~ret
  /\ Return(FALSE)
  /\ UNCHANGED <<watchVars, contents, doc, timers, autoSync, fault>>

\* moo_app_do_quit: what goes on after it is the program started anew; but
\* handlers further out find their documents closed and the editor freed.
DoQuit ==
  /\ At("close_all")
  /\ ret
  /\ \A d \in Docs : ~doc[d].open
  /\ Return(TRUE)
  /\ IF Tail(stack) = <<>>
       THEN timers' = [t \in Timers |-> NoDoc] /\ UNCHANGED fault
       ELSE fault' = "freed" /\ UNCHANGED timers
  /\ UNCHANGED <<watchVars, contents, doc, autoSync>>

(***************************************************************************)
(* The autosync timer, dispatched by whichever main loop runs.             *)
(***************************************************************************)
TimerFires(t) ==
  /\ MainLoop
  /\ timers[t] # NoDoc
  /\ Depth < MaxDepth
  /\ timers' = [timers EXCEPT ![t] = NoDoc]
  /\ Push(Call("autosync_callback", timers[t]))
  /\ UNCHANGED <<watchVars, contents, doc, autoSync, ret, fault>>

\* Mutant of AutosyncCallback: it asks moo_edit_is_modified, not the buffer.
AutosyncCallbackStatus ==
  /\ At("autosync_callback")
  /\ IF "MODIFIED" \in doc[D].status
       THEN /\ stack' = <<Call("save", D), [Top EXCEPT !.at = "autosync_after_save"]>>
                        \o Tail(stack)
            /\ UNCHANGED <<doc, ret>>
       ELSE /\ doc' = [doc EXCEPT ![D].sync_timeout_id = 0]
            /\ Return(TRUE)
  /\ UNCHANGED <<watchVars, contents, timers, autoSync, fault>>

AutosyncCallback ==
  /\ At("autosync_callback")
  /\ IF doc[D].buf_modified
       THEN /\ stack' = <<Call("save", D), [Top EXCEPT !.at = "autosync_after_save"]>>
                        \o Tail(stack)
            /\ UNCHANGED <<doc, ret>>
       ELSE /\ doc' = [doc EXCEPT ![D].sync_timeout_id = 0]
            /\ Return(TRUE)
  /\ UNCHANGED <<watchVars, contents, timers, autoSync, fault>>

\* "zero the event ID": whichever source the id names by now.
AutosyncAfterSave ==
  /\ At("autosync_after_save")
  /\ doc' = [doc EXCEPT ![D].sync_timeout_id = 0]
  /\ Return(TRUE)
  /\ UNCHANGED <<watchVars, contents, timers, autoSync, fault>>

(***************************************************************************)
(* The poll of the file watch and the callback of a document.  A source    *)
(* that is being dispatched is not dispatched again by a nested loop.      *)
(***************************************************************************)
StartPoll ==
  /\ MainLoop
  /\ Depth < MaxDepth
  /\ PollBegin
  /\ Push(Call("do_stat", NoDoc))
  /\ UNCHANGED <<contents, doc, timers, autoSync, ret, fault>>

PollMonitor(i) ==
  LET code == EventCode(i) IN
  /\ At("do_stat")
  /\ StatMonitor(i)
  /\ IF code = "none"
       THEN UNCHANGED stack
       ELSE Push([Call("file_watch_callback", monitors[i].data)
                    EXCEPT !.id = i, !.code = code])
  /\ UNCHANGED <<contents, doc, timers, autoSync, ret, fault>>

FinishPoll ==
  /\ At("do_stat")
  /\ PollEnd
  /\ stack' = Tail(stack)
  /\ UNCHANGED <<contents, doc, timers, autoSync, ret, fault>>

\* The g_return_if_fail's of file_watch_callback and check_file_status.
CallbackAccepts(d, i) ==
  /\ i = doc[d].file_monitor_id
  /\ doc[d].filename # NoFile
  /\ doc[d].status \cap CHANGED_ON_DISK = {}

\* Mutant of Noted: the id of the deleted monitor is not zeroed.
NotedWithId(d, code) ==
  [doc[d] EXCEPT !.modified_on_disk = @ \/ code = "changed",
                 !.deleted_from_disk = @ \/ code = "deleted"]

\* The document once the event is noted.
Noted(d, code) ==
  [doc[d] EXCEPT !.modified_on_disk = @ \/ code = "changed",
                 !.deleted_from_disk = @ \/ code = "deleted",
                 !.file_monitor_id = IF code = "deleted" THEN 0 ELSE @]

\* Mutant of Flagged: the two booleans are not reset.
FlaggedForEver(r) ==
  [r EXCEPT !.file_monitor_id = 0,
            !.status = @ \cup {IF r.deleted_from_disk THEN "DELETED" ELSE "MODIFIED_ON_DISK"}]

\* The document after file_deleted or file_modified_on_disk, and add_status.
Flagged(r) ==
  [r EXCEPT !.modified_on_disk = FALSE,
            !.deleted_from_disk = FALSE,
            !.file_monitor_id = 0,
            !.status = @ \cup {IF r.deleted_from_disk THEN "DELETED" ELSE "MODIFIED_ON_DISK"}]

\* file_watch_callback, check_file_status, file_deleted, file_modified_on_disk
\* and add_status; under auto sync the last two call moo_edit_close or
\* moo_edit_reload, and the two booleans keep their values.
FileWatchCallback ==
  LET r == Noted(D, Top.code)
      quiet == ~(r.deleted_from_disk \/ r.modified_on_disk)
  IN
  /\ At("file_watch_callback")
  /\ CASE ~CallbackAccepts(D, Top.id) ->
            /\ stack' = Tail(stack)
            /\ UNCHANGED <<watchVars, doc>>
       [] CallbackAccepts(D, Top.id) /\ quiet ->
            /\ stack' = Tail(stack)
            /\ doc' = [doc EXCEPT ![D] = r]
            /\ UNCHANGED watchVars
       [] CallbackAccepts(D, Top.id) /\ ~quiet /\ autoSync ->
            /\ Goto(Call(IF r.deleted_from_disk THEN "close" ELSE "reload", D))
            /\ doc' = [doc EXCEPT ![D] = r]
            /\ UNCHANGED watchVars
       [] CallbackAccepts(D, Top.id) /\ ~quiet /\ ~autoSync ->
            /\ stack' = Tail(stack)
            /\ doc' = [doc EXCEPT ![D] = Flagged(r)]
            /\ monitors' = IF r.file_monitor_id = 0 THEN monitors
                                                   ELSE Cancelled(monitors, Top.id)
            /\ UNCHANGED <<fs, now, poll>>
  /\ UNCHANGED <<contents, timers, autoSync, ret, fault>>

(***************************************************************************)
(* The user, in the outermost main loop: a modal dialog keeps other input  *)
(* away.  A MooEdit is a new object: nothing refers to it yet.             *)
(***************************************************************************)
Unreferenced(d) ==
  /\ ~doc[d].open
  /\ \A t \in Timers : timers[t] # d
  /\ \A k \in 1 .. Len(stack) : stack[k].doc # d

\* moo_editor_new_doc: under auto sync a path is asked for at once.
NewDoc(d) ==
  /\ Idle
  /\ Unreferenced(d)
  /\ doc' = [doc EXCEPT ![d] = FreshDoc]
  /\ IF autoSync THEN stack' = <<Call("save_as_dialog", d), Call("new_doc_after_save_as", d)>>
                 ELSE UNCHANGED stack
  /\ UNCHANGED <<watchVars, contents, timers, autoSync, ret, fault>>

\* moo_editor_new_window makes an untitled document and asks for nothing, nor
\* does moo_editor_close_docs when it has emptied a window, nor the start of the
\* program: under auto sync too, and also while a dialog is open elsewhere.
NewUntitled(d) ==
  /\ MainLoop
  /\ ~Quitting
  /\ Unreferenced(d)
  /\ doc' = [doc EXCEPT ![d] = FreshDoc]
  /\ UNCHANGED <<watchVars, contents, timers, autoSync, stack, ret, fault>>

NewDocAfterSaveAs ==
  /\ At("new_doc_after_save_as")
  /\ IF ret THEN Return(TRUE) ELSE Goto([Top EXCEPT !.at = "close"]) /\ UNCHANGED ret
  /\ UNCHANGED <<watchVars, contents, doc, timers, autoSync, fault>>

(***************************************************************************)
(* Opening a file, by the user or by another instance of the program: its  *)
(* request arrives through MooAppInput, a source of the main loop that is  *)
(* dispatched during dialogs as well.                                      *)
(***************************************************************************)

\* moo_edit_is_empty: an untitled document nothing was done with.
Empty(d) ==
  /\ doc[d].open
  /\ doc[d].filename = NoFile
  /\ doc[d].text = EmptyText
  /\ "MODIFIED" \notin doc[d].status

\* moo_editor_load_file for a file no document is open for: it goes to a new
\* object, or to the active document of the window when that one is empty.
OpenFile(d, f, create) ==
  LET new == ~doc[d].open
      r == IF new THEN FreshDoc ELSE doc[d]
  IN
  /\ MainLoop
  /\ Depth < MaxDepth
  /\ IF new THEN Unreferenced(d) /\ ~Quitting ELSE Empty(d)
  /\ \A e \in Docs : doc[e].filename # f
  /\ IF create /\ fs[f].err = "ENOENT"
       THEN /\ doc' = [doc EXCEPT ![d] = [r EXCEPT !.status = {"NEW"}, !.filename = f]]
            /\ UNCHANGED stack
       ELSE /\ doc' = [doc EXCEPT ![d] = r]
            /\ stack' = <<[Call("load_file", d) EXCEPT !.file = f]>>
                        \o (IF new THEN <<Call("open_after_load", d)>> ELSE <<>>)
                        \o stack
  /\ UNCHANGED <<watchVars, contents, timers, autoSync, ret, fault>>

\* moo_editor_load_file for the file of an open document, with the flag
\* MOO_OPEN_FLAG_RELOAD (medit --reload).
Reopen(d) ==
  /\ MainLoop
  /\ Depth < MaxDepth
  /\ doc[d].open
  /\ doc[d].filename # NoFile
  /\ Push([Call("load_file", d) EXCEPT !.file = doc[d].filename])
  /\ UNCHANGED <<watchVars, contents, doc, timers, autoSync, ret, fault>>

\* Failing, the last reference to the new object is dropped.
OpenAfterLoad ==
  /\ At("open_after_load")
  /\ IF ret THEN UNCHANGED <<watchVars, doc, timers>>
            ELSE /\ StopFileWatch(D, ClosedDoc)
                 /\ timers' = RemoveTimer(doc[D].sync_timeout_id)
  /\ stack' = Tail(stack)
  /\ UNCHANGED <<contents, autoSync, ret, fault>>

UserCommand(d, command) ==
  /\ Idle
  /\ doc[d].open
  /\ stack' = <<Call(command, d)>>
  /\ UNCHANGED <<watchVars, contents, doc, timers, autoSync, ret, fault>>

\* The user types, perhaps to end with the text there was.
Type(d, x) ==
  /\ Idle
  /\ doc[d].open
  /\ Changed(d, Edited(doc[d], x))
  /\ UNCHANGED <<watchVars, contents, autoSync, stack, ret, fault>>

\* Undo or redo back to the text as it was saved: the buffer is unmodified.
UndoToSaved(d) ==
  /\ Idle
  /\ doc[d].open
  /\ doc[d].buf_modified
  /\ Changed(d, ModifiedChanged([doc[d] EXCEPT !.text = doc[d].saved], FALSE))
  /\ UNCHANGED <<watchVars, contents, autoSync, stack, ret, fault>>

\* A plugin calls moo_edit_set_clean.
SetClean(d, clean) ==
  /\ Idle
  /\ d \in CleanDocs
  /\ doc[d].open
  /\ doc' = [doc EXCEPT ![d].status = IF clean THEN @ \cup {"CLEAN"} ELSE @ \ {"CLEAN"}]
  /\ UNCHANGED <<watchVars, contents, timers, autoSync, stack, ret, fault>>

SetPref(b) ==
  /\ Idle
  /\ b # autoSync
  /\ autoSync' = b
  /\ UNCHANGED <<watchVars, contents, doc, timers, stack, ret, fault>>

(***************************************************************************)
(* Other processes.                                                        *)
(***************************************************************************)
ExternalWrite(f, x, t) ==
  /\ fault = "none"
  /\ ReplaceFile(f, t)
  /\ contents' = [contents EXCEPT ![f] = x]
  /\ UNCHANGED <<doc, timers, autoSync, stack, ret, fault>>

ExternalDelete(f) ==
  /\ fault = "none"
  /\ DeleteFile(f)
  /\ UNCHANGED docVars

ExternalHide(f) ==
  /\ fault = "none"
  /\ HideFile(f)
  /\ UNCHANGED docVars

TimePasses ==
  /\ fault = "none"
  /\ Tick
  /\ UNCHANGED docVars

Init ==
  /\ WatchInit
  /\ contents \in [Files -> Texts]
  /\ doc = [d \in Docs |-> ClosedDoc]
  /\ timers = [t \in Timers |-> NoDoc]
  /\ autoSync \in Prefs
  /\ stack = <<>>
  /\ ret = FALSE
  /\ fault = "none"

Saving == Save \/ CancelSave \/ DoSave \/ SaveUtf8 \/ SaveLocal
Loading == Reload \/ LoadFile \/ LoadText \/ OpenAfterLoad \/ NewDocAfterSaveAs
Closing == Close \/ CloseAfterSave \/ DoCloseDoc \/ WindowEmptied
CloseAll == (\E d \in Docs : CloseWindow(d)) \/ QuitCancelled \/ DoQuit
Autosync == (\E t \in Timers : TimerFires(t)) \/ AutosyncCallback \/ AutosyncAfterSave
Polling == StartPoll \/ (\E i \in Ids : PollMonitor(i)) \/ FinishPoll \/ FileWatchCallback

Answers ==
  \/ \E yes \in BOOLEAN : \/ AnswerOverwriteModified(yes)
                           \/ AnswerReloadModified(yes)
                           \/ AnswerSaveErrorEnc(yes)
  \/ \E f \in Files \cup {NoFile} : AnswerSaveAs(f)
  \/ \E answer \in {"save", "discard", "cancel"} : AnswerSaveChanges(answer)
  \/ AcknowledgeSaveError \/ AcknowledgeLoadError
  \/ AnswerTryEncoding \/ CancelTryEncoding

User ==
  \/ \E d \in Docs : NewDoc(d) \/ NewUntitled(d) \/ Reopen(d) \/ UndoToSaved(d)
  \/ \E d \in Docs, clean \in BOOLEAN : SetClean(d, clean)
  \/ \E d \in Docs, f \in Files, create \in BOOLEAN : OpenFile(d, f, create)
  \/ \E d \in Docs, c \in {"save", "save_as_dialog", "reload", "close"} : UserCommand(d, c)
  \/ \E d \in Docs, x \in Texts : Type(d, x)
  \/ \E b \in Prefs : SetPref(b)
  \/ Quit

Others ==
  \/ \E f \in Files, x \in Texts, t \in Time : ExternalWrite(f, x, t)
  \/ \E f \in Files : ExternalDelete(f) \/ ExternalHide(f)
  \/ TimePasses

Next ==
  \/ Saving \/ Loading \/ Closing \/ CloseAll \/ Autosync \/ Polling
  \/ Answers \/ User \/ Others \/ UseAfterClose

Spec == Init /\ [][Next]_vars

\* Handlers run to their end; the user answers every dialog; GLib dispatches a
\* timeout that is due, since handlers end and no source has a higher priority
\* for ever.  Nothing is assumed of the user's commands or of other processes.
Handlers ==
  \/ Saving \/ Loading \/ Closing \/ CloseAll
  \/ AutosyncCallback \/ AutosyncAfterSave
  \/ (\E i \in Ids : PollMonitor(i)) \/ FinishPoll \/ FileWatchCallback

Fairness ==
  /\ WF_vars(Handlers)
  /\ SF_vars(Answers)
  /\ SF_vars(StartPoll)
  /\ \A t \in Timers : SF_vars(TimerFires(t))

\* Nobody touches the preference: what is promised in the end is promised to
\* those who leave it alone.
FairSpec == Init /\ [][Next /\ UNCHANGED autoSync]_vars /\ Fairness

(***************************************************************************)
(* Properties.                                                             *)
(***************************************************************************)

\* Every variable has its type.
TypeOK ==
  /\ fs \in [Files -> StatBuf]
  /\ now \in Time
  /\ monitors \in [Ids -> Monitor]
  /\ poll \in Poll
  /\ contents \in [Files -> Texts]
  /\ doc \in [Docs -> Doc]
  /\ timers \in [Timers -> Docs \cup {NoDoc}]
  /\ autoSync \in BOOLEAN
  /\ stack \in Seq(Frame)
  /\ ret \in BOOLEAN
  /\ fault \in {"none", "assert", "freed"}

\* The monitors a document may still count on: all in the table, except those
\* whose deletion was reported by a callback that has returned.
Reporting == IF At("file_watch_callback") THEN {Top.id} ELSE {}
Served == Requests \ (poll.gone \ Reporting)

\* The monitors the watch still serves are exactly the ones the open documents
\* hold, one each, and not those flagged as changed on disk: no callback is
\* lost, none goes to a document that is gone, and no monitor leaks, whatever a
\* callback of the poll does to the table.
MonitorsOwned ==
  /\ \A d \in Docs : doc[d].file_monitor_id # 0 =>
       /\ doc[d].open
       /\ doc[d].status \cap CHANGED_ON_DISK = {}
       /\ doc[d].file_monitor_id \in Served
       /\ monitors[doc[d].file_monitor_id].data = d
       /\ monitors[doc[d].file_monitor_id].file = doc[d].filename
  /\ \A i \in Served : doc[monitors[i].data].file_monitor_id = i

\* The checks g_return_if_fail makes at the entry of file_watch_callback never
\* fail: an event reaches its document under the id the document knows, and
\* never after the document was flagged as changed on disk.
CallbackChecksHold ==
  At("file_watch_callback") => CallbackAccepts(D, Top.id)

\* No handler runs on a closed document, whatever timers, polls and requests to
\* open files the nested main loops dispatch: asked of runs in which auto sync is
\* never on and a quit comes from the outermost main loop only.  Under auto sync
\* a poll closes a document that a dialog is about, and a quit that is dispatched
\* under a dialog closes it with or without auto sync.
NoFault == fault = "none"

\* A document is closed, also by a quit, with unsaved text only when the user
\* has said so in the dialog about saving changes, or when a plugin marked the
\* document as not worth asking about.
NoSilentLoss ==
  [][\A d \in Docs :
        doc[d].open /\ ~doc'[d].open =>
          \/ doc[d].text = doc[d].saved
          \/ Top.code = "discard"
          \/ "CLEAN" \in doc[d].status]_vars

Dispatching(d) ==
  \E k \in DOMAIN stack : /\ stack[k].at \in {"autosync_callback", "autosync_after_save"}
                          /\ stack[k].doc = d

\* "If the timer is already running, it is cancelled and started anew"
\* (changed_cb): sync_timeout_id is zero or the id of a source of this very
\* document, pending or being dispatched, so that no source of another document
\* and none that is gone is ever removed by it; and a pending timer is
\* forgotten only by the callback of an earlier one.  That it may be then, when
\* the callback's save changed the text or asked a question in the meantime, is
\* how a second timer comes to run.
OneTimer ==
  /\ []\A d \in Docs : LET t == doc[d].sync_timeout_id
                      IN t # 0 => timers[t] = d \/ (timers[t] = NoDoc /\ Dispatching(d))
  /\ [][\A d \in Docs :
          LET t == doc[d].sync_timeout_id
          IN t # 0 /\ timers[t] = d /\ timers'[t] = d =>
               \/ doc'[d].sync_timeout_id = t
               \/ /\ stack # <<>> /\ D = d
                  /\ Top.at \in {"autosync_callback", "autosync_after_save"}]_vars

\* A document is flagged as deleted from disk (modified on disk) by the file
\* watch reporting just that, and by nothing it reported at an earlier time.
FlagsFollowEvents ==
  [][\A d \in Docs :
        /\ "DELETED" \in doc'[d].status \ doc[d].status => Top.code = "deleted"
        /\ "MODIFIED_ON_DISK" \in doc'[d].status \ doc[d].status
             => Top.code = "changed"]_vars

\* The flag MODIFIED, which closing and reloading go by, says whether the text
\* differs from what was last saved.
ModifiedFlagTruthful ==
  \A d \in Docs :
    /\ doc[d].text # doc[d].saved => "MODIFIED" \in doc[d].status
    /\ doc[d].buf_modified <=> "MODIFIED" \in doc[d].status

\* A newer file under a watched document is noticed: the document gets flagged
\* (or reloaded, saved, closed), unless the file turns old again or goes away.
NewerFileNoticed ==
  \A d \in Docs, i \in Ids, m \in Time :
    LET Watched == doc[d].file_monitor_id = i /\ monitors[i].alive
        Newer == Watched /\ monitors[i].mtime = m
                   /\ Exists(doc[d].filename) /\ fs[doc[d].filename].mtime > m
    IN Newer ~> \/ doc[d].file_monitor_id # i
               \/ ~Exists(doc[d].filename)
               \/ fs[doc[d].filename].mtime <= m
               \/ fault # "none"

\* A document whose file is gone is flagged or closed, unless the file is back.
DeletionNoticed ==
  \A d \in Docs, i \in Ids :
    LET Gone == doc[d].file_monitor_id = i /\ monitors[i].alive
                  /\ fs[doc[d].filename].err = "ENOENT"
    IN Gone ~> \/ doc[d].file_monitor_id # i
              \/ fs[doc[d].filename].err # "ENOENT"

\* The save of the autosync timer of d did not come about.
Failed(d) == At("autosync_after_save") /\ D = d /\ ~ret

Unsaved(d) == doc[d].open /\ doc[d].buf_modified

\* While auto sync stays on, an edit whose timer is pending is on disk some time
\* later, or its document reloaded or closed, or else the save the timer asked
\* for was cancelled or failed.  Nothing but such a failure leaves an edit
\* unwritten: untitled documents that were made without a question, timers that
\* are started anew and dispatched under dialogs, and questions of the save all
\* lead to a save in the end.
EditsReachDisk ==
  []autoSync => \A d \in Docs :
    /\ Unsaved(d) /\ (\E t \in Timers : timers[t] = d)
         ~> ~Unsaved(d) \/ Failed(d) \/ fault # "none"
    /\ []~Failed(d) => (Unsaved(d) ~> ~Unsaved(d) \/ fault # "none")
==============================================================================
