# medit: TLA+ models of documents, files, windows, commands, folders, instances and undo

medit is a text editor (GTK, one thread, a GLib main loop). Its own logic is under
`src/moo/`; `gtksourceview`, `eggsmclient`, `xdgmime`, the Lua and Python
interpreters and the generated bindings are other people's code. This project
models the parts of it that can lose text, undo the wrong thing, or get out of step
with something shared: the documents with the files under them (saving, loading,
closing, auto sync, the poll for outside changes), the windows and the end of the
program with its session, the commands that run in a window, the undo stack and the
line marks of the text buffer, the folders of the file browser, and the instances of
the program with the list of recent files they share.

- [Parts of the system](#parts-of-the-system)
- [Modules](#modules)
- [Runs](#runs)
- [Where code and documentation disagree](#where-code-and-documentation-disagree)
- [Proofs](#proofs)
- [What is only model-checked, and what is not modelled](#what-is-only-model-checked-and-what-is-not-modelled)
- [Plan](#plan)

To run: `tlc -config MCDocSync_manual.cfg MCDocSync`, `tlapm UndoStackProofs.tla`
and so on; `PROJECT.json` lists the pairs, and maps each definition to its lines.

## Parts of the system

| part | state | operations | hard about it | correct when |
|---|---|---|---|---|
| **documents** `mooedit.cpp`, `mooedit-fileops.cpp`, `mooeditor.cpp`, `mooeditdialogs.cpp` | per document: text, modified flag of the buffer, file name, `status`, `file_monitor_id`, `modified_on_disk`, `deleted_from_disk`, `sync_timeout_id` | new, open, save, save as, reload, close, auto sync timer, file watch callback | a modal dialog runs a nested main loop in the middle of a handler: timers, polls and requests of other instances act on the document the dialog is about; failing writes; the disk changes at any time | no text is lost without a question; the flags say what happened; no handler touches a closed document; edits reach the disk under auto sync |
| **file watch** `moofilewatch.c` | table of monitors, the snapshot of ids of a running poll, ids to remove | create, cancel, poll (`do_stat`) | callbacks cancel and create monitors in the middle of a poll; whole-second time stamps | each newer or deleted file is reported to the one who asked, and a monitor whose file is gone leaves the table |
| **undo stack** `mooundo.c`, the actions of `mootextbuffer.c` | two stacks of groups of actions, freeze and group counters; the buffer's `modifying_action` | add, merge, undo, redo, user action, non-undoable and non-interactive action, set-modified | merging; grouping across nested actions and undo; a pointer to the action that made the buffer modified, which other operations free | undo leads back through the texts of the edits; the buffer is unmodified exactly at the saved text |
| text buffer `mootextbuffer.c` | the undo stack, the line buffer, folds, brackets | insert, delete, marks | keeps a tree of lines in step with GtkTextBuffer | marks stay with their lines |
| file writer `moofilewriter.cpp` | temporary file, backup, deferred error | open, write, close | an error of each step is kept until close | the old file or the new one is on disk, never neither |
| encodings `mooencodings.c`, part of `mooedit-fileops.cpp` | none | decode by a list, byte order marks, encode | marks that are prefixes of one another | what is saved loads again as the same text |
| **windows and the end of the program** `mooeditwindow.cpp`, the closing functions of `mooeditor.cpp`, `mooapp.cpp` | list of windows, the tabs of each; `running`, `in_try_quit`; the session and its file | open, move and detach documents, close documents, a window, everything; quit, signals, session | a dialog blocks its own window only, the rest goes on under it; a quit inside a close inside a quit; the session is saved more than once on the way out | nothing unsaved goes unasked; no window is left without a tab; the session has what was open |
| **line marks and bookmarks** `mootextbtree.c`, `moolinebuffer.c`, `moolinemark.c`, `mooeditbookmark.cpp` | balanced tree of lines with counts of lines and marks; per mark a cached line number; a sorted list of bookmarks | insert and delete lines, add, move, remove and find marks; toggle, update, delete bookmarks | splitting and merging of nodes; numbers that are cached; a list that an idle callback sorts later | counts agree with leaves; a mark is where its line is; the list has each bookmark once, in order |
| **history of files** `moohistorymgr.c` | list of files, shared through a file | add, update, remove, load, save, broadcasts | several instances write it; it is read at first use and saved when idle | the lists agree when all is quiet, no change is echoed for ever |
| **instances** `mooappinput-unix.c`, `mooapp-ipc.c`, `main.cpp` | one or two sockets per instance, their names in a directory | start, hand files over, broadcast, end | instances that crash and leave names behind, names removed between bind and listen, a message that comes by two sockets | a plain start finds the instance that runs; a message counts once |
| event queue `mooutils-thread.cpp` | queue guarded by a mutex, a pipe to wake the main loop | push, dispatch, disconnect | threads | each event is delivered once, in order |
| **folders** `moofolder.c`, `moofilesystem.c`, `moofoldermodel.c`, part of `moofileview.c` | files of a directory, stage of reading, monitor; the registry of folders in use, the cache of those that are not; the model of each view | get, read in idle steps, reload, delete, evict | reloaded by the file watch while being read; freed while idles, timers and monitors are pending; two folders for one path | views show what their folders hold; nothing that is registered, cached or watched was freed |
| **external commands** `moospawn.c`, `moocmdview.cpp`, `moofind.cpp`, `run_in_pane`, the jobs of `mooeditwindow.cpp` | a child, the watches of its two pipes and of its end; the view it writes to; the jobs of a window | run a tool, find in files, find a file, stop, close the window; a line, the end of a pipe, the end of the child | the ends of child and pipes come in any order; processes left in the background; a search started over a running one | all output comes before the exit; every end is reported, once; a count belongs to its search |
| preferences, actions, widgets, plugins, languages, search, text view | | | sequential, or user interface | |

How they interact. `MooEditor` calls into `MooEdit` and its file operations; these
create and cancel monitors of the one `MooFileWatch` of the editor. The watch
polls in a timeout (500 ms) and calls `file_watch_callback` of the document, which
flags it, or, when the preference *auto sync* is on, reloads or closes it through
`MooEditor`. With auto sync, `changed_cb` starts a timer on each change of the
text, and `autosync_callback` saves. Every question to the user (`moo_dialog_run`,
`gtk_dialog_run`) runs the main loop again, inside the handler that asks. The text
buffer emits `changed` and `modified-changed`, which keep `MOO_EDIT_STATUS_MODIFIED`;
its undo stack decides when undo makes it unmodified again. Close and reload ask
about unsaved changes only when that status is set: the two models meet there
(`ModifiedTruthful` is what `UndoToSaved` of DocSync assumes). `MooEditor` closes
documents one by one, by the window or all together, for `MooApp`, which writes the
session. Opening and closing documents changes the list of recent files, which
`MooHistoryMgr` broadcasts to the other instances through `MooAppInput`; a new
instance hands its files to a running one the same way. Tools and searches run as
children of a window, which has a list of their jobs, and the main loop reads their pipes. The file browser has
folders, each a client of a file watch of its own.

## Modules

| module | stands for | extends / implements |
|---|---|---|
| `FileWatch` | `MooFileWatch`, back end `stat()`; the disk; any client | |
| `FileWatchProofs` | theorems about it | `FileWatch` |
| `DocSync` | documents, editor operations, auto sync, dialogs, quitting, other processes | extends `FileWatch`, implements `WatchSpec` |
| `DocSyncProofs` | theorems about it, whatever the preference | `DocSync`, `FileWatchProofs` |
| `DocManualProofs` | theorems about it without auto sync and without quits under a dialog | `DocSyncProofs` |
| `MCDocSync` | its instances | `DocSync` |
| `EditHistory` | what undo and redo promise | |
| `UndoStack` | `MooUndoStack` and the edit actions of `MooTextBuffer` | implements `EditHistory` |
| `UndoStackProofs` | theorems about it, the refinement included | `UndoStack` |
| `LineBTree` | the balanced tree of lines, the line buffer, cached line numbers: operators only | |
| `MarkedLines` | what a text buffer promises about line marks | |
| `Bookmarks` | text changes and bookmarks of one document | extends `LineBTree`, implements `MarkedLines` |
| `MCBookmarks` | its instance | `Bookmarks` |
| `Windows` | windows and their documents, closing, quitting, the session | |
| `WindowsProofs` | theorems about it | `Windows` |
| `MCWindows` | its instances | `Windows` |
| `Commands` | `MooCmd`, `MooCmdView`, the two views of a window that run commands, its jobs | |
| `CommandsProofs` | theorems about it | `Commands` |
| `Folders` | `MooFolder`, its registry and cache, the models of the views | extends `FileWatch` |
| `FoldersProofs` | theorems about it, for any number of views | `Folders`, `FileWatchProofs` |
| `MCFolders` | its instance | `Folders` |
| `RecentFiles` | `MooHistoryMgr`, `MooAppInput`, the start and end of instances | |
| `RecentFilesProofs` | theorems about it: instances find each other, their messages end, their lists agree | `RecentFiles` |
| `MCRecentFiles` | its instance | `RecentFiles` |

### FileWatch

`monitors` is `watch->requests` and the `Monitor` records; an entry without a file
is free. `poll.todo` is the list of ids `do_stat` takes first, `poll.gone` its
`to_remove`. One turn of the loop is `StatMonitor`, so that a client may act
between turns, as the callback does. `poll.event` is the event the last turn made.
`fs` holds what `stat()` says of each file:
an error or a time stamp, in whole seconds, as the code compares them.

Clients are as free as the code allows any client to be: they cancel and create
at every step, also a monitor whose deletion was just reported, as `moofolder.c:431`
does, because `do_stat` looks each id of `to_remove` up again. `NewerReported` and
`DeletionSettled` are about the events: a newer file is reported as changed although
the poll overwrites the stamp it compares with, a file that is gone as deleted, and
the monitor that was reported so leaves the table whatever clients do and even if the
file is back. `WatchSpec` is a property of DocSync: documents are clients of this
watch, and the steps they make of it are the watch's steps.

Ids are reused from a small set where the code counts up; `FreshIds` keeps out
every id that a table, snapshot or list still mentions.

### DocSync

`doc[d]` has the fields of `MooEditPrivate` that the operations read, the text, and
`saved`: the text as last read from or written to disk, used by properties only.
`stack` is the call stack. Each action is one function of the source from its
entry, or from the answer to a dialog, to its next call, dialog or return:

- A plain handler runs while it is on top. Nothing else of the program runs then:
  it has one thread. Other processes do (`ExternalWrite`, `ExternalDelete`,
  `ExternalHide`, `TimePasses`).
- When the top is a dialog, the nested main loop may dispatch an auto sync timer
  (`TimerFires`), the poll (`StartPoll`), a request of another instance (`OpenFile`,
  `Reopen`), a new window (`NewUntitled`) and a quit (`Quit`), which the session
  manager asks for or the user from another window. In the window of the dialog the
  user only answers: the dialogs are modal.
- With an empty stack the user types, saves, reloads, closes, quits, undoes, toggles
  auto sync; a plugin may call `moo_edit_set_clean`.

A quit is a frame `close_all` (`_moo_editor_close_all`): it closes one document after
the other by way of the same question (`CloseWindow`), ends when a question is
cancelled (`QuitCancelled`), and in the end the program may be started anew (`DoQuit`).
Each document is in a window of its own here, and none is made while a quit asks;
windows with several documents, windows that open under the questions of a quit, and
signals are in Windows. `do_close_window` closes what its window has left by then,
where `close_docs_real` closes the documents it was given: `ForWindow` tells the two
apart, and `WindowEmptied` is the window whose document is gone. `NewDoc` is
`moo_editor_new_doc`, which asks for a path at once under auto sync; `NewUntitled` are
the untitled documents that are made without asking, by a new window, for a window
whose last document was closed, and at the start.

A handler that goes on with a closed document stops the model with a `fault`:
`assert` when the assertion of `do_close_doc` catches it, `freed` when it goes on
with an object that may be gone, or after the program has quit under it.

Texts are two or three values; `Strip` is what `moo_editor_will_save` does to a
text, `Undecodable` and `Unencodable` texts bring up the dialogs about encodings,
`FailingFiles` may refuse to be written.

### UndoStack and EditHistory

The code keeps two stacks of groups, each a queue of actions. Here a stack is one
sequence of actions, newest first, where `opens` marks the oldest of a group.
`EditText` is what `moo_text_buffer_insert_text` and `_delete_range` do: the
GtkTextBuffer changes and sets its modified flag, an action is made, and
`AddAction` (`moo_undo_stack_add_action`) merges it into the last one, appends it to
the last group, or opens a new group, and frees what could be redone. Undo and
redo walk through the actions of a group (`walk`), with the stack frozen; each turn
changes the text and runs `action_undo_or_redo`. `modifying_action` is the action
that took the buffer out of the unmodified state; `AfterDestroy` is the reset in
`edit_action_destroy`. Actions carry `from` and `to`, the texts they lead between;
only properties read them.

`EditHistory` is the promise: a line of texts with a place on it and perhaps a
*clean place*. An edit drops what is ahead; undo and redo move; the buffer is
unmodified exactly at the clean place. A merged edit keeps its place on the line,
and is never made right at the clean place. The mapping reads `past` and `ahead`
off the `from` and `to` of the stacks, and `clean` off the place of
`modifying_action` (`CleanPlace`).

### LineBTree, MarkedLines and Bookmarks

A node is a record with its children inside, so the loops of the code that follow
`parent` pointers become the return of a recursion: `Inserted` gives the one or two
nodes that take the place of a node, and `Filled` is one turn of the loop of
`_moo_text_btree_delete`. The code adds up counts the way the model does: a split
computes them from the children, a borrow or merge moves them. A line is the set of
its marks. `line_no[m]` is the number a mark has cached, or `Stale` when the stamp of
the tree has moved on; only `moo_line_mark_get_line` (`Asked`) and the listing of a
line's marks (`Listed`) fill it, and both are modelled where the code calls them.

`Bookmarks` has one action per handler. `InsertText` splits a line and, for text that
starts with a line end at the start of a line, moves the marks down (`front`).
`DeleteText` deletes whole lines, or joins the last line to the first. Deleted marks
leave the list at once (`Without`), moved ones set the idle callback (`MarksMoved`);
`UpdateBookmarks` is that callback, or `update_bookmarks_now` of a reader. A new
bookmark asks for a free number, which lists the bookmarks, which updates them.
All marks of a text are bookmarks here; the program makes no others.

`MarkedLines` is the promise: a text is a sequence of sets of marks; new lines come in
unmarked, lines go with their marks or are joined with them, marks come and go by
themselves. The mapping reads the leaves of the tree from left to right.

### Windows

`stack` holds the handlers that wait: one for each question that is on the screen
(`close_docs`, `close_window`) and one for each `_moo_editor_close_all` under way,
with the windows it still has to close (`rest`). A dialog is in the window group of
its window (`mooeditwindow.cpp:1015`), so it blocks that window only: `Usable` are
the others, and in them the user types, saves, opens, moves, detaches and closes, and
asks to quit. Requests of other instances, the session manager and signals do not
care for windows at all. Answers are given to the innermost question; the main loops
under it cannot return before it does.

`docs` of a handler are the documents it will close and `ask` those its question
names. Both were read before the dialog, as `close_docs_real` reads them. A document
that was closed meanwhile runs into the assertion of `do_close_doc`
(`closed_twice`), and a handler that resumes after the program has quit under it goes
on with an editor that was freed (`freed`): both end the program, and it may be started
again. So do `quit`, `signal` and `killed`, which differ in whether the session file
is written. `Start` loads the session: files may be `missing`, and a file may take
the place of the empty document before it.

Documents have the names of files, not their contents; saving a document gives it a
name and takes it out of `modified`. What saving may do inside is DocSync's matter.

### Commands

`leader` is the child of a `MooCmd`, `helper` a process it left behind with its pipes;
they write lines (`written`) that wait in a pipe (`unread`) until the program reads
them. `watched` and `open` are the three sources of a command: its child watch and the
watches of its pipes. `CommandExit`, `HangUp` and `ReadLines` are their callbacks, in
any order; each of the first two takes its source away and asks `moo_cmd_check_stop`
(`CheckStop`), which tells the view when none is left. Abort (`Abort`) kills the group
and shuts the pipes without a last read, and does nothing once the child was reaped;
freeing a command (`Dispose`) aborts it and removes what is left, so that a late end
of its child finds no one to tell. `Counts` is how many of the lines it is given the find
plugin counts: `process_find_line` counts each, `process_grep_line` may leave any of
them out (an empty line, "Binary file", one it cannot parse). Handlers call each other, and operators follow them
on one record of the whole state (`State`, `Becomes`).

`Find` and `Output` are the two views. `jobs` counts their entries in the list of jobs of
the window: a search that replaces a running one adds an entry, and the entry of the
old one is not taken off. When the window is closed the plugin goes first, and takes
one entry with it; an entry that stays behind sends its abort to a view that is gone,
and the window is then `closed` or the program `crashed`. `lost` and `stopped` are
there for properties only.

### Folders

`impl` are the `MooFolderImpl` by address; an address that was freed is used again.
A folder reads names at once and then looks at its files bit by bit, over `copy`, in
two stages, and starts its monitor at the end (`populate_func`). A reload changes
`files` in between; a file has an identity of its own, so that one that was removed
and made again is another one. `entries` is what the directories hold, `fs` of
FileWatch their time stamps. `folders` is the registry of folders in use, `cache`
and `paths` the cache. `dir`, `shown` and `rows` are the view, its model, and the rows
of the model; the asserts of the model are checked where it is told of files.

A failed assertion (`assert`) and a handler of a freed model (`freed`) stop the model.
The first happens, and the hazard at `moofoldermodel.c:471` in `PROJECT.json` says
how: a directory is entered, reloaded while its files are read, and the next file
that is read is one the reload removed.

The event a poll finds is delivered in a step of its own (`FamCallback`), and other
processes act in between.

### RecentFiles

An instance goes through `at`: it is started, makes its socket under its pid and then
perhaps the one under `main`, runs, leaves, or crashes. `owner` is the directory of
sockets: for each name, whose socket it stands for; `sockets` are the names an
instance listens at. Between `bind` and `listen` a socket refuses connections, and
whoever tries it then removes its name. `struck` remembers the instances that lost a
name that way; they run, and nobody finds them by it.

`queue` keeps what waits at each socket, in order; an instance that has both names
gets each message twice, and `stamp` and `seen` are what `check_stamp` compares. One
broadcast, to all sockets, is one step; what the receivers do with it is not.

`list` is the list of each instance, read from `file` at first use (`loaded`), `pending`
the save that waits for an idle. `Added`, `Updated` and `Removed` are the three
`_real` functions of `moohistorymgr.c` with the messages they send, also the ones they
send when they were called for a message.

## Runs

Bounds. `MaxTime` 1 gives two seconds, so a stamp may be older, equal or newer. Two
ids per document allow a monitor to be replaced while the old id is still listed
by a poll; a third one is for the second document. `MaxDepth` bounds the nesting of
main loops: 2 is a dialog with a timer, a poll or a request inside; a quit is not
counted. `QuitDepth` says where a quit may come: 1 is the outermost main loop only, 2
a dialog too, 0 none. Text values: empty, not empty, and one that is refused by an
encoding. An undo stack of two actions has a merged, a grouped and a separate
pair; nesting 1 has each bracket open and closed, and combined with the others. A tree of
capacity 2 to 3 (8 to 15 in the code; only the numbers differ) needs eight lines for a
third level, and ten for an inner node to borrow from its left and from its right
sibling; insertions and deletions of up to two lines repeat a step of the tree.

Two windows let one go on under the dialog of the other, and `MaxNesting` 3 has a
question over a quit over a question. `MaxDocs` 2 with a third document for the empty
one that a closed window leaves behind. Two directories, of which one changes, let a
view come back to a path whose folder is cached (`CacheSize` 1; 10 in the code),
pushed out, or deleted; two addresses are as many folders as one view and the cache
hold. A list of recent files of two (`MaxItemNumber`; 5000 in the code) overflows with the
next addition; three instances are a sender, a receiver and one that comes or goes, and
`MaxEvents` 4 bounds starts, crashes and changes together: two instances and two
changes, three and one, or a crash among them. Two commands serve two views, or one view whose
old command is not reaped when the new one starts; one line in each pipe is enough to be
read before, with or after the end, or never.

| run | what it asks | properties | bounds |
|---|---|---|---|
| `watch` | is what happens to files reported, whatever clients do in the middle of a poll | `WatchTypeOK`, `NewerReported`, `DeletionSettled` | 2 files, 2 ids, one of the files may turn inaccessible, fairness |
| `manual` | one document without auto sync, through every dialog and error path, and quits | `TypeOK`, `NoFault`, `ModifiedFlagTruthful`, `NoSilentLoss`, `FlagsFollowEvents`, `WatchSpec` | 1 document, 1 file, all failures, depth 2, quits from the outermost main loop |
| `two_documents` | may one document take over the other's file or monitor | `MonitorsOwned` | 2 documents, 2 files, 3 ids, one text, quits from the outermost main loop, symmetric; 1.4 million states |
| `autosync` | timers, polls and quits that reload or close in the middle of a dialog, the preference being toggled | `MonitorsOwned`, `CallbackChecksHold`, `OneTimer` | 1 document, 2 timers, saving leaves the text alone, quits also under a dialog |
| `live` | is a newer or deleted file noticed, and an edit under auto sync written, in the end | `EditsReachDisk`, `NewerFileNoticed`, `DeletionNoticed` | 1 document, 2 timers, 1 text, a disk that may fail, no quits, fairness |
| `bookmarks` | is the tree of lines right through every split, borrow and merge, and do bookmarks follow their lines | `TreeSound`, `LineNumbersTrue`, `KeepsMarks`, `BookmarksOwned`, `SortedUnlessPending` | 10 lines, 2 interchangeable marks, nodes of 2 to 3 children |
| `undo` | edits, brackets, saves, undo and redo in any order | `TypeOK`, `Chained`, `ModifiedTruthful`, `ModifyingActionLive`, `GroupsWhole`, `ImplementsHistory` | texts of up to 2 characters, a letter and a blank, 2 actions, nesting 1; 1.8 million states |
| `windows` | what becomes of documents, windows and the session when closing and quitting nest | `FlagsTruthful`, `AskedFirst`, `NeverEmptied`, `SessionKept` | 2 windows, 2 documents, 1 name of a file, nesting 3, symmetric |
| `folders` | do views, folders, monitors and the cache stay in step while a directory comes and goes | `RowsMatch`, `MonitorsServed`, `CacheSound` | 1 view, 2 directories, 1 entry and `..`, 2 addresses, 2 ids, symmetric |
| `recent_files` | do the lists agree, do messages come to rest, is a running instance found | `Agreement`, `EchoesBounded`, `HandsOver` | 3 instances, 3 files, lists of 2, 4 events, symmetric |
| `commands` | do exits come after the output, do searches keep apart, is every end reported | `OutputBeforeExit`, `CountsOwnLines`, `EndReported` | 2 commands, 2 views, 1 line per pipe, 2 jobs of the find view, fairness |

What they show. Without auto sync, and with no quit under a dialog, the code is right in
all that was asked: the nested main loops do no harm, because the callback only sets
flags then. `NoFault` is asked under these two conditions and under no others: a quit
that the main loop of a dialog dispatches closes the document of the dialog. With auto
sync, and with such quits, the monitors stay right, but documents are reloaded and closed under open
dialogs, and the runs of the next section show what follows from that.

The undo stack and the line marks are right in all that was asked. `bookmarks` does in
every state what `CHECK_INTEGRITY` of the tree would do, which is compiled out.

`MonitorsOwned` counts a monitor as served until its deletion has been reported;
after the callback returns the poll still holds the id, and the document does not.

Windows: under any nesting of questions, quits and signals nothing that was not asked
about is closed, except when the program ends (the next section), and the flags of
`MooApp` never keep it from quitting again. Folders: apart from the assertion named
above, what is shown, watched and cached is never stale. Recent files: one change at
a time, the lists of all instances and the file agree in the end; instances answer each
other's messages, and `EchoesBounded` says how many messages a change may cost. It counts
what all instances sent (`Sent`), so it is exceeded when two keep answering each other.
Commands: whatever order the ends of a child and of its pipes come in, a view has all
the output of a command it did not stop before it hears of the exit, and hears of it
once nobody holds the pipes.

Deadlock is not checked under auto sync: a `fault` stops the model, on purpose, and
two timers may be used up (`FreeTimers`) once one is orphaned. Nor is it in
`recent_files`, where all instances may be gone, nor in `commands`, where the window may
be closed. `windows` and `folders` check it: the
program can be started again, and other processes go on.

Fairness is stated for `watch`, `live` and `commands`. `FairWatchSpec`: the timeout fires again
and again, and a poll runs to its end (its steps are a loop without waiting).
`FairSpec` of DocSync: handlers run to their end (`WF` of `Handlers`, one thread, no
blocking calls); the user answers dialogs (`SF(Answers)`: a nested handler may hide a
dialog for a while, but not for ever); GLib dispatches timeouts that are due
(`SF(StartPoll)`, `SF(TimerFires)`: they are disabled while a handler runs). Nothing is
assumed of commands of the user or of other processes. The preference has either value
and keeps it (`UNCHANGED autoSync`): an event flagged under one value is not handled
again under the other.
`FairSpec` of Commands: the main loop dispatches the child watch and the hang-ups of each
command, as it does any source that is ready; processes need neither end nor write.
`EditsReachDisk` names what it leaves out: `Failed`, the return of a save that the timer
asked for and that did not come about, because the disk failed or the user cancelled its
question. Nothing retries it until the next edit. The second part of the property says that
nothing else leaves an edit unwritten: if no save fails, each one is written in the end,
also of an untitled document that was made without a question, for which the timer's save
asks for a path.

## Where code and documentation disagree

A run that violates one property; `PROJECT.json` quotes the lines.

| run | property | what happens |
|---|---|---|
| `autosync_loss` | `NoSilentLoss` | Under auto sync `MOO_EDIT_STATUS_MODIFIED` is never set. A document closed before its timer fires is closed without a question, and its last edits go with the timer. |

Other things found while modelling are not runs of their own; the properties are asked
where they do not occur, and the notes of the hazards in `PROJECT.json` describe them:

- The save in `autosync_callback` may strip white space, which is a change, which
  starts a new timer; or it asks a question, under which the document is reloaded, which
  starts one too. Then the callback zeroes `sync_timeout_id`. Nobody can cancel the new
  timer, not even the close of the document (`mooedit.cpp:555`). `OneTimer` says, and
  `TimersNotMixedUp` proves, that a pending timer is forgotten in no other way.
- `deleted_from_disk` and `modified_on_disk` are reset without auto sync only, and a
  later event finds them again (`mooedit-fileops.cpp:948`; `FileWatchCallback`).
- Under auto sync the poll closes a document that a question is about, and the answer
  closes it again (`mooeditor.cpp:1725`; `UseAfterClose`); a nested quit does the same
  without auto sync (`mooeditor.cpp:1615`; `UseAfterClose`, outcomes of `Windows`).
- `medit --reload` for a file that is open reloads its document with no question, and
  drops what was not saved (`mooeditor.cpp:1130`; `Reopen`). `NoSilentLoss` is about
  closing.
- `_moo_editor_close_all` goes by a copy of the list of windows. A window opened under one
  of its questions is closed only by `moo_app_do_quit`, which ignores the answer: Cancel
  to the question about it ends the program, and its changes are lost
  (`mooapp.cpp:826`; `BeginDoQuit` of `Windows`).
- Find in Files over a running search leaves the job of the old one on the list of the
  window: it looks busy for ever, and closing it sends "abort" to a view that was freed
  (`moofind.cpp:978`, `mooeditwindow.cpp:895`; outcome `crashed` of `Commands`). When
  the command of a search fails to start, Find File is refused from then on, until a
  Find in Files has ended (`moofind.cpp:994`; `findCmd`). A background process of a
  tool cannot be stopped once the tool itself has ended (`moospawn.c:689`; `Abort`).
- A folder that is reloaded while it reads its files tells its views of a file they do
  not have (`moofoldermodel.c:471`; `fault` of `Folders`).

## Proofs

All theorems hold for every value of the constants, under the named assumptions
`FileWatchAssumption`, `UndoStackAssumption`, `DocSyncAssumption`, `CommandsAssumption`,
`WindowsAssumption`, `FoldersAssumption` and `RecentFilesAssumption`, which the runs
evaluate. The bounds of the models are constants like the others: what is proved holds
for any number of documents, files, timers, commands, windows, folders, views and
instances, and any depth of nested main loops. The theorems of `DocManualProofs` assume
`Prefs \subseteq {FALSE}` besides: a program in which auto sync, which is off by default,
is never turned on; and `QuitDepth <= 1`: a quit comes from the outermost main loop, not
from that of a dialog (`ManualOnly`). Without either the properties do not hold (see above).

`FileWatchProofs`: `WatchTypes` (`WatchSpec => []WatchTypeOK`), by induction over the
actions of the watch, its clients and the disk. What else the proofs about documents need
of a poll is `PollKept` (`WatchNextPollKept`): a monitor it reported as deleted is not
looked at again, and a poll that ended leaves nothing behind.

`DocSyncProofs`: the inductive invariant, with and without auto sync, is
`Inv == TypeOK /\ GoodStack(stack) /\ PollKept /\ Owners /\ CallbackOK /\
MonitorsOwned /\ TimersOwned`.

- `GoodStack`: below the top there are only handlers that wait, in a dialog, in a poll
  or for the handler they called, and each has the document and the file it needs.
- `Owners`: every monitor is for a document. `CallbackOK`: the callback on top was called
  for a monitor that is in the table and that its open document holds, and with the
  event *deleted* if and only if the poll means to remove it. `MonitorsOwned` alone is
  not inductive: when a callback about a deletion returns, its id is no longer one the
  watch serves, and only `CallbackOK` tells which document has to have dropped it.
- `TimersOwned`: a timer id is that of a pending timer of the same document, or of the
  one being dispatched; a closed document has none, and no two documents have the same.

First come lemmas about stacks (what each way of going on, `Push`, `Goto`, `Return`,
leaves below), then one about each helper that changes a document's monitor
(`MonitorStopped`, ...), then one per action. `NextSound` shows of each step, besides `Inv'`,
that it is a step of FileWatch or none (`DocSyncImplementsWatch`) and keeps pending
timers (`TimersNotMixedUp`); the theorems `DocSyncTypes`, `DocumentsOwnMonitors` and
`CallbacksAccepted` follow from `Inv`. `DocumentsOwnMonitors` covers what no run has room
for: two documents that load one file, the second under the dialog about its encoding.

`DocManualProofs`: under `ManualOnly`, `ManualInv` adds what no `MonitorsOwned` tells, that
a handler goes on with the document it knew.

- `ManualStack`: a quit is the outermost handler; the handlers that close a document are
  outermost only, or called by a quit that is, and those that
  save are outermost or called by one that closes, since these are what a user asks for,
  and the user only answers while a dialog is open. A document that is being opened is
  known to no handler further out, so failing to load it may free it.
- `StackOpen`: every handler on the stack has an open document: `NoFault`, said of all
  frames ahead of the time they run.
- `DocOK`: the flag MODIFIED, the modified flag of the buffer and the text agree.
- `TopOK`: what the handler on top has made sure of: `do_close_doc` is reached with
  nothing to save, or after *discard*; a save that succeeded has saved the text the
  document has now.

`NoUseAfterClose`, `ModifiedFlagHonest`, `NoTextLost` and `FlagsAreNews` follow, the
last two with what `NextManual` shows of each step. `QuitIdle` is where `QuitDepth <= 1`
enters: a quit finds no handler waiting. `NoTextLost` is about closing and quitting only;
`Reopen` drops the text of a document that stays open.

`CommandsProofs`: `Inv == Sound(State)`, where `State` is the program's state as one
record, since the handlers of a command are functions of it, called by others.
`Accounted` is the heart: of a command that a view shows and nobody stopped, each line
written was shown, or waits in a pipe that is still open. It needs that no two views
show one command (`OneView`) and that a command that is freed leaves nothing to the
next one with its address (`IdleAreClean`). `Counted` ties `match_count` to the command
of the find view: it is the number of lines counted for that command, no more than it was
shown, and all of them for Find File. `OutputComesBeforeExit` and `SearchesCountOwnLines`
follow.

`WindowsProofs`: `Inv == Sound(State)`. Of a program that has ended, `Ended` says that
nothing is left; of one that runs, six parts hold together:

- `House`: an open document is a tab of one window, and windows are listed once.
- `Waits`: what a handler under a question is about to close has no changes its
  question does not name, and is still in its window or closed for good. The window is
  blocked, so nobody else can have moved or edited it: this is where a dialog that
  blocked too little would show.
- `Apart`: what `close_docs` is to close is on no other handler's hands, or the inner
  one would close it first.
- `Called`: a `close_all` that waits has the window it called for still on its list.
- `Flags`: one `close_all` that tries to quit waits at most, exactly while
  `in_try_quit` and `saved_session_in_try_quit` are set, and none that ends the
  program while it is `running`. `FlagsTruthful` follows.
- `Remembered`: the files that were open when a handler of a quit began are in the
  session. It rests on `Flags`: only the first save of a quit sees all of them.

A handler returns into the one that called it, and that may close the next window, so one
answer may end several handlers. `Proper(s, t, ask)` is what the whole way from `s` to `t`
keeps to (only named documents lose changes, no listed window is emptied, the flags and
the session move as they should); lemmas compose it along the calls
(`ProceedProper`, `ReturnedProper`, `BeginProper`), and `NextSound` turns it into the
action properties: `FlagsAreTruthful`, `ChangesAreAskedFor`, `TabsStay`,
`SessionIsKept`. `ChangesAreAskedFor` is about closing while the program runs: the end of the
program, by a signal or after a quit whose last question was answered with Cancel
(`mooapp.cpp:826`), drops changes no question was answered for.

`FoldersProofs`: `Inv == WatchTypeOK /\ ... /\ Sound(State) /\ Polled`. The parts of
`Sound` need each other, since one handler may free a folder, cancel its monitor and take
it from the cache at once:

- `Owned`: a monitor and the folder that waits for it know each other, and their paths
  agree. `MonitorsServed` follows; it leaves out the monitors the poll is to remove,
  `Owned` does not: a folder that is told it is deleted cancels its monitor itself.
- `Cached`: the folders without users are just those in the queue, each once; the
  registry names folders in use, and the table of the cache those in the queue, by
  their paths. `CacheSound` says less: that a folder in the queue is listed once is what
  `g_queue_remove` needs to take it off for good.
- `Viewed`: a view holds a folder in use, so none of those the cache may free, and shows
  just its files. `RowsMatch` follows.
- `ImplOK`: nothing of a free folder is pending; its files have different names, or a
  reload could find no new object for a name.
- `Polled`: between two monitors of a poll there is no event, and what the poll means to
  remove has no folder any more, but for the one of the event on hand.

There is one lemma for each function of the code (`FinalizedSound`, `UnrefSound`,
`DeletedEmitted`, `ReloadSound`, `StatBitSound`, `GotFolder`, `CurrentDirSet`, ...), each
from those it calls; the lemmas about lists (`FirstRemoved`, `Pushed`, `Popped`) are what
the cache needs; the actions compose them. The run has one view; the theorems say the
same of views that share folders, until an assertion fails or a freed handler runs.

`RecentFilesProofs` is about any number of instances, items and changes, and any limit of
the list. Each part of its invariant rests on those before it.

- `Answers` takes in the whole start of an instance: from the moment it has bound its pid
  the name is its own, and from `listen()` on it can be reached, unless it is in `struck`.
  It holds because a name is only ever removed by its owner on leaving or by one who could
  not connect, and the latter strikes an instance that is between `bind()` and `listen()`.
  `FilesAreHandedOver` (`HandsOver`) follows: when a plain start tries all names and none
  answers, no unstruck instance is running.
- `Typed` and `Posted`: what waits at a socket was sent by another instance under a stamp it
  has used, to one that had started.
- `Paid`: each message that was sent, each addition that is *due* (sent, waiting, and newer
  than what the receiver has seen), and each update that is due, with the weight of the
  addition it may become everywhere, is covered by what the users' changes may cost
  (`Covered`). `EchoesBounded` alone is not inductive, since receiving a message sends
  others: what the receipt sends is taken from what was due. A second copy of a message
  is not due any more, and a removal never sends anything. `EchoesAreBounded` follows.
  When another instance starts, the cost of a change grows by more than the weights do
  (`CostGrows`).
- `Orderly`: names are in the directory, an instance that does not run yet has read no list,
  and one that has not started was sent nothing.
- `Settling`: while nothing is `disturbed` there is one last change (`Converging`), from `old`
  to `new`, told by `o` under stamp `s`. `Good` says what its messages `M` and the removals `R`
  they cause do to a list: `M` leads to `new` from `old` and from `mid`, `R` from `old` to
  `mid`, and neither changes `new`. `mid` is there because the removal of the item that
  falls off a full list may arrive from a third instance before the addition itself.
  A running instance has `new`, or else awaits `s`: it is the first packet of `o` on every
  socket, so that no stamp of `o` that was seen can hide it (`Awaits`, `InOrder`). Whoever is
  to save has `new` (`Saves`), and an instance that can hear and has not read the file yet
  will read `new` or await `s`. When all is quiet nobody awaits anything, and `ListsAgree`
  (`Agreement`) follows.

First come lemmas about lists, each saying what `Added`, `Updated` and `Removed` return in one
case (in front already, fits, pushes one out); `ChangeGood` puts them together and finds the
`mid` and `R` of any change. Then the queues: what a broadcast and a receipt do to them
(`BroadcastSends`, `HeadTaken`), to sums (`DueSent`, `ChangeCovered`, `ReceiptCovered`) and to
their order (`ExpectsTaken`, `ExpectsSent`, `FirstTold`). There is one lemma for each kind of
step, and `NextPaid` and `NextSettles` compose them.

`UndoStackProofs`: the inductive invariant is
`Inv == TypeOK /\ Linked /\ SavedFound /\ Bracketed /\ Grouped`.

- `Linked`: the stacks are chains of texts that meet at `text`, each action undoes
  and redoes what it says (`Sound`), and no id occurs twice. `Chained` follows.
  `Chained` alone is not inductive: a merge needs that an action inserts between,
  or removes from between, two known parts of its text, which `Sound` states.
- `SavedFound`: an unmodified buffer has the saved text, and `modifying_action`
  leads away from it on one stack or the other. This needs unique ids.
- `Bracketed`: the counters agree, and a frozen stack is empty unless a walk
  froze it. It keeps edits that are not recorded from leaving old actions behind.
- `Grouped`: each stack ends with the opening of a group, except in a walk.

Lemmas about texts (`InsertBetween`, `DeleteInserted`, `InsertJoined`, ...) say what
insertion and deletion do to the parts of a text; lemmas about stacks
(`UndoChainPush`, `IdsOfPush`, ...) what one more action does to each part of the
invariant. There is one lemma per action, then `NextInv` and `SpecInv`. The
theorems: `UndoTypes`, `UndoChained`, `UndoModifiedTruthful`,
`UndoModifyingActionLive`, `UndoGroupsWhole`.

Last, `UndoImplementsHistory == Spec => ImplementsHistory`, on top of
`Inv`. It names the mapped sequences (`Froms`, `Tos`) and the mapped place, shows
how one more action on a stack moves them, and maps each action: an edit to `Edit`,
`JoinedEdit` or `EditUnrecorded`; one turn of undo or redo to `Back` or `Forth`;
freezing to `Forget`; set-modified to `MarkClean`; the rest to a stutter.

## What is only model-checked, and what is not modelled

With TLC only: liveness (`NewerReported`, `DeletionSettled`, `NewerFileNoticed`,
`DeletionNoticed`, `EditsReachDisk`, `EndReported`), which needs fairness and `ENABLED`; and
all of `LineBTree` and `Bookmarks` (`TreeSound`, `LineNumbersTrue`, `BookmarksOwned`,
`SortedUnlessPending`, `KeepsMarks`): the tree is walked by recursive operators, and what they
compute for every tree needs induction over trees.

Left out of modelled parts:

- file watch: `moo_file_watch_close` (the one watch lives as long as the editor), the
  win32 back end; the order of the snapshot of ids (any order here).
- documents: untitled numbers, printing, *save copy*, configuration and language of a
  document. The steps of a write are one step (`DoWrite`), which leaves the old file or
  the new one: `moofilewriter.cpp` hands them to GLib's `g_file_replace`, whose code is
  not here. Each document has a window of its own, no document is made while a quit asks,
  and signals are left out: what several windows and documents do to each other on the way
  out is in Windows.
- windows: the order of tabs and which one is active, the split view, documents
  without a window, a document that prints (it refuses to be closed), the question
  auto sync asks about a new document, and the `quit` signal of the session manager that
  follows its request. An answer counts when its question is the innermost.
- folders: liveness (nothing bounds how often a directory changes while it is read);
  more than one view at a time in the run (`freed` may happen there; the theorems are
  about any number); the completion of
  the path entry, which holds folders too; the widgets.
- recent files: instances with names of their own or without sockets (`-n`); the bytes
  of messages and messages in parts; errors of disk and parser; the limit of waiting
  connections (the hazard at `mooappinput-unix.c:598`); a crash in the middle of a
  broadcast; what becomes of files handed to an instance that is leaving. Two changes
  that meet may leave lists in different orders: nothing in the code promises otherwise,
  and `Agreement` is about changes that do not meet.
- commands: the text of lines (a line Find in Files gets may count or not), the output filters, errors of reading a pipe, the win32
  side, commands that collect their output, tools run elsewhere than in the pane; a
  handler of a line that runs a main loop or another command (none of the program's
  does).
- time: an auto sync timer and the poll fire at any time after they are started.
- undo: the cursor and the selection, `new_group` by a caller other than undo, and
  MooEntry, which uses the same stack with the same kind of actions.
- line marks: folds, and marks other than bookmarks. Numbers of bookmarks (1 to 9) are
  a label. GTK's own tree of lines is its number of lines. Which of two bookmarks of a
  line is found first is left open.
- bytes: an id is one of a small set; counters do not overflow.

Every other part is in `PROJECT.json` with its reason.

## Plan

In this order:

1. **FileWriter**: the deferred error, and that `do_save` looks at an error a failed
   write may not have set.
2. **Encoding**: byte order marks and the choice of an encoding as operators, checked
   against "what is saved loads as the same text".
3. **EventQueue**: threads.

The implementation also has parts that no model will make clearer: widgets, drawing,
menus, look-up tables of languages and preferences, generated bindings, and the code
of others. They are most of its lines; `PROJECT.json` lists them as not modelled.
