------------------------------- MODULE Folders -------------------------------
(***************************************************************************)
(* The folders of the file browser: MooFolder and its MooFolderImpl        *)
(* (moo/moofileview/moofolder.c), the registry and the cache of            *)
(* MooFileSystem (moofilesystem.c), the model each file view shows         *)
(* (moofoldermodel.c), all on top of a watch of their own (FileWatch).     *)
(*                                                                         *)
(* A folder lists its directory once, looks at the files in stages, a bit  *)
(* per turn of the main loop, and only then starts a monitor; a change of  *)
(* the directory makes it list again from an idle.  Views of the same path *)
(* share a folder; a folder without views keeps its impl in a cache.       *)
(*                                                                         *)
(* No callback of a folder runs a nested main loop, so the main thread     *)
(* does one handler at a time; other processes act between any two steps.  *)
(***************************************************************************)
EXTENDS FileWatch, Sequences, SequencesExt

CONSTANTS
  Names,      \* names of directory entries
  DotDot,     \* the entry ".." that get_names puts first
  Views,      \* file views
  Changing,   \* directories that other processes change
  CacheSize   \* FOLDERS_CACHE_SIZE

Impls == Clients       \* addresses of MooFolderImpl, reused when freed
NoImpl == NoClient

ASSUME FoldersAssumption ==
  /\ DotDot \notin Names
  /\ CacheSize \in Nat
  /\ Changing \subseteq Files
  /\ IsFiniteSet(Ids)

VARIABLES
  entries,  \* what each directory holds
  impl,     \* MooFolderImpl
  folders,  \* fs->priv->folders: path -> the folder in use
  cache,    \* fs->priv->cache.queue
  paths,    \* fs->priv->cache.paths
  dir,      \* fileview->priv->current_dir
  shown,    \* the folder of the view's model
  rows,     \* the files in the view's model
  hung,     \* "deleted" handlers left behind by models that are gone
  event,    \* the event moo_file_watch_emit_event hands to fam_callback
  fault

folderVars == <<impl, folders, cache, paths, dir, shown, rows, hung, fault>>
vars == <<watchVars, entries, folderVars, event>>

\* A MooFile has an identity of its own: the same name may come back.
File == (Names \cup {DotDot}) \X {0, 1}
NamesOf(F) == {f[1] : f \in F}

Stage == 1 .. 3
STAGE_NAMES == 1
STAGE_STAT == 2
STAGE_MIME_TYPE == 3

\* untyped: files that exist and whose type was not looked up; copy:
\* files_copy, empty between stages; idle: populate_idle_id # 0
Impl == [path : Files \cup {NoFile}, proxy : BOOLEAN, deleted : BOOLEAN,
         done : Stage, files : SUBSET File, untyped : SUBSET File,
         copy : SUBSET File, idle : BOOLEAN, request : Ids \cup {0},
         reload : BOOLEAN]

FreeImpl == [path |-> NoFile, proxy |-> FALSE, deleted |-> FALSE,
             done |-> STAGE_NAMES, files |-> {}, untyped |-> {}, copy |-> {},
             idle |-> FALSE, request |-> 0, reload |-> FALSE]

NoEvent == [id |-> 0, code |-> "none", data |-> NoImpl]

(***************************************************************************)
(* Handlers call each other, so what they do is written on one record of   *)
(* the program's state; Becomes makes it the next state.                   *)
(***************************************************************************)
State == [impl |-> impl, folders |-> folders, cache |-> cache, paths |-> paths,
          monitors |-> monitors, dir |-> dir, shown |-> shown, rows |-> rows,
          hung |-> hung, fault |-> fault]

Becomes(s) ==
  /\ impl' = s.impl /\ folders' = s.folders /\ cache' = s.cache
  /\ paths' = s.paths /\ monitors' = s.monitors /\ dir' = s.dir
  /\ shown' = s.shown /\ rows' = s.rows /\ hung' = s.hung /\ fault' = s.fault

\* The address malloc returns, the id the watch gives.
FreshImpls(s) == {i \in Impls : s.impl[i].path = NoFile}
FreshIn(s) == {i \in Ids : s.monitors[i].file = NoFile} \ (poll.todo \cup poll.gone)

Showing(s, i) == {v \in Views : s.shown[v] = i /\ s.impl[i].proxy}

(***************************************************************************)
(* The model of a view: it asserts that it has just the files it is told   *)
(* to change or remove, and none of those it is told to add.               *)
(***************************************************************************)
Asserted(s, ok) == IF ok \/ s.fault # "none" THEN s ELSE [s EXCEPT !.fault = "assert"]

FilesAdded(s, i, F) ==
  Asserted([s EXCEPT !.rows = [v \in Views |->
              IF v \in Showing(s, i) THEN s.rows[v] \cup F ELSE s.rows[v]]],
           \A v \in Showing(s, i) : s.rows[v] \cap F = {})

FilesRemoved(s, i, F) ==
  Asserted([s EXCEPT !.rows = [v \in Views |->
              IF v \in Showing(s, i) THEN s.rows[v] \ F ELSE s.rows[v]]],
           \A v \in Showing(s, i) : F \subseteq s.rows[v])

FilesChanged(s, i, F) ==
  Asserted(s, \A v \in Showing(s, i) : F \subseteq s.rows[v])

\* Mutant of StopMonitor: the request is forgotten, not cancelled.
StopMonitorForgets(s, i) == [s EXCEPT !.impl[i].request = 0]

StopMonitor(s, i) ==
  IF s.impl[i].request = 0 THEN s
  ELSE [s EXCEPT !.monitors = Cancelled(@, s.impl[i].request),
                 !.impl[i].request = 0]

\* folder_shutdown
FolderShutdown(s, i) ==
  [StopMonitor(s, i) EXCEPT
     !.impl[i] = [@ EXCEPT !.idle = FALSE, !.copy = {}, !.reload = FALSE,
                           !.files = {}, !.untyped = {}]]

\* _moo_folder_impl_free
ImplFree(s, i) == [FolderShutdown(s, i) EXCEPT !.impl[i] = FreeImpl]

\* Mutant of AddFolderCache: what is pushed out is not forgotten by its path.
AddFolderCacheKeepsPath(s, i) ==
  LET queue == <<i>> \o s.cache
      s1 == [s EXCEPT !.cache = queue, !.paths[s.impl[i].path] = i]
      old == Last(queue)
  IN IF Len(queue) <= CacheSize THEN s1
     ELSE ImplFree([s1 EXCEPT !.cache = Front(@)], old)

AddFolderCache(s, i) ==
  LET queue == <<i>> \o s.cache
      s1 == [s EXCEPT !.cache = queue, !.paths[s.impl[i].path] = i]
      old == Last(queue)
  IN IF Len(queue) <= CacheSize THEN s1
     ELSE ImplFree([s1 EXCEPT !.cache = Front(@), !.paths[s.impl[old].path] = NoImpl], old)

\* moo_folder_dispose and _moo_file_system_folder_finalized: whatever folder
\* is registered under the path is dropped from the registry.
Finalized(s, i) ==
  LET s1 == [s EXCEPT !.impl[i].proxy = FALSE, !.hung[i] = FALSE,
                      !.folders[s.impl[i].path] = NoImpl]
  IN IF s.impl[i].deleted THEN ImplFree(s1, i) ELSE AddFolderCache(s1, i)

\* g_object_unref by the last holder of the folder, if it was the last.
Unref(s, i) ==
  IF i # NoImpl /\ s.impl[i].proxy /\ \A v \in Views : i \notin {s.dir[v], s.shown[v]}
    THEN Finalized(s, i) ELSE s

(***************************************************************************)
(* Looking at the files, a bit at a time.                                  *)
(***************************************************************************)
StartMonitor(s, i) ==
  LET f == s.impl[i].path
      id == CHOOSE id \in FreshIn(s) : TRUE
  IN IF Exists(f)
       THEN [s EXCEPT !.monitors = Created(@, id, f, i), !.impl[i].request = id]
       ELSE s

Remaining(s, i) == IF s.impl[i].copy = {} THEN s.impl[i].files ELSE s.impl[i].copy

\* What one turn may get through before its time is up: one file at least.
Bits(F) == IF F = {} THEN {{}} ELSE (SUBSET F) \ {{}}

\* get_stat_a_bit: get_names has got the stat of every file but "..".
StatBit(s, i, F) ==
  LET s1 == FilesChanged(s, i, F \cap {<<DotDot, 0>>})
  IN IF F = Remaining(s, i)
       THEN [s1 EXCEPT !.impl[i] = [@ EXCEPT !.done = STAGE_STAT, !.copy = {}, !.idle = TRUE]]
       ELSE [s1 EXCEPT !.impl[i] = [@ EXCEPT !.copy = Remaining(s, i) \ F, !.idle = TRUE]]

\* get_icons_a_bit
IconsBit(s, i, F) ==
  LET s1 == [FilesChanged(s, i, F \cap s.impl[i].untyped)
               EXCEPT !.impl[i].untyped = @ \ F]
  IN IF F = Remaining(s, i)
       THEN StartMonitor([s1 EXCEPT !.impl[i] = [@ EXCEPT !.done = STAGE_MIME_TYPE,
                                                          !.copy = {}, !.idle = FALSE]], i)
       ELSE [s1 EXCEPT !.impl[i] = [@ EXCEPT !.copy = Remaining(s, i) \ F, !.idle = TRUE]]

\* populate_func: the states a turn may leave; a turn that ends the stage of
\* stats may go on with the stage of icons if it was quick.
Populated(s, i) ==
  LET Icons(t) == {IconsBit(t, i, F) : F \in Bits(Remaining(t, i))}
      Stats == {StatBit(s, i, F) : F \in Bits(Remaining(s, i))}
  IN IF s.impl[i].done = STAGE_STAT THEN Icons(s)
     ELSE Stats \cup (UNION {Icons(t) : t \in {u \in Stats : u.impl[i].done = STAGE_STAT}})

(***************************************************************************)
(* Getting a folder, by any view.                                          *)
(***************************************************************************)
\* _moo_folder_new: get_names (nobody is connected yet), then a first bit.
NewFolder(s, p, i) ==
  LET names == {<<n, 0>> : n \in entries[p]}
  IN [s EXCEPT !.impl[i] = [FreeImpl EXCEPT !.path = p, !.proxy = TRUE,
                                            !.files = names \cup {<<DotDot, 0>>},
                                            !.untyped = names \cup {<<DotDot, 0>>}],
               !.folders[p] = i]

\* get_folder: the folder and the states it may leave.
GetFolder(s, p) ==
  IF s.folders[p] # NoImpl THEN {<<s.folders[p], s>>}
  ELSE IF s.paths[p] # NoImpl THEN
    LET i == s.paths[p]
    IN {<<i, [s EXCEPT !.paths[p] = NoImpl, !.cache = RemoveFirst(@, i),
                       !.impl[i].proxy = TRUE, !.folders[p] = i]>>}
  ELSE LET i == CHOOSE i \in FreshImpls(s) : TRUE
       IN {<<i, t>> : t \in Populated(NewFolder(s, p, i), i)}

\* _moo_folder_model_set_folder
ModelSetFolder(s, v, i) ==
  Unref([s EXCEPT !.shown[v] = i,
                  !.rows[v] = IF i = NoImpl THEN {} ELSE s.impl[i].files], s.shown[v])

\* Mutant of SetCurrentDir: the view keeps its folder when the folder is deleted
\* but the model is not told about the new one.
SetCurrentDirOnly(s, v, i) ==
  IF i = s.dir[v] THEN s
  ELSE Unref([s EXCEPT !.dir[v] = i], s.dir[v])

\* moo_file_view_set_current_dir
SetCurrentDir(s, v, i) ==
  IF i = s.dir[v] THEN s
  ELSE Unref(ModelSetFolder([s EXCEPT !.dir[v] = i], v, i), s.dir[v])

\* folder_emit_deleted: the models let go of the folder, the views do not.
FolderEmitDeleted(s, i) ==
  LET s1 == [FolderShutdown(s, i) EXCEPT !.impl[i].deleted = TRUE]
      p == s.impl[i].path
      told == [s1 EXCEPT
                 !.folders[p] = NoImpl,
                 !.fault = IF s.hung[i] THEN "freed" ELSE @,
                 !.shown = [v \in Views |-> IF s.shown[v] = i THEN NoImpl ELSE s.shown[v]],
                 !.rows = [v \in Views |-> IF s.shown[v] = i THEN {} ELSE s.rows[v]]]
  IN IF s.impl[i].proxy THEN Unref(told, i)
     ELSE ImplFree([s1 EXCEPT !.paths[p] = NoImpl, !.cache = RemoveFirst(@, i)], i)

\* file_created, for the names N: objects none of the lists still holds, looked
\* at right away.
FilesCreated(s, i, N) ==
  LET used == s.impl[i].files \cup s.impl[i].copy
      files == {CHOOSE f \in {n} \X {0, 1} : f \notin used : n \in N}
  IN FilesAdded([s EXCEPT !.impl[i].files = @ \cup files], i, files)

\* file_deleted, for the files of the folder with the names N
FilesDeleted(s, i, N) ==
  LET gone == {f \in s.impl[i].files : f[1] \in N}
  IN FilesRemoved([s EXCEPT !.impl[i].files = @ \ gone], i, gone)

\* moo_folder_do_reload: ".." is not among the names g_dir_read_name gives.
DoReload(s, i) ==
  LET s1 == [s EXCEPT !.impl[i].reload = FALSE]
      p == s.impl[i].path
      listed == NamesOf(s.impl[i].files)
  IN IF ~Exists(p) THEN FolderEmitDeleted(s1, i)
     ELSE FilesDeleted(FilesCreated(s1, i, entries[p] \ listed), i, listed \ entries[p])

FoldersInit ==
  /\ WatchInit
  /\ entries \in [Files -> SUBSET Names]
  /\ \A p \in Files : ~Exists(p) \/ p \notin Changing => entries[p] = {}
  /\ impl = [i \in Impls |-> FreeImpl]
  /\ folders = [p \in Files |-> NoImpl]
  /\ cache = <<>>
  /\ paths = [p \in Files |-> NoImpl]
  /\ dir = [v \in Views |-> NoImpl]
  /\ shown = [v \in Views |-> NoImpl]
  /\ rows = [v \in Views |-> {}]
  /\ hung = [i \in Impls |-> FALSE]
  /\ event = NoEvent
  /\ fault = "none"

(***************************************************************************)
(* Other processes.  The mtime of a directory is the time of the last      *)
(* change of its entries.                                                  *)
(***************************************************************************)
ChangeEntries(p, E) ==
  /\ Exists(p)
  /\ E # entries[p]
  /\ entries' = [entries EXCEPT ![p] = E]
  /\ ReplaceFile(p, now)
  /\ UNCHANGED <<folderVars, event>>

RemoveDir(p) ==
  /\ DeleteFile(p)
  /\ entries' = [entries EXCEPT ![p] = {}]
  /\ UNCHANGED <<folderVars, event>>

\* It is made, or may be looked at again.
MakeDir(p) ==
  /\ ~Exists(p)
  /\ ReplaceFile(p, now)
  /\ UNCHANGED <<entries, folderVars, event>>

Elsewhere ==
  \/ /\ \/ Tick
        \/ \E p \in Files : HideFile(p)
     /\ UNCHANGED <<entries, folderVars, event>>
  \/ \E p \in Changing : \/ \E E \in SUBSET Names : ChangeEntries(p, E)
                         \/ RemoveDir(p)
                         \/ MakeDir(p)

(***************************************************************************)
(* The main thread of the program: one handler at a time.                  *)
(***************************************************************************)
Handler(s) ==
  /\ ~poll.running
  /\ fault = "none"
  /\ Becomes(s)
  /\ UNCHANGED <<fs, now, poll, entries, event>>

\* moo_file_view_chdir_real, when _moo_file_system_get_folder succeeds
Chdir(v, p) ==
  /\ \/ {folders[p], paths[p]} # {NoImpl}
     \/ Exists(p) /\ FreshImpls(State) # {} /\ FreshIn(State) # {}
  /\ \E r \in GetFolder(State, p) : Handler(SetCurrentDir(r[2], v, r[1]))

\* moo_file_view_finalize: the model goes first, and leaves its handler of
\* "deleted" connected.
CloseView(v) ==
  LET i == shown[v]
      s1 == IF i = NoImpl THEN State ELSE [State EXCEPT !.hung[i] = TRUE]
      s2 == ModelSetFolder(s1, v, NoImpl)
  IN /\ dir[v] # NoImpl
     /\ Handler(Unref([s2 EXCEPT !.dir[v] = NoImpl], dir[v]))

\* _moo_folder_reload, by the action of a view
Reload(v) ==
  LET i == dir[v]
  IN /\ i # NoImpl
     /\ ~impl[i].deleted
     /\ Handler(DoReload(State, i))

\* file_list_row_activated on a directory that is gone, and so
\* _moo_folder_check_exists
ActivateVanished(v, n) ==
  LET i == shown[v]
  IN /\ i # NoImpl
     /\ n \in NamesOf(rows[v])
     /\ n \notin entries[impl[i].path] \cup {DotDot}
     /\ Handler(FilesDeleted(State, i, {n}))

\* The timeout that calls populate_func.
PopulateTimeout(i) ==
  /\ impl[i].idle
  /\ FreshIn(State) # {}
  /\ \E t \in Populated(State, i) : Handler(t)

ReloadIdle(i) ==
  /\ impl[i].reload
  /\ Handler(DoReload(State, i))

(***************************************************************************)
(* do_stat, and the callback of a monitor.                                 *)
(***************************************************************************)
StartPoll ==
  /\ fault = "none"
  /\ PollBegin
  /\ UNCHANGED <<entries, folderVars, event>>

PollMonitor(id) ==
  /\ event = NoEvent
  /\ event' = IF EventCode(id) = "none" THEN NoEvent
              ELSE [id |-> id, code |-> EventCode(id), data |-> monitors[id].data]
  /\ StatMonitor(id)
  /\ UNCHANGED <<entries, folderVars>>

\* fam_callback
FamCallback ==
  LET i == event.data
  IN /\ event # NoEvent
     /\ fault = "none"
     /\ Becomes(CASE event.code = "changed" -> [State EXCEPT !.impl[i].reload = TRUE]
                  [] event.code = "deleted" -> FolderEmitDeleted(State, i)
                  [] event.code = "error" ->
                       [StopMonitor(State, i) EXCEPT !.impl[i].reload = TRUE])
     /\ event' = NoEvent
     /\ UNCHANGED <<fs, now, poll, entries>>

FinishPoll ==
  /\ event = NoEvent
  /\ fault = "none"
  /\ PollEnd
  /\ UNCHANGED <<entries, folderVars, event>>

MainLoop ==
  \/ \E i \in Impls : PopulateTimeout(i) \/ ReloadIdle(i)
  \/ StartPoll
  \/ \E id \in Ids : PollMonitor(id)
  \/ FamCallback
  \/ FinishPoll

User ==
  \E v \in Views : \/ \E p \in Files : Chdir(v, p)
                   \/ CloseView(v)
                   \/ Reload(v)
                   \/ \E n \in Names : ActivateVanished(v, n)

FoldersNext == Elsewhere \/ MainLoop \/ User

FoldersSpec == FoldersInit /\ [][FoldersNext]_vars

(***************************************************************************)
(* Properties.                                                             *)
(***************************************************************************)

Live(i) == impl[i].path # NoFile

\* A view lists exactly the files its folder holds, object by object, however
\* reloads, polls and views of the same folder interleave; a folder that is
\* shown is in use and was not deleted, and only a deleted one is not shown.
RowsMatch ==
  fault = "none" => \A v \in Views :
    IF shown[v] = NoImpl
      THEN rows[v] = {} /\ (dir[v] = NoImpl \/ impl[dir[v]].deleted)
    ELSE /\ rows[v] = impl[shown[v]].files
         /\ shown[v] = dir[v]
         /\ impl[shown[v]].proxy /\ ~impl[shown[v]].deleted

\* Every monitor serves the one folder that knows its id, which is not freed:
\* moo_file_watch_emit_event calls it with the impl as user data.
MonitorsServed ==
  \A id \in Requests :
    LET i == monitors[id].data
    IN \/ id \in poll.gone
       \/ Live(i) /\ impl[i].request = id /\ impl[i].path = monitors[id].file

\* What the registry and the cache point to was not freed or deleted; the first
\* has folders in use, the second those that are not.
CacheSound ==
  /\ \A p \in Files :
       /\ folders[p] # NoImpl =>
            LET i == folders[p]
            IN impl[i].path = p /\ impl[i].proxy /\ ~impl[i].deleted
       /\ paths[p] # NoImpl =>
            paths[p] \in ToSet(cache) /\ impl[paths[p]].path = p
  /\ \A i \in ToSet(cache) : Live(i) /\ ~impl[i].proxy /\ ~impl[i].deleted
==============================================================================
