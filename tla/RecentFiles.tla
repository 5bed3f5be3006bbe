---------------------------- MODULE RecentFiles -----------------------------
(***************************************************************************)
(* Running instances of the program and the list of recent files they      *)
(* share: MooHistoryMgr (moo/mooutils/moohistorymgr.c), its messages       *)
(* (mooapp-ipc.c), the sockets they go through (mooappinput-unix.c), and   *)
(* the start of an instance, which hands its files to a running one if it  *)
(* finds one (medit_main in moo/medit-app/main.cpp).                       *)
(*                                                                         *)
(* An instance has a socket in a common directory under its pid, and one   *)
(* under "main" if it got that name.  A change of the list is broadcast to *)
(* every socket of the directory and saved when the instance is idle: the  *)
(* whole list over the whole file.  The file is read once, at first use.   *)
(*                                                                         *)
(* A message is sent whole, and to all sockets, in one step; the order of  *)
(* the connections of one socket is kept, nothing is assumed of two.       *)
(* Instances without sockets (-n) and named ones are left out, and so are  *)
(* the errors of disk and parser.  The data of an item is its line.        *)
(***************************************************************************)
EXTENDS Naturals, FiniteSets, Sequences, SequencesExt, FiniteSetsExt

CONSTANTS
  Procs,         \* instances, each started at most once
  Uris,          \* uris of files
  Lines,         \* what an item remembers of its file
  Main,          \* MOO_APP_INPUT_NAME_DEFAULT
  Nobody,        \* no socket file
  InitialFiles,  \* lists that earlier sessions left in the file
  MaxItemNumber, \* MAX_ITEM_NUMBER
  MaxEvents      \* bound: starts, crashes and changes, together

ASSUME RecentFilesAssumption ==
  /\ IsFiniteSet(Procs)
  /\ Main \notin Procs /\ Nobody \notin Procs
  /\ MaxItemNumber \in Nat \ {0}
  /\ \A l \in InitialFiles :
       /\ l \in Seq([uri : Uris, line : Lines]) /\ Len(l) <= MaxItemNumber
       /\ \A i, j \in DOMAIN l : l[i].uri = l[j].uri => i = j
  /\ MaxEvents \in Nat

VARIABLES
  at,        \* how far an instance is
  sockets,   \* the names an instance listens at
  owner,     \* whose socket a name of the directory stands for
  dir,       \* the directory exists
  queue,     \* what waits at each socket of an instance
  stamp,     \* ipc_data.stamp
  seen,      \* ipc_data.stamp_hash
  list,      \* mgr->priv->files
  loaded,    \* the instances with mgr->priv->loaded
  pending,   \* the instances with a save_idle
  file,      \* the items in the file; none when there is no file
  changes,   \* how many changes users made
  disturbed, \* a change met another, a start or a crash
  struck     \* instances whose name was removed, or not made, at their start

sharedVars == <<owner, dir, struck>>
ipcVars    == <<queue, stamp, seen>>
listVars   == <<list, loaded, pending, file, changes>>
vars == <<at, sockets, sharedVars, ipcVars, listVars, disturbed>>

Names == Procs \cup {Main}
Items == [uri : Uris, line : Lines]
Starting == {"init", "bind_pid", "listen_pid", "try_main", "unlink_main",
             "bind_main", "listen_main"}
Gone == {"handed_over", "ended", "crashed"}

Alive(p) == at[p] \in Starting \cup {"running", "leaving"}
Started == {p \in Procs : at[p] # "off"}

\* The bound on what happens to the instances from outside.
MayHappen ==
  changes + Cardinality(Started) + Cardinality({p \in Procs : at[p] = "crashed"})
    < MaxEvents

Init ==
  /\ at = [p \in Procs |-> "off"]
  /\ sockets = [p \in Procs |-> {}]
  /\ owner = [n \in Names |-> Nobody]
  /\ dir = FALSE
  /\ queue = [p \in Procs |-> [n \in {p, Main} |-> <<>>]]
  /\ stamp = [p \in Procs |-> 0]
  /\ seen = [p \in Procs |-> [q \in Procs |-> 0]]
  /\ list = [p \in Procs |-> <<>>]
  /\ loaded = {}
  /\ pending = {}
  /\ file \in InitialFiles
  /\ changes = 0
  /\ disturbed = FALSE
  /\ struck = {}

-----------------------------------------------------------------------------
(***************************************************************************)
(* The list.                                                               *)
(***************************************************************************)
Has(l, uri) == \E i \in DOMAIN l : l[i].uri = uri
Without(l, uri) ==
  IF Has(l, uri) THEN RemoveAt(l, CHOOSE i \in DOMAIN l : l[i].uri = uri) ELSE l

\* What a handler does to the list: the new list, the messages it sends.
Result(l, sent) == [list |-> l, sent |-> sent]
Msg(type, it) == [type |-> type, item |-> it]

Removed(l, it, notify) ==
  IF Has(l, it.uri)
  THEN Result(Without(l, it.uri), IF notify THEN <<Msg("remove", it)>> ELSE <<>>)
  ELSE Result(l, <<>>)

\* Mutant: the flag notify is not looked at.
AddedEchoing(l, it, notify) ==
  LET l1 == <<it>> \o Without(l, it.uri)
      over == Removed(l1, Last(l1), TRUE)
  IN  IF l # <<>> /\ Head(l) = it THEN Result(l, <<>>)
      ELSE IF Len(l1) > MaxItemNumber
      THEN Result(over.list, <<Msg("add", it)>> \o over.sent)
      ELSE Result(l1, <<Msg("add", it)>>)

\* moo_history_mgr_add_file_real; the item that falls off the end goes with
\* a message also when the addition came with one.
Added(l, it, notify) ==
  LET changed == l = <<>> \/ Head(l) # it
      l1 == IF changed THEN <<it>> \o Without(l, it.uri) ELSE l
      sent1 == IF changed /\ notify THEN <<Msg("add", it)>> ELSE <<>>
      over == Removed(l1, Last(l1), TRUE)
  IN  IF Len(l1) > MaxItemNumber THEN Result(over.list, sent1 \o over.sent)
      ELSE Result(l1, sent1)

\* moo_history_mgr_update_file_real; a missing item is added with a message
\* also when the update came with one.
Updated(l, it, notify) ==
  IF ~Has(l, it.uri) THEN Added(l, it, TRUE)
  ELSE IF \E i \in DOMAIN l : l[i] = it THEN Result(l, <<>>)
  ELSE Result([i \in DOMAIN l |-> IF l[i].uri = it.uri THEN it ELSE l[i]],
              IF notify THEN <<Msg("update", it)>> ELSE <<>>)

Applied(m, l, notify) ==
  CASE m.type = "add"    -> Added(l, m.item, notify)
    [] m.type = "update" -> Updated(l, m.item, notify)
    [] m.type = "remove" -> Removed(l, m.item, notify)

\* Mutant: the items are pushed at the head as they are read.
LoadedReversed(p) == IF p \in loaded THEN list[p] ELSE Reverse(file)

\* The list once ensure_files has run.
Loaded(p) == IF p \in loaded THEN list[p] ELSE file

-----------------------------------------------------------------------------
(***************************************************************************)
(* Sockets.                                                                *)
(***************************************************************************)
\* connect() succeeds: the name is there and its socket is listened at.
Reaches(n) == owner[n] # Nobody /\ n \in sockets[owner[n]]

\* try_connect removes the name when connect() fails.
Unlinked(names) == [n \in Names |-> IF n \in names THEN Nobody ELSE owner[n]]

\* What the removal of names does to an instance that has bound its socket
\* and will listen at it, or does.
Struck(names) == struck \cup {q \in Procs \cap names : owner[q] = q /\ Alive(q)}

\* remove() of the directory: it goes when it is empty.
DirAfter(own) == dir /\ \E n \in Names : own[n] # Nobody

\* _moo_app_input_broadcast of each of the messages: to the names that are
\* not p's own; the ones nobody listens at are removed.  waiting is what the
\* queues hold before it.
Broadcast(p, msgs, waiting) ==
  LET others == {n \in Names : owner[n] # Nobody /\ n \notin sockets[p]}
      dead == {n \in others : ~Reaches(n)}
      stamped == [i \in DOMAIN msgs |->
                    [from |-> p, stamp |-> stamp[p] + i, msg |-> msgs[i]]]
  IN  /\ stamp' = [stamp EXCEPT ![p] = @ + Len(msgs)]
      /\ IF msgs = <<>> THEN UNCHANGED <<owner, struck>>
         ELSE /\ owner' = Unlinked(dead)
              /\ struck' = Struck(dead)
      /\ UNCHANGED dir
      /\ queue' = [q \in Procs |-> [n \in {q, Main} |->
                    IF n \in others \ dead /\ owner[n] = q
                    THEN waiting[q][n] \o stamped ELSE waiting[q][n]]]

\* p applies a change: what the list becomes, what is sent, and whether a
\* save is scheduled, which goes with every message.
Change(p, result) ==
  /\ list' = [list EXCEPT ![p] = result.list]
  /\ loaded' = loaded \cup {p}
  /\ pending' = IF result.sent = <<>> THEN pending ELSE pending \cup {p}
  /\ file' = file

-----------------------------------------------------------------------------
(***************************************************************************)
(* The start of an instance.                                               *)
(***************************************************************************)
MoveTo(p, where) == at' = [at EXCEPT ![p] = where]

\* Mutant: only "main" is tried.
PlainStartMainOnly(p) ==
  /\ at[p] = "off" /\ MayHappen
  /\ MoveTo(p, IF Reaches(Main) THEN "handed_over" ELSE "init")
  /\ UNCHANGED <<sockets, sharedVars, ipcVars, listVars, disturbed>>

\* medit_main of a plain start: "main" first, then the other names in the
\* order of the directory, up to one that answers.
PlainStart(p) ==
  LET alive == {n \in Procs : Reaches(n)}
      dead == {n \in Names : ~Reaches(n)}
  IN  /\ at[p] = "off" /\ MayHappen
      /\ \/ /\ Reaches(Main)
            /\ MoveTo(p, "handed_over")
            /\ UNCHANGED sharedVars
         \/ /\ ~Reaches(Main) /\ alive # {}
            /\ \E met \in SUBSET (dead \ {Main}) :
                 /\ owner' = Unlinked(met \cup {Main})
                 /\ struck' = Struck(met \cup {Main})
            /\ MoveTo(p, "handed_over")
            /\ UNCHANGED dir
         \/ /\ ~Reaches(Main) /\ alive = {}
            /\ owner' = Unlinked(dead)
            /\ struck' = Struck(dead)
            /\ MoveTo(p, "init")
            /\ UNCHANGED dir
      /\ UNCHANGED <<sockets, ipcVars, listVars, disturbed>>

\* medit --new-app --use-session asks nobody.
NewStart(p) ==
  /\ at[p] = "off" /\ MayHappen
  /\ MoveTo(p, "init")
  /\ UNCHANGED <<sockets, sharedVars, ipcVars, listVars, disturbed>>

\* input_channel_start under the pid, which no other instance has.
MakeDir(p) ==
  /\ at[p] = "init"
  /\ dir' = TRUE
  /\ MoveTo(p, "bind_pid")
  /\ UNCHANGED <<sockets, owner, struck, ipcVars, listVars, disturbed>>

\* bind() fails when the last instance has removed the directory meanwhile;
\* the instance goes on without that socket.
BindPid(p) ==
  /\ at[p] = "bind_pid"
  /\ IF dir
     THEN /\ owner' = [owner EXCEPT ![p] = p]
          /\ MoveTo(p, "listen_pid")
          /\ UNCHANGED struck
     ELSE /\ struck' = struck \cup {p}
          /\ MoveTo(p, "try_main")
          /\ UNCHANGED owner
  /\ UNCHANGED <<sockets, dir, ipcVars, listVars, disturbed>>

\* From here on messages reach p; a change not yet saved was sent before.
ListenPid(p) ==
  /\ at[p] = "listen_pid"
  /\ sockets' = [sockets EXCEPT ![p] = @ \cup {p}]
  /\ disturbed' = (disturbed \/ pending # {})
  /\ MoveTo(p, "try_main")
  /\ UNCHANGED <<sharedVars, ipcVars, listVars>>

\* input_channel_start under "main", which may be in use.
TryMain(p) ==
  /\ at[p] = "try_main"
  /\ dir' = TRUE
  /\ MoveTo(p, IF Reaches(Main) THEN "running" ELSE "unlink_main")
  /\ UNCHANGED <<sockets, owner, struck, ipcVars, listVars, disturbed>>

UnlinkMain(p) ==
  /\ at[p] = "unlink_main"
  /\ owner' = Unlinked({Main})
  /\ MoveTo(p, "bind_main")
  /\ UNCHANGED <<sockets, dir, struck, ipcVars, listVars, disturbed>>

BindMain(p) ==
  /\ at[p] = "bind_main"
  /\ IF dir /\ owner[Main] = Nobody
     THEN /\ owner' = [owner EXCEPT ![Main] = p]
          /\ MoveTo(p, "listen_main")
          /\ UNCHANGED dir
     ELSE /\ dir' = DirAfter(owner)
          /\ MoveTo(p, "running")
          /\ UNCHANGED owner
  /\ UNCHANGED <<sockets, struck, ipcVars, listVars, disturbed>>

ListenMain(p) ==
  /\ at[p] = "listen_main"
  /\ sockets' = [sockets EXCEPT ![p] = @ \cup {Main}]
  /\ MoveTo(p, "running")
  /\ UNCHANGED <<sharedVars, ipcVars, listVars, disturbed>>

-----------------------------------------------------------------------------
(***************************************************************************)
(* A running instance.                                                     *)
(***************************************************************************)
\* All that was sent has arrived, all that changed is saved, and no
\* instance is starting.
Quiet ==
  /\ pending = {}
  /\ \A p \in Procs :
       /\ at[p] \notin Starting
       /\ at[p] = "running" => \A n \in DOMAIN queue[p] : queue[p][n] = <<>>

\* A document is opened, closed, or a recent file cannot be opened.
UserChange(p) ==
  /\ at[p] = "running"
  /\ MayHappen
  /\ changes' = changes + 1
  /\ disturbed' = (disturbed \/ ~Quiet \/ \E q \in struck : Alive(q))
  /\ \E m \in [type : {"add", "update", "remove"}, item : Items] :
       LET result == Applied(m, Loaded(p), TRUE)
       IN  /\ m.type = "remove" => m.item \in ToSet(Loaded(p))
           /\ Change(p, result)
           /\ Broadcast(p, result.sent, queue)
  /\ UNCHANGED <<at, sockets, seen>>

\* A menu is made, a file is looked up: moo_history_mgr_find_uri.
Look(p) ==
  /\ at[p] = "running"
  /\ p \notin loaded
  /\ Change(p, Result(file, <<>>))
  /\ UNCHANGED <<at, sockets, sharedVars, ipcVars, changes, disturbed>>

\* check_stamp: of what came by several sockets the first counts.
IsNew(p, packet) == packet.stamp > seen[p][packet.from]

\* _moo_ipc_dispatch and ipc_callback.
Receive(p) ==
  /\ at[p] = "running"
  /\ \E n \in DOMAIN queue[p] :
       /\ queue[p][n] # <<>>
       /\ LET packet == Head(queue[p][n])
              result == Applied(packet.msg, Loaded(p), FALSE)
              rest == [queue EXCEPT ![p][n] = Tail(@)]
          IN  IF IsNew(p, packet)
              THEN /\ seen' = [seen EXCEPT ![p][packet.from] = packet.stamp]
                   /\ Change(p, result)
                   /\ Broadcast(p, result.sent, rest)
              ELSE /\ queue' = rest
                   /\ UNCHANGED <<stamp, seen, sharedVars, list, loaded,
                                  pending, file>>
  /\ UNCHANGED <<at, sockets, changes, disturbed>>

\* save_in_idle: the file is rewritten, or removed when the list is empty.
Save(p) ==
  /\ at[p] = "running"
  /\ p \in pending
  /\ file' = list[p]
  /\ pending' = pending \ {p}
  /\ UNCHANGED <<at, sockets, sharedVars, ipcVars, list, loaded, changes,
                 disturbed>>

\* moo_app_do_quit: moo_history_mgr_shutdown saves what is pending, and no
\* message is handled after it.
Quit(p) ==
  /\ at[p] = "running"
  /\ file' = IF p \in pending THEN list[p] ELSE file
  /\ pending' = pending \ {p}
  /\ MoveTo(p, "leaving")
  /\ UNCHANGED <<sockets, sharedVars, ipcVars, list, loaded, changes, disturbed>>

\* What an instance leaves behind when it is gone.
Forgotten(p) ==
  /\ sockets' = [sockets EXCEPT ![p] = {}]
  /\ queue' = [queue EXCEPT ![p] = [n \in {p, Main} |-> <<>>]]
  /\ list' = [list EXCEPT ![p] = <<>>]
  /\ seen' = [seen EXCEPT ![p] = [q \in Procs |-> 0]]
  /\ loaded' = loaded \ {p}

\* moo_app_cleanup: input_channel_shutdown removes the names of p's sockets,
\* whosever sockets they stand for by now, and the directory if it can.
Cleanup(p) ==
  /\ at[p] = "leaving"
  /\ owner' = Unlinked(sockets[p])
  /\ struck' = struck \ {p}
  /\ dir' = DirAfter(owner')
  /\ Forgotten(p)
  /\ MoveTo(p, "ended")
  /\ UNCHANGED <<stamp, pending, file, changes, disturbed>>

\* A crash leaves the names of the sockets, and loses a pending save.
Crash(p) ==
  /\ Alive(p)
  /\ MayHappen
  /\ disturbed' = (disturbed \/ p \in pending)
  /\ pending' = pending \ {p}
  /\ struck' = struck \ {p}
  /\ Forgotten(p)
  /\ MoveTo(p, "crashed")
  /\ UNCHANGED <<owner, dir, stamp, file, changes>>

Next == \E p \in Procs :
  \/ PlainStart(p) \/ NewStart(p) \/ MakeDir(p) \/ BindPid(p) \/ ListenPid(p)
  \/ TryMain(p) \/ UnlinkMain(p) \/ BindMain(p) \/ ListenMain(p)
  \/ UserChange(p) \/ Look(p) \/ Receive(p) \/ Save(p)
  \/ Quit(p) \/ Cleanup(p) \/ Crash(p)

Spec == Init /\ [][Next]_vars

-----------------------------------------------------------------------------
(***************************************************************************)
(* Properties.                                                             *)
(***************************************************************************)
\* As long as no change meets another one on its way, a start, or a crash
\* before the save, the running instances and the file hold the same items
\* in the same order once all is quiet, although each instance reads the
\* file whenever it first needs it, drops what falls off the end by itself
\* and hears every message on up to two sockets.  moo_history_mgr_*_real,
\* ipc_callback, moo_history_mgr_save.
Agreement ==
  Quiet /\ ~disturbed =>
    \A p \in loaded : at[p] = "running" => list[p] = file

\* The messages sent so far, by their senders and stamps.
Sent == UNION {{p} \X (1 .. stamp[p]) : p \in Procs}

\* Instances answer messages with messages: an addition pushes an item out
\* of a full list, an update of an item one does not have is an addition.
\* They never keep each other busy: whatever order messages come in, a
\* change of the user costs no more than an addition and the items it pushes
\* out everywhere, or an update, the additions it becomes elsewhere, and the
\* items those push out.
EchoesBounded ==
  LET others == Cardinality(Started) - 1
  IN  Cardinality(Sent) <= changes * Max({2 + others, 1 + others * (2 + others)})

\* A plain start opens its files in a running instance if there is one,
\* also when the one that had "main" has ended or crashed and left its name
\* behind: only an instance that lost its name while it started is missed.
HandsOver ==
  [][\A p, q \in Procs :
       PlainStart(p) /\ at'[p] = "init" /\ at[q] = "running" => q \in struck]_vars

=============================================================================
