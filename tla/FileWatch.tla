------------------------------ MODULE FileWatch ------------------------------
(***************************************************************************)
(* MooFileWatch (moo/mooutils/moofilewatch.c), the stat() back end used on *)
(* Unix: a table of monitors, each on one file, polled every 500 ms by     *)
(* do_stat.  The poll takes a snapshot of the ids, then stats one monitor  *)
(* after another and calls its callback; the callback may create and       *)
(* cancel monitors (its own, or one that is still to be polled) and may    *)
(* run a nested main loop, but the poll itself is never re-entered.        *)
(*                                                                         *)
(* The clients are arbitrary here: they cancel any monitor at any time,    *)
(* also one that was just reported as deleted, which do_stat bears because *)
(* it looks each id up again.  This is what the watch promises to any      *)
(* client.  DocSync is one, and implements this specification.  Folders    *)
(* has a watch of its own, and uses the state and the steps of this module.*)
(*                                                                         *)
(* Ids are never reused in the code (a counter of 32 bits); here an id is  *)
(* given out again only once nobody holds it, which keeps the set finite.  *)
(***************************************************************************)
EXTENDS Naturals, FiniteSets

CONSTANTS
  Files,     \* file names
  Ids,       \* monitor ids other than 0
  MaxTime,   \* bound on the clock: seconds, the resolution of mgw_time_t
  NoFile,    \* a file name that is not set
  Hideable,  \* files that may be there and yet not be accessible to stat()
  Clients,   \* the objects that own monitors: the user data of callbacks
  NoClient

ASSUME FileWatchAssumption ==
  /\ NoFile \notin Files
  /\ NoClient \notin Clients
  /\ Hideable \subseteq Files
  /\ MaxTime \in Nat
  /\ 0 \notin Ids

VARIABLES
  fs,        \* what stat() answers for a file
  now,       \* the clock
  monitors,  \* watch->requests and watch->monitors
  poll       \* the do_stat in progress, if any

watchVars == <<fs, now, monitors, poll>>

Time == 0 .. MaxTime

\* err is errno of stat(): 0 for success, or ENOENT, or anything else
StatBuf == [err : {"none", "ENOENT", "other"}, mtime : Time]

Exists(f) == fs[f].err = "none"

Monitor == [file  : Files \cup {NoFile},
            data  : Clients \cup {NoClient},
            mtime : Time,
            alive : BOOLEAN]

FreeMonitor ==
  [file |-> NoFile, data |-> NoClient, mtime |-> 0, alive |-> FALSE]

\* The ids g_hash_table_lookup finds in watch->requests.
Requests == {i \in Ids : monitors[i].file # NoFile}

\* The MooFileEvent of a callback; NoFileEvent when none is called.
FileEvent == [id : Ids \cup {0}, code : {"none", "changed", "deleted", "error"}]

NoFileEvent == [id |-> 0, code |-> "none"]

\* todo: ids of the snapshot still to be looked at; gone: the to_remove list;
\* event: what the monitor looked at last had to tell
Poll == [running : BOOLEAN, todo : SUBSET Ids, gone : SUBSET Ids, event : FileEvent]

NoPoll == [running |-> FALSE, todo |-> {}, gone |-> {}, event |-> NoFileEvent]

\* get_new_monitor_id: an id that no table, snapshot or list mentions.
FreshIds == Ids \ (Requests \cup poll.todo \cup poll.gone)

\* moo_file_watch_cancel_monitor on the table m.
Cancelled(m, i) == [m EXCEPT ![i] = FreeMonitor]

\* Mutant of Created: the time stamp is rounded up.
CreatedRoundedUp(m, i, f, c) ==
  [m EXCEPT ![i] = [file |-> f, data |-> c, mtime |-> fs[f].mtime + 1, alive |-> TRUE]]

\* moo_file_watch_create_monitor on the table m, when stat() succeeds.
Created(m, i, f, c) ==
  [m EXCEPT ![i] = [file |-> f, data |-> c, mtime |-> fs[f].mtime, alive |-> TRUE]]

WatchInit ==
  /\ fs \in [Files -> {s \in StatBuf : s.mtime = 0 /\ s.err # "other"}]
  /\ now = 0
  /\ monitors = [i \in Ids |-> FreeMonitor]
  /\ poll = NoPoll

(***************************************************************************)
(* Other processes.  A writer may keep an old time stamp (mv, cp -p), so a *)
(* new mtime is any time up to now.                                        *)
(***************************************************************************)
Tick == /\ now < MaxTime
        /\ now' = now + 1
        /\ UNCHANGED <<fs, monitors, poll>>

ReplaceFile(f, t) ==
  /\ t \in 0 .. now
  /\ fs' = [fs EXCEPT ![f] = [err |-> "none", mtime |-> t]]
  /\ UNCHANGED <<now, monitors, poll>>

DeleteFile(f) ==
  /\ Exists(f)
  /\ fs' = [fs EXCEPT ![f].err = "ENOENT"]
  /\ UNCHANGED <<now, monitors, poll>>

\* The file is still there but stat() fails (a directory lost its x bit).
HideFile(f) ==
  /\ f \in Hideable
  /\ Exists(f)
  /\ fs' = [fs EXCEPT ![f].err = "other"]
  /\ UNCHANGED <<now, monitors, poll>>

(***************************************************************************)
(* Clients, from the main loop or from a callback of the poll: a client    *)
(* cancels monitors, creates some, and writes files too.                   *)
(***************************************************************************)
Cancel(i) ==
  /\ i \in Requests
  /\ monitors' = Cancelled(monitors, i)
  /\ UNCHANGED <<fs, now, poll>>

Create(i, f, c) ==
  /\ i \in FreshIds
  /\ Exists(f)
  /\ monitors' = Created(monitors, i, f, c)
  /\ UNCHANGED <<fs, now, poll>>

\* _moo_edit_start_file_watch replaces a monitor in one go.
Replace(i, j, f) ==
  /\ i \in Requests
  /\ j \in FreshIds
  /\ Exists(f)
  /\ monitors' = Created(Cancelled(monitors, i), j, f, monitors[i].data)
  /\ UNCHANGED <<fs, now, poll>>

(***************************************************************************)
(* do_stat.  The list of ids is taken from the oldest monitor to the       *)
(* newest; the model takes them in any order.                              *)
(***************************************************************************)
PollBegin ==
  /\ ~poll.running
  /\ Requests # {}
  /\ poll' = [running |-> TRUE, todo |-> Requests, gone |-> {}, event |-> NoFileEvent]
  /\ UNCHANGED <<fs, now, monitors>>

\* Mutants of EventCode: a file has to be newer by more than a second; a file
\* that is gone counts as one that cannot be accessed.
EventCodeCoarse(i) ==
  IF i \notin Requests \/ ~monitors[i].alive THEN "none"
  ELSE LET stat == fs[monitors[i].file] IN
       IF stat.err = "ENOENT" THEN "deleted"
       ELSE IF stat.err = "other" THEN "error"
       ELSE IF stat.mtime > monitors[i].mtime + 1 THEN "changed"
       ELSE "none"

EventCodeNoEntry(i) ==
  IF i \notin Requests \/ ~monitors[i].alive THEN "none"
  ELSE LET stat == fs[monitors[i].file] IN
       IF stat.err # "none" THEN "error"
       ELSE IF stat.mtime > monitors[i].mtime THEN "changed"
       ELSE "none"

\* The code of the event do_stat emits for monitor i, "none" if it emits none.
EventCode(i) ==
  IF i \notin Requests \/ ~monitors[i].alive THEN "none"
  ELSE LET stat == fs[monitors[i].file] IN
       IF stat.err = "ENOENT" THEN "deleted"
       ELSE IF stat.err = "other" THEN "error"
       ELSE IF stat.mtime > monitors[i].mtime THEN "changed"
       ELSE "none"

\* The event there is for monitor i when do_stat has looked at it.
EventOf(i) ==
  IF EventCode(i) = "none" THEN NoFileEvent ELSE [id |-> i, code |-> EventCode(i)]

\* What one iteration of do_stat does to the watch's own state.
StatMonitor(i) ==
  LET code == EventCode(i) IN
  /\ poll.running
  /\ i \in poll.todo
  /\ poll' = [poll EXCEPT !.todo = @ \ {i},
                          !.gone = IF code = "deleted" THEN @ \cup {i} ELSE @,
                          !.event = EventOf(i)]
  /\ monitors' =
       IF i \notin Requests \/ ~monitors[i].alive \/ code = "deleted"
         THEN monitors
       ELSE IF code = "error" THEN [monitors EXCEPT ![i].alive = FALSE]
       ELSE [monitors EXCEPT ![i].mtime = fs[monitors[i].file].mtime]
  /\ UNCHANGED <<fs, now>>

\* Mutant of PollEnd: a monitor whose file is back is kept.
PollEndRechecks ==
  /\ poll.running
  /\ poll.todo = {}
  /\ monitors' = [i \in Ids |-> IF /\ i \in poll.gone \cap Requests
                                   /\ ~Exists(monitors[i].file)
                                  THEN FreeMonitor ELSE monitors[i]]
  /\ poll' = NoPoll
  /\ UNCHANGED <<fs, now>>

\* The to_remove list is gone through; clients may have cancelled some of it.
PollEnd ==
  /\ poll.running
  /\ poll.todo = {}
  /\ monitors' = [i \in Ids |-> IF i \in poll.gone THEN FreeMonitor ELSE monitors[i]]
  /\ poll' = NoPoll
  /\ UNCHANGED <<fs, now>>

Environment ==
  \/ Tick
  \/ \E f \in Files : \/ \E t \in Time : ReplaceFile(f, t)
                      \/ DeleteFile(f)
                      \/ HideFile(f)

Client ==
  \/ \E i \in Ids : Cancel(i)
  \/ \E i \in Ids, f \in Files, c \in Clients : Create(i, f, c)
  \/ \E i, j \in Ids, f \in Files : Replace(i, j, f)

DoStat ==
  \/ PollBegin
  \/ \E i \in Ids : StatMonitor(i)
  \/ PollEnd

WatchNext == Environment \/ Client \/ DoStat

WatchSpec == WatchInit /\ [][WatchNext]_watchVars

\* The timeout of watch_stat_start fires again and again, and a poll that was
\* begun runs to its end.
FairWatchSpec ==
  /\ WatchSpec
  /\ WF_watchVars(PollBegin)
  /\ WF_watchVars(PollEnd)
  /\ \A i \in Ids : WF_watchVars(StatMonitor(i))

(***************************************************************************)
(* Properties.                                                             *)
(***************************************************************************)

\* Every variable has its type.
WatchTypeOK ==
  /\ fs \in [Files -> StatBuf]
  /\ now \in Time
  /\ monitors \in [Ids -> Monitor]
  /\ poll \in Poll

Emitted(i, code) == poll.event = [id |-> i, code |-> code]

\* A file that is newer than its monitor says is reported as changed by the
\* next polls, which overwrite the stamp they compare with, unless the client
\* cancels the monitor, stat() fails, or the file turns old again.
NewerReported ==
  \A i \in Ids, m \in Time :
    LET Newer == /\ i \in Requests
                 /\ monitors[i].alive
                 /\ monitors[i].mtime = m
                 /\ Exists(monitors[i].file)
                 /\ fs[monitors[i].file].mtime > m
    IN Newer ~> \/ Emitted(i, "changed")
               \/ i \notin Requests
               \/ ~Exists(monitors[i].file)
               \/ fs[monitors[i].file].mtime <= m

\* A file that is gone is reported as deleted, unless it comes back or the
\* client cancels the monitor; and the monitor that was reported so leaves the
\* table, whatever happens to the file and whatever callbacks cancel and create
\* between the report and the end of the poll.
DeletionSettled ==
  \A i \in Ids :
    LET Gone == /\ i \in Requests
                /\ monitors[i].alive
                /\ fs[monitors[i].file].err = "ENOENT"
    IN /\ Gone ~> \/ Emitted(i, "deleted")
                  \/ i \notin Requests
                  \/ fs[monitors[i].file].err # "ENOENT"
       /\ Emitted(i, "deleted") ~> i \notin Requests

==============================================================================
