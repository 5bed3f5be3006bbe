------------------------------ MODULE Commands -------------------------------
(***************************************************************************)
(* Commands that run in a window: MooCmd, a child process with its output  *)
(* (moo/mooutils/moospawn.c), the views that show it (MooCmdView,          *)
(* moo/plugins/support/moocmdview.cpp), the two that the window has, the   *)
(* output pane of user tools (moocommand-exe.cpp) and the results of Find  *)
(* in Files and Find File (moofind.cpp), and the jobs the Stop action ends *)
(* (mooeditwindow.cpp).                                                    *)
(*                                                                         *)
(* The end of the child, and the ends of its two pipes, are seen by three  *)
(* sources of the main loop, in any order.  A command may leave a process  *)
(* behind that goes on writing to the pipes.                               *)
(*                                                                         *)
(* The text of a line is left out: lines are counted.  No handler of a     *)
(* line or of an exit runs a main loop or a command, so a handler is one   *)
(* step; errors of reading a pipe are left out.                            *)
(***************************************************************************)
EXTENDS Naturals, FiniteSets

CONSTANTS
  Cmds,      \* MooCmd objects, reused when they are freed and the child reaped
  NoCmd,     \* NULL
  Find,      \* the view of the find plugin
  Output,    \* the view of the output pane
  MaxLines,  \* bound: lines that a command writes to one pipe
  MaxJobs    \* bound: jobs of the find view when a search is started

ASSUME CommandsAssumption ==
  /\ NoCmd \notin Cmds
  /\ Find # Output
  /\ MaxLines \in Nat /\ MaxJobs \in Nat

VARIABLES
  leader,     \* the child of each command
  helper,     \* a process of its group that keeps the pipes open
  written,    \* lines written to each pipe
  unread,     \* lines in each pipe, or in the buffer of its channel
  running,    \* cmd->priv->running
  watched,    \* the commands with child_watch_data, and with it a pid
  open,       \* the channels of a command, which are those with a watch
  cmd,        \* view->priv->cmd
  shown,      \* lines of the command its view was given
  matches,    \* those of them the find plugin has counted
  jobs,       \* how many Jobs of window->priv->jobs are each view's
  findCmd,    \* stuff->cmd of the find plugin
  matchCount, \* stuff->match_count
  lost,       \* pipes with lines a view had not seen when told of the exit
  window,     \* "open", "closed", or "crashed"
  stopped     \* the commands that were aborted

procVars == <<leader, helper, written, unread>>
vars == <<procVars, running, watched, open, cmd, shown, matches, jobs, findCmd,
          matchCount, lost, window, stopped>>

Views == {Find, Output}
Pipes == {"stdout", "stderr"}
NoLines == [k \in Pipes |-> 0]
Searches == {"none", "CMD_GREP", "CMD_FIND"}

(***************************************************************************)
(* Handlers call each other, so what they do is written on one record of   *)
(* the program's state; Becomes makes it the next state.                   *)
(***************************************************************************)
State ==
  [leader |-> leader, helper |-> helper, written |-> written, unread |-> unread,
   running |-> running, watched |-> watched, open |-> open,
   cmd |-> cmd, shown |-> shown, matches |-> matches, jobs |-> jobs,
   findCmd |-> findCmd, matchCount |-> matchCount, lost |-> lost,
   window |-> window, stopped |-> stopped]

Becomes(state) == \E s \in {state} :
  /\ leader' = s.leader /\ helper' = s.helper
  /\ written' = s.written /\ unread' = s.unread
  /\ running' = s.running /\ watched' = s.watched
  /\ open' = s.open /\ cmd' = s.cmd
  /\ shown' = s.shown /\ matches' = s.matches
  /\ jobs' = s.jobs /\ findCmd' = s.findCmd /\ matchCount' = s.matchCount
  /\ lost' = s.lost /\ window' = s.window /\ stopped' = s.stopped

ViewsOf(s, c) == {v \in Views : s.cmd[v] = c}

\* Nobody can write to the pipes of c any more.
HungUp(s, c) == s.leader[c] # "alive" /\ ~s.helper[c]

(***************************************************************************)
(* MooCmd                                                                  *)
(***************************************************************************)
\* How many of n lines the find plugin may count when its view is given them:
\* process_find_line counts every line, process_grep_line does not count those
\* that are empty, say "Binary file", or cannot be parsed.
MostCounted(s, c, k, n) ==
  IF k = "stdout" /\ s.cmd[Find] = c /\ s.findCmd # "none" THEN n ELSE 0

Counts(s, c, k, n) ==
  LET most == MostCounted(s, c, k, n)
  IN IF s.findCmd = "CMD_GREP" THEN 0 .. most ELSE {most}

\* process_line of n lines, as far as stdout_line_cb of a view, where m of them
\* are counted.
Processed(s, c, k, n, m) ==
  [s EXCEPT !.unread[c][k] = @ - n,
            !.shown[c][k] = IF ViewsOf(s, c) # {} THEN @ + n ELSE @,
            !.matches[c] = @ + m,
            !.matchCount = @ + m]

\* What a freed command leaves behind: its child, which is reaped later.
Freed(s, c) ==
  [s EXCEPT !.running = @ \ {c}, !.watched = @ \ {c},
            !.open[c] = {}, !.written[c] = NoLines, !.unread[c] = NoLines,
            !.shown[c] = NoLines, !.matches[c] = 0, !.stopped = @ \ {c}]

\* cmd_exit_cb: the handlers of the view's "cmd-exit" and "job-finished".
CmdExitCb(s, v) ==
  LET c == s.cmd[v]
  IN [s EXCEPT !.lost[v] = {k \in Pipes : /\ c \notin s.stopped
                                          /\ s.shown[c][k] # s.written[c][k]},
               !.findCmd = IF v = Find THEN "none" ELSE @,
               !.jobs[v] = IF @ = 0 THEN 0 ELSE @ - 1,
               !.cmd[v] = NoCmd]

\* A command has one view; none, when its view has let go of it.
Exited(s, c) ==
  Freed(IF ViewsOf(s, c) = {} THEN s
        ELSE CmdExitCb(s, CHOOSE v \in Views : s.cmd[v] = c), c)

\* Mutant: the watch of stderr is forgotten.
CheckStopEarly(s, c) ==
  IF c \in s.running /\ c \notin s.watched /\ "stdout" \notin s.open[c]
  THEN Exited(s, c)
  ELSE s

\* moo_cmd_check_stop
CheckStop(s, c) ==
  IF c \in s.running /\ c \notin s.watched /\ s.open[c] = {}
  THEN Exited(s, c)
  ELSE s

\* What is left in a pipe: g_io_channel_read_to_end reads it only when the pipe
\* has come to its end.
LeftIn(s, c, k) == IF HungUp(s, c) THEN s.unread[c][k] ELSE 0

\* Mutant: nothing is checked after the end of a pipe.
WatchRemovedOnly(s, c, k, m) ==
  [Processed(s, c, k, LeftIn(s, c, k), m) EXCEPT !.open[c] = @ \ {k}]

\* stdout_watch_removed, stderr_watch_removed: what is left is read.
WatchRemoved(s, c, k, m) ==
  CheckStop([Processed(s, c, k, LeftIn(s, c, k), m) EXCEPT !.open[c] = @ \ {k}], c)

\* moo_cmd_abort_real: without a pid it returns at once.  What is left in
\* the pipes is not read.
Abort(s, c) ==
  IF c \notin s.running \cap s.watched THEN s
  ELSE [s EXCEPT !.open[c] = {}, !.unread[c] = NoLines, !.stopped = @ \cup {c}]

\* moo_cmd_cleanup, of a watch that an abort without a pid has left: as many
\* lines are counted as may be, which is none when the view has let go.
Unwatched(s, c, k) ==
  IF k \in s.open[c]
    THEN WatchRemoved(s, c, k, MostCounted(s, c, k, LeftIn(s, c, k)))
    ELSE s

\* moo_cmd_dispose: abort, and cleanup.
Dispose(s, c) ==
  LET ended == [Abort(s, c) EXCEPT !.running = @ \ {c}]
  IN Freed(Unwatched(Unwatched(ended, c, "stdout"), c, "stderr"), c)

(***************************************************************************)
(* MooCmdView                                                              *)
(***************************************************************************)
\* Mutant: the view lets go of the command after it has ended it.
AbortThenDisconnect(s, v) ==
  IF s.cmd[v] = NoCmd THEN s
  ELSE [Dispose(s, s.cmd[v]) EXCEPT !.cmd[v] = NoCmd]

\* moo_cmd_view_abort_and_disconnect
AbortAndDisconnect(s, v) ==
  IF s.cmd[v] = NoCmd THEN s
  ELSE Dispose([s EXCEPT !.cmd[v] = NoCmd], s.cmd[v])

\* A new object is not one that is only now let go of.
FreshCmds(s) ==
  {c \in Cmds : s.leader[c] = "none" /\ c \notin s.running}

\* moo_cmd_run_command and the start of the job.
Spawned(s, v, c) ==
  [s EXCEPT !.leader[c] = "alive", !.helper[c] = FALSE,
            !.running = @ \cup {c}, !.watched = @ \cup {c},
            !.open[c] = Pipes, !.cmd[v] = c, !.jobs[v] = @ + 1]

\* moo_cmd_view_run_command_full: the states it may leave; the child may
\* fail to start.
RunCommand(s, v) ==
  LET t == [AbortAndDisconnect(s, v) EXCEPT !.lost[v] = {}]
  IN {t} \cup {Spawned(t, v, c) : c \in FreshCmds(s)}

(***************************************************************************)
(* The command's processes                                                 *)
(***************************************************************************)
Env == UNCHANGED <<running, watched, open, cmd, shown, matches, jobs, findCmd,
                   matchCount, lost, window, stopped>>

WriteLine(c, k) ==
  /\ leader[c] = "alive" \/ helper[c]
  /\ k \in open[c]
  /\ written[c][k] < MaxLines
  /\ written' = [written EXCEPT ![c][k] = @ + 1]
  /\ unread' = [unread EXCEPT ![c][k] = @ + 1]
  /\ UNCHANGED <<leader, helper>> /\ Env

\* A process is started in the background: "command &".
Fork(c) ==
  /\ leader[c] = "alive" /\ ~helper[c]
  /\ helper' = [helper EXCEPT ![c] = TRUE]
  /\ UNCHANGED <<leader, written, unread>> /\ Env

HelperEnds(c) ==
  /\ helper[c]
  /\ helper' = [helper EXCEPT ![c] = FALSE]
  /\ UNCHANGED <<leader, written, unread>> /\ Env

LeaderEnds(c) ==
  /\ leader[c] = "alive"
  /\ leader' = [leader EXCEPT ![c] = "zombie"]
  /\ UNCHANGED <<helper, written, unread>> /\ Env

(***************************************************************************)
(* The main loop                                                           *)
(***************************************************************************)
\* command_out_or_err reads up to 4096 bytes and keeps its watch; the pipe
\* may have come to its end since it was polled.
ReadLines(c, k) ==
  /\ k \in open[c]
  /\ \E n \in 1 .. unread[c][k] :
       /\ n < unread[c][k] \/ ~HungUp(State, c)
       /\ \E m \in Counts(State, c, k, n) : Becomes(Processed(State, c, k, n, m))

\* command_out_or_err comes to the end of the pipe, or was told of it, and
\* loses its watch.
HangUp(c, k) ==
  /\ k \in open[c]
  /\ HungUp(State, c)
  /\ \E m \in Counts(State, c, k, LeftIn(State, c, k)) :
       Becomes(WatchRemoved(State, c, k, m))

\* command_exit; the command may be gone.
CommandExit(c) ==
  /\ leader[c] = "zombie"
  /\ LET reaped == [State EXCEPT !.leader[c] = "none"]
     IN Becomes(IF c \notin watched THEN reaped
                ELSE CheckStop([reaped EXCEPT !.watched = @ \ {c}], c))

(***************************************************************************)
(* The user                                                                *)
(***************************************************************************)
\* run_in_pane
RunTool ==
  /\ window = "open"
  /\ cmd[Output] = NoCmd
  /\ \E s \in RunCommand(State, Output) : Becomes(s)

\* execute_grep: also while a search runs.
FindInFiles ==
  /\ window = "open"
  /\ jobs[Find] < MaxJobs
  /\ \E s \in RunCommand([State EXCEPT !.findCmd = "CMD_GREP", !.matchCount = 0], Find) :
       Becomes(s)

\* execute_find: not while the plugin thinks that a search runs.
FindFile ==
  /\ window = "open"
  /\ findCmd = "none"
  /\ \E s \in RunCommand([State EXCEPT !.findCmd = "CMD_FIND", !.matchCount = 0], Find) :
       Becomes(s)

\* moo_cmd_view_abort, of a view with a job on the list.
AbortJob(s, v) ==
  IF s.jobs[v] > 0 /\ s.cmd[v] # NoCmd THEN Abort(s, s.cmd[v]) ELSE s

\* moo_edit_window_abort_jobs
AbortJobs(s) == AbortJob(AbortJob(s, Find), Output)

Stop ==
  /\ window = "open"
  /\ \E v \in Views : jobs[v] > 0
  /\ Becomes(AbortJobs(State))

\* find_window_plugin_destroy: the view goes, and client_died takes one of
\* its jobs off the list.
FindPluginDestroyed(s) ==
  [AbortAndDisconnect(s, Find) EXCEPT !.jobs[Find] = IF @ = 0 THEN 0 ELSE @ - 1,
                                      !.findCmd = "none", !.matchCount = 0]

\* do_close_window: the plugins first; then moo_edit_window_destroy aborts
\* the jobs.  A job of the find view that is still on the list sends "abort"
\* to an object that was freed: undefined, so the program may crash.
CloseWindow ==
  /\ window = "open"
  /\ LET s == FindPluginDestroyed(State)
         t == AbortAndDisconnect(AbortJobs(s), Output)
         ends == {"closed"} \cup IF s.jobs[Find] > 0 THEN {"crashed"} ELSE {}
     IN \E w \in ends :
          Becomes([t EXCEPT !.window = w, !.jobs = [v \in Views |-> 0]])

Init ==
  /\ leader = [c \in Cmds |-> "none"]
  /\ helper = [c \in Cmds |-> FALSE]
  /\ written = [c \in Cmds |-> NoLines] /\ unread = [c \in Cmds |-> NoLines]
  /\ running = {} /\ watched = {}
  /\ open = [c \in Cmds |-> {}]
  /\ cmd = [v \in Views |-> NoCmd]
  /\ shown = [c \in Cmds |-> NoLines]
  /\ jobs = [v \in Views |-> 0]
  /\ matches = [c \in Cmds |-> 0]
  /\ findCmd = "none" /\ matchCount = 0
  /\ lost = [v \in Views |-> {}]
  /\ window = "open"
  /\ stopped = {}

Processes ==
  \E c \in Cmds : \/ \E k \in Pipes : WriteLine(c, k)
                  \/ Fork(c) \/ HelperEnds(c) \/ LeaderEnds(c)

MainLoop ==
  \E c \in Cmds : \/ \E k \in Pipes : ReadLines(c, k) \/ HangUp(c, k)
                  \/ CommandExit(c)

User == RunTool \/ FindInFiles \/ FindFile \/ Stop \/ CloseWindow

Next == window # "crashed" /\ (Processes \/ MainLoop \/ User)

Spec == Init /\ [][Next]_vars

\* The main loop dispatches every source that is ready; nothing is assumed of
\* the processes or of the user.
FairSpec ==
  /\ Spec
  /\ \A c \in Cmds : WF_vars(CommandExit(c) \/ \E k \in Pipes : HangUp(c, k))

(***************************************************************************)
(* Properties                                                              *)
(***************************************************************************)
\* The three sources of a command end in any order, and a process it left
\* behind may write after its child was reaped; still a view is told of the
\* exit of a command that was not stopped only when it was given every line
\* the command wrote.
OutputBeforeExit == \A v \in Views : lost[v] = {}

\* While a search runs, match_count is the number of its own lines that were
\* counted, though Find in Files may be started again and again while one runs,
\* and the old command is ended with its lines partly read: no line counts for
\* another search than its own, or twice.  Of Find File that is every line.
CountsOwnLines ==
  LET c == cmd[Find] IN
  c # NoCmd => /\ matchCount = matches[c]
               /\ matches[c] <= shown[c]["stdout"]
               /\ findCmd = "CMD_FIND" => matches[c] = shown[c]["stdout"]

\* When the child of a command has ended, and nobody holds its pipes or the
\* command was stopped, its view learns that it ended: a tool can be run again
\* and the job leaves the list.
EndReported ==
  \A c \in Cmds :
    /\ ViewsOf(State, c) # {}
    /\ leader[c] # "alive"
    /\ ~helper[c] \/ open[c] = {}
    ~> ViewsOf(State, c) = {}
=============================================================================
