---------------------------- MODULE CommandsProofs ----------------------------
(***************************************************************************)
(* For any number of commands, lines and jobs: what a view counts is its   *)
(* own command's, and it was given all of its output when it is told of    *)
(* the exit.  The handlers are functions of the program's state, so the    *)
(* invariant is stated of a state, and each lemma follows one handler.     *)
(***************************************************************************)
EXTENDS Commands, TLAPS

LeaderStates == {"none", "alive", "zombie"}
WindowStates == {"open", "closed", "crashed"}

ProgramStates ==
  [leader : [Cmds -> LeaderStates], helper : [Cmds -> BOOLEAN],
   written : [Cmds -> [Pipes -> Nat]], unread : [Cmds -> [Pipes -> Nat]],
   running : SUBSET Cmds, watched : SUBSET Cmds, open : [Cmds -> SUBSET Pipes],
   cmd : [Views -> Cmds \cup {NoCmd}], shown : [Cmds -> [Pipes -> Nat]],
   matches : [Cmds -> Nat], jobs : [Views -> Nat], findCmd : Searches,
   matchCount : Nat,
   lost : [Views -> SUBSET Pipes], window : WindowStates,
   stopped : SUBSET Cmds]

\* A command that is not running has left nothing behind for the next one.
Idle(s, c) ==
  /\ c \notin s.watched /\ c \notin s.stopped
  /\ s.open[c] = {} /\ s.matches[c] = 0
  /\ \A k \in Pipes : s.written[c][k] = 0 /\ s.unread[c][k] = 0 /\ s.shown[c][k] = 0

IdleAreClean(s) == \A c \in Cmds \ s.running : Idle(s, c)

\* A view shows a command that runs, and no other view shows it.
OneView(s) ==
  \A v \in Views : s.cmd[v] # NoCmd =>
    /\ s.cmd[v] \in s.running
    /\ \A w \in Views : s.cmd[v] = s.cmd[w] => v = w

\* Every line of a command that was not stopped was shown, or waits in a pipe
\* that is still read.
AccountedOf(s, c, k) ==
  s.written[c][k] = s.shown[c][k] + (IF k \in s.open[c] THEN s.unread[c][k] ELSE 0)

Accounted(s) ==
  \A v \in Views, k \in Pipes :
    s.cmd[v] # NoCmd /\ s.cmd[v] \notin s.stopped => AccountedOf(s, s.cmd[v], k)

NothingLost(s) == \A v \in Views : s.lost[v] = {}

Counted(s) ==
  LET c == s.cmd[Find] IN
  c # NoCmd => /\ s.matchCount = s.matches[c]
               /\ s.matches[c] <= s.shown[c]["stdout"]
               /\ s.findCmd = "CMD_FIND" => s.matches[c] = s.shown[c]["stdout"]

Sound(s) ==
  /\ s \in ProgramStates
  /\ IdleAreClean(s) /\ OneView(s) /\ Accounted(s) /\ NothingLost(s) /\ Counted(s)

Inv == Sound(State)

USE CommandsAssumption DEF CommandsAssumption

\* Becomes(s) makes s the next state.
LEMMA BecomesState ==
  ASSUME NEW s \in ProgramStates, Becomes(s)
  PROVE  State' = s
  BY DEF Becomes, State, ProgramStates

\* What reading n lines does, field by field.
LEMMA ProcessedFields ==
  ASSUME NEW s \in ProgramStates, NEW c \in Cmds, NEW k \in Pipes,
         NEW n \in Nat, n <= s.unread[c][k], NEW m \in Nat,
         NEW t, t = Processed(s, c, k, n, m)
  PROVE  /\ t \in ProgramStates
         /\ t.leader = s.leader /\ t.helper = s.helper /\ t.written = s.written
         /\ t.running = s.running /\ t.watched = s.watched /\ t.open = s.open
         /\ t.cmd = s.cmd /\ t.jobs = s.jobs /\ t.findCmd = s.findCmd
         /\ t.lost = s.lost /\ t.window = s.window /\ t.stopped = s.stopped
         /\ \A d \in Cmds, j \in Pipes : d # c \/ j # k =>
              t.unread[d][j] = s.unread[d][j] /\ t.shown[d][j] = s.shown[d][j]
         /\ t.unread[c][k] = s.unread[c][k] - n
         /\ t.shown[c][k] = IF ViewsOf(s, c) # {} THEN s.shown[c][k] + n ELSE s.shown[c][k]
         /\ t.matches[c] = s.matches[c] + m
         /\ \A d \in Cmds \ {c} : t.matches[d] = s.matches[d]
         /\ t.matchCount = s.matchCount + m
  <1> DEFINE read == [s.unread EXCEPT ![c][k] = @ - n]
             shows == [s.shown EXCEPT ![c][k] = IF ViewsOf(s, c) # {} THEN @ + n ELSE @]
             finds == [s.matches EXCEPT ![c] = @ + m]
             count == s.matchCount + m
  <1>1. s.unread \in [Cmds -> [Pipes -> Nat]] /\ s.shown \in [Cmds -> [Pipes -> Nat]]
        /\ s.matches \in [Cmds -> Nat] /\ s.matchCount \in Nat
    BY DEF ProgramStates
  <1>2. t = [s EXCEPT !.unread = read, !.shown = shows, !.matches = finds,
                      !.matchCount = count]
    BY DEF Processed, ProgramStates
  <1>3. read \in [Cmds -> [Pipes -> Nat]] /\ shows \in [Cmds -> [Pipes -> Nat]]
        /\ finds \in [Cmds -> Nat] /\ count \in Nat
    BY <1>1
  <1>4. /\ \A d \in Cmds, j \in Pipes : d # c \/ j # k =>
              read[d][j] = s.unread[d][j] /\ shows[d][j] = s.shown[d][j]
        /\ read[c][k] = s.unread[c][k] - n
        /\ shows[c][k] = IF ViewsOf(s, c) # {} THEN s.shown[c][k] + n ELSE s.shown[c][k]
        /\ finds[c] = s.matches[c] + m /\ \A d \in Cmds \ {c} : finds[d] = s.matches[d]
    BY <1>1
  <1> HIDE DEF read, shows, finds, count
  <1>5. /\ t \in ProgramStates
        /\ t.leader = s.leader /\ t.helper = s.helper /\ t.written = s.written
        /\ t.running = s.running /\ t.watched = s.watched /\ t.open = s.open
        /\ t.cmd = s.cmd /\ t.jobs = s.jobs /\ t.findCmd = s.findCmd
        /\ t.lost = s.lost /\ t.window = s.window /\ t.stopped = s.stopped
        /\ t.unread = read /\ t.shown = shows
        /\ t.matches = finds /\ t.matchCount = count
    BY <1>2, <1>3 DEF ProgramStates
  <1> QED
    BY <1>4, <1>5 DEF count

\* How many lines are counted: none but lines of stdout of the search, of those no
\* more than were read, and all of them by Find File.
LEMMA CountsBounds ==
  ASSUME NEW s \in ProgramStates, NEW c \in Cmds, NEW k \in Pipes,
         NEW n \in Nat, NEW m \in Counts(s, c, k, n)
  PROVE  /\ m \in Nat /\ m <= n
         /\ s.cmd[Find] # c \/ k # "stdout" => m = 0
         /\ s.cmd[Find] = c /\ k = "stdout" /\ s.findCmd = "CMD_FIND" => m = n
  BY DEF Counts, MostCounted

\* What is left of a command that was freed: nothing, and nothing else changes.
LEMMA FreedFields ==
  ASSUME NEW s \in ProgramStates, NEW c \in Cmds, NEW t, t = Freed(s, c)
  PROVE  /\ t \in ProgramStates
         /\ t.running = s.running \ {c} /\ Idle(t, c)
         /\ t.leader = s.leader /\ t.helper = s.helper /\ t.cmd = s.cmd
         /\ t.jobs = s.jobs /\ t.lost = s.lost /\ t.matchCount = s.matchCount
         /\ t.findCmd = s.findCmd
         /\ \A d \in Cmds \ {c} :
              /\ t.open[d] = s.open[d] /\ t.written[d] = s.written[d]
              /\ t.unread[d] = s.unread[d] /\ t.shown[d] = s.shown[d]
              /\ t.matches[d] = s.matches[d]
              /\ d \in t.watched <=> d \in s.watched
              /\ d \in t.stopped <=> d \in s.stopped
  <1>1. NoLines \in [Pipes -> Nat]
    BY DEF NoLines
  <1>2. /\ s.open \in [Cmds -> SUBSET Pipes] /\ s.written \in [Cmds -> [Pipes -> Nat]]
        /\ s.unread \in [Cmds -> [Pipes -> Nat]] /\ s.shown \in [Cmds -> [Pipes -> Nat]]
        /\ s.matches \in [Cmds -> Nat]
    BY DEF ProgramStates
  <1> DEFINE opens == [s.open EXCEPT ![c] = {}]
             writes == [s.written EXCEPT ![c] = NoLines]
             waits == [s.unread EXCEPT ![c] = NoLines]
             shows == [s.shown EXCEPT ![c] = NoLines]
             finds == [s.matches EXCEPT ![c] = 0]
  <1>3. /\ opens \in [Cmds -> SUBSET Pipes] /\ writes \in [Cmds -> [Pipes -> Nat]]
        /\ waits \in [Cmds -> [Pipes -> Nat]] /\ shows \in [Cmds -> [Pipes -> Nat]]
        /\ finds \in [Cmds -> Nat]
    BY <1>1, <1>2
  <1>4. t = [s EXCEPT !.running = s.running \ {c}, !.watched = s.watched \ {c},
                      !.open = opens, !.written = writes, !.unread = waits,
                      !.shown = shows, !.matches = finds, !.stopped = s.stopped \ {c}]
    BY DEF Freed, ProgramStates
  <1>5. \A d \in Cmds \ {c} :
          /\ opens[d] = s.open[d] /\ writes[d] = s.written[d]
          /\ waits[d] = s.unread[d] /\ shows[d] = s.shown[d]
          /\ finds[d] = s.matches[d]
    BY <1>2
  <1>6. /\ opens[c] = {}
        /\ writes[c] = NoLines /\ waits[c] = NoLines /\ shows[c] = NoLines
        /\ finds[c] = 0
    BY <1>2
  <1> HIDE DEF opens, writes, waits, shows, finds
  <1>7. t \in ProgramStates
    <2>1. /\ s.running \ {c} \in SUBSET Cmds /\ s.watched \ {c} \in SUBSET Cmds
          /\ s.stopped \ {c} \in SUBSET Cmds
      BY DEF ProgramStates
    <2> QED
      BY <1>3, <1>4, <2>1, ZenonT(30) DEF ProgramStates
  <1>8. /\ t.running = s.running \ {c} /\ t.watched = s.watched \ {c}
        /\ t.stopped = s.stopped \ {c}
        /\ t.leader = s.leader /\ t.helper = s.helper /\ t.cmd = s.cmd
        /\ t.jobs = s.jobs /\ t.lost = s.lost /\ t.matchCount = s.matchCount
        /\ t.findCmd = s.findCmd
        /\ t.open = opens /\ t.written = writes
        /\ t.unread = waits /\ t.shown = shows /\ t.matches = finds
    BY <1>4 DEF ProgramStates
  <1> QED
    BY <1>5, <1>6, <1>7, <1>8 DEF Idle, NoLines

\* An abort stops a command, and leaves its output unread.
LEMMA AbortFields ==
  ASSUME NEW s \in ProgramStates, NEW c \in Cmds, NEW t, t = Abort(s, c)
  PROVE  /\ t \in ProgramStates
         /\ t.leader = s.leader /\ t.helper = s.helper /\ t.cmd = s.cmd
         /\ t.jobs = s.jobs /\ t.lost = s.lost /\ t.matchCount = s.matchCount
         /\ t.findCmd = s.findCmd
         /\ t.running = s.running /\ t.watched = s.watched
         /\ t.written = s.written /\ t.shown = s.shown /\ t.matches = s.matches
         /\ \A d \in Cmds \ {c} :
              /\ t.open[d] = s.open[d] /\ t.unread[d] = s.unread[d]
              /\ d \in t.stopped <=> d \in s.stopped
         /\ t = s \/ (c \in t.stopped /\ c \in s.running)
  <1>1. NoLines \in [Pipes -> Nat]
    BY DEF NoLines
  <1>2. CASE c \notin s.running \cap s.watched
    BY <1>2 DEF Abort
  <1>3. CASE c \in s.running \cap s.watched
    <2> DEFINE opens == [s.open EXCEPT ![c] = {}]
               waits == [s.unread EXCEPT ![c] = NoLines]
    <2>1. s.open \in [Cmds -> SUBSET Pipes] /\ s.unread \in [Cmds -> [Pipes -> Nat]]
      BY DEF ProgramStates
    <2>2. opens \in [Cmds -> SUBSET Pipes] /\ waits \in [Cmds -> [Pipes -> Nat]]
      BY <1>1, <2>1
    <2>3. \A d \in Cmds \ {c} : opens[d] = s.open[d] /\ waits[d] = s.unread[d]
      BY <2>1
    <2>4. t = [s EXCEPT !.open = opens, !.unread = waits, !.stopped = s.stopped \cup {c}]
      BY <1>3 DEF Abort, ProgramStates
    <2> HIDE DEF opens, waits
    <2>5. s.stopped \cup {c} \in SUBSET Cmds
      BY DEF ProgramStates
    <2>6. t \in ProgramStates
      BY <2>2, <2>4, <2>5 DEF ProgramStates
    <2>7. /\ t.leader = s.leader /\ t.helper = s.helper /\ t.cmd = s.cmd
          /\ t.jobs = s.jobs /\ t.lost = s.lost /\ t.matchCount = s.matchCount
          /\ t.findCmd = s.findCmd
          /\ t.running = s.running /\ t.watched = s.watched
          /\ t.written = s.written /\ t.shown = s.shown /\ t.matches = s.matches
          /\ t.open = opens /\ t.unread = waits /\ t.stopped = s.stopped \cup {c}
      BY <2>4 DEF ProgramStates
    <2> QED
      BY <1>3, <2>3, <2>6, <2>7
  <1> QED
    BY <1>2, <1>3

(***************************************************************************)
(* While c is being freed everything but its own leavings is sound.        *)
(***************************************************************************)
SoundBut(s, c) ==
  /\ s \in ProgramStates
  /\ \A d \in Cmds \ (s.running \cup {c}) : Idle(s, d)
  /\ OneView(s) /\ Accounted(s) /\ NothingLost(s) /\ Counted(s)

Unseen(s, c) == \A v \in Views : s.cmd[v] # c

\* Freeing a command that no view shows completes it.
LEMMA FreedSound ==
  ASSUME NEW s, NEW c \in Cmds, SoundBut(s, c), Unseen(s, c)
  PROVE  Sound(Freed(s, c))
  <1> DEFINE t == Freed(s, c)
  <1>1. s \in ProgramStates
    BY DEF SoundBut
  <1>2. /\ t \in ProgramStates
        /\ t.running = s.running \ {c} /\ Idle(t, c)
        /\ t.cmd = s.cmd /\ t.lost = s.lost /\ t.matchCount = s.matchCount
        /\ t.findCmd = s.findCmd
        /\ \A d \in Cmds \ {c} :
             /\ t.open[d] = s.open[d] /\ t.written[d] = s.written[d]
             /\ t.unread[d] = s.unread[d] /\ t.shown[d] = s.shown[d]
             /\ t.matches[d] = s.matches[d]
             /\ d \in t.watched <=> d \in s.watched
             /\ d \in t.stopped <=> d \in s.stopped
    BY <1>1, FreedFields
  <1>3. s.cmd \in [Views -> Cmds \cup {NoCmd}]
    BY <1>1 DEF ProgramStates
  <1> HIDE DEF t
  <1>4. IdleAreClean(t)
    BY <1>2 DEF IdleAreClean, Idle, SoundBut
  <1>5. OneView(t)
    BY <1>2, <1>3 DEF OneView, Unseen, SoundBut
  <1>6. Accounted(t)
    BY <1>2, <1>3 DEF Accounted, AccountedOf, Unseen, SoundBut
  <1>7. NothingLost(t) /\ Counted(t)
    BY <1>2, <1>3 DEF NothingLost, Counted, Unseen, SoundBut, Views, Pipes
  <1> QED
    BY <1>2, <1>4, <1>5, <1>6, <1>7 DEF Sound, t

\* Ending a command that no view shows does not harm the others.
LEMMA UnwatchedSound ==
  ASSUME NEW s, NEW c \in Cmds, NEW k \in Pipes,
         SoundBut(s, c), Unseen(s, c), c \notin s.running
  PROVE  LET t == Unwatched(s, c, k)
         IN /\ SoundBut(t, c) /\ Unseen(t, c)
            /\ t.running = s.running /\ t.cmd = s.cmd /\ t.matchCount = s.matchCount
            /\ t.findCmd = s.findCmd
  <1>1. CASE k \notin s.open[c]
    BY <1>1 DEF Unwatched
  <1>2. CASE k \in s.open[c]
    <2> DEFINE n == LeftIn(s, c, k)
               m == MostCounted(s, c, k, n)
               p == Processed(s, c, k, n, m)
               t == [p EXCEPT !.open[c] = @ \ {k}]
    <2>1. s \in ProgramStates /\ n \in Nat /\ n <= s.unread[c][k] /\ m = 0
      BY DEF SoundBut, ProgramStates, LeftIn, MostCounted, Unseen, Views
    <2> HIDE DEF n, m
    <2>2. /\ p \in ProgramStates
          /\ p.running = s.running /\ p.cmd = s.cmd
          /\ p.lost = s.lost /\ p.stopped = s.stopped /\ p.watched = s.watched
          /\ p.written = s.written /\ p.open = s.open
          /\ \A d \in Cmds, j \in Pipes : d # c \/ j # k =>
               p.unread[d][j] = s.unread[d][j] /\ p.shown[d][j] = s.shown[d][j]
          /\ \A d \in Cmds \ {c} : p.matches[d] = s.matches[d]
          /\ p.matchCount = s.matchCount + m /\ p.findCmd = s.findCmd
      BY <2>1, ProcessedFields
    <2>3. p.matchCount = s.matchCount /\ p.findCmd = s.findCmd
      BY <2>1, <2>2 DEF ProgramStates
    <2> HIDE DEF p
    <2>4. /\ t \in ProgramStates
          /\ t.running = s.running /\ t.cmd = s.cmd
          /\ t.lost = s.lost /\ t.stopped = s.stopped /\ t.watched = s.watched
          /\ t.written = s.written /\ t.matchCount = s.matchCount /\ t.findCmd = s.findCmd
          /\ t.unread = p.unread /\ t.shown = p.shown /\ t.matches = p.matches
          /\ \A d \in Cmds \ {c} : t.open[d] = s.open[d]
      BY <2>2, <2>3 DEF ProgramStates
    <2>5. Unwatched(s, c, k) = CheckStop(t, c)
      BY <1>2 DEF Unwatched, WatchRemoved, n, m, p
    <2> HIDE DEF t
    <2>6. CheckStop(t, c) = t
      BY <2>4 DEF CheckStop
    <2>7. \A d \in Cmds \ {c}, j \in Pipes :
            /\ t.unread[d][j] = s.unread[d][j] /\ t.shown[d][j] = s.shown[d][j]
            /\ t.matches[d] = s.matches[d]
      BY <2>1, <2>2, <2>4 DEF ProgramStates
    <2>8. s.cmd \in [Views -> Cmds \cup {NoCmd}]
      BY <2>1 DEF ProgramStates
    <2>9. \A d \in Cmds \ (t.running \cup {c}) : Idle(t, d)
      BY <2>4, <2>7 DEF SoundBut, Idle
    <2>10. OneView(t) /\ NothingLost(t) /\ Counted(t)
      BY <2>4, <2>7, <2>8 DEF SoundBut, OneView, NothingLost, Counted, Unseen, Views, Pipes
    <2>11. Accounted(t)
      BY <2>4, <2>7, <2>8 DEF SoundBut, Accounted, AccountedOf, Unseen
    <2> QED
      BY <2>4, <2>5, <2>6, <2>9, <2>10, <2>11 DEF SoundBut, Unseen
  <1> QED
    BY <1>1, <1>2

\* moo_cmd_dispose of a command its view has let go of.
LEMMA DisposeSound ==
  ASSUME NEW s, NEW c \in Cmds, SoundBut(s, c), Unseen(s, c)
  PROVE  /\ Sound(Dispose(s, c))
         /\ Dispose(s, c).running \subseteq s.running
         /\ Dispose(s, c).cmd = s.cmd
         /\ Dispose(s, c).matchCount = s.matchCount /\ Dispose(s, c).findCmd = s.findCmd
  <1> DEFINE a == Abort(s, c)
             e == [a EXCEPT !.running = @ \ {c}]
             o == Unwatched(e, c, "stdout")
             u == Unwatched(o, c, "stderr")
  <1>1. s \in ProgramStates
    BY DEF SoundBut
  <1>2. /\ a \in ProgramStates
        /\ a.cmd = s.cmd /\ a.lost = s.lost /\ a.matchCount = s.matchCount
        /\ a.findCmd = s.findCmd
        /\ a.running = s.running /\ a.watched = s.watched
        /\ a.written = s.written /\ a.shown = s.shown /\ a.matches = s.matches
        /\ \A d \in Cmds \ {c} :
             /\ a.open[d] = s.open[d] /\ a.unread[d] = s.unread[d]
             /\ d \in a.stopped <=> d \in s.stopped
    BY <1>1, AbortFields
  <1> HIDE DEF a
  <1>3. /\ e \in ProgramStates
        /\ e.cmd = s.cmd /\ e.lost = s.lost /\ e.matchCount = s.matchCount
        /\ e.findCmd = s.findCmd
        /\ e.running = s.running \ {c} /\ e.watched = s.watched
        /\ e.written = s.written /\ e.shown = s.shown /\ e.matches = s.matches
        /\ e.open = a.open /\ e.unread = a.unread /\ e.stopped = a.stopped
    BY <1>2 DEF ProgramStates
  <1> HIDE DEF e
  <1>4. s.cmd \in [Views -> Cmds \cup {NoCmd}]
    BY <1>1 DEF ProgramStates
  <1>5. SoundBut(e, c) /\ Unseen(e, c)
    <2>1. \A d \in Cmds \ (e.running \cup {c}) : Idle(e, d)
      BY <1>2, <1>3 DEF SoundBut, Idle
    <2>2. OneView(e) /\ NothingLost(e) /\ Counted(e)
      BY <1>2, <1>3, <1>4 DEF SoundBut, OneView, NothingLost, Counted, Unseen, Views, Pipes
    <2>3. Accounted(e)
      BY <1>2, <1>3, <1>4 DEF SoundBut, Accounted, AccountedOf, Unseen
    <2> QED
      BY <1>3, <2>1, <2>2, <2>3 DEF SoundBut, Unseen
  <1>6. /\ SoundBut(o, c) /\ Unseen(o, c)
        /\ o.running = e.running /\ o.cmd = e.cmd /\ o.matchCount = e.matchCount
        /\ o.findCmd = e.findCmd
    BY <1>3, <1>5, UnwatchedSound DEF Pipes
  <1> HIDE DEF o
  <1>7. /\ SoundBut(u, c) /\ Unseen(u, c)
        /\ u.running = o.running /\ u.cmd = o.cmd /\ u.matchCount = o.matchCount
        /\ u.findCmd = o.findCmd
    BY <1>3, <1>6, UnwatchedSound DEF Pipes
  <1> HIDE DEF u
  <1>8. Dispose(s, c) = Freed(u, c)
    BY DEF Dispose, a, e, o, u
  <1>9. u \in ProgramStates
    BY <1>7 DEF SoundBut
  <1>10. /\ Freed(u, c).running = u.running \ {c} /\ Freed(u, c).cmd = u.cmd
         /\ Freed(u, c).matchCount = u.matchCount /\ Freed(u, c).findCmd = u.findCmd
    BY <1>9, FreedFields
  <1> QED
    BY <1>3, <1>6, <1>7, <1>8, <1>10, FreedSound

\* moo_cmd_view_abort_and_disconnect lets go of the command, and then ends it;
\* what the view had counted no longer matters.
LEMMA DisconnectSound ==
  ASSUME NEW s, NEW v \in Views, s \in ProgramStates, IdleAreClean(s), OneView(s),
         Accounted(s), NothingLost(s), v = Find \/ Counted(s)
  PROVE  LET t == AbortAndDisconnect(s, v)
         IN /\ Sound(t) /\ t.cmd[v] = NoCmd
            /\ t.running \subseteq s.running /\ t.matchCount = s.matchCount
            /\ t.findCmd = s.findCmd
  <1>1. s.cmd \in [Views -> Cmds \cup {NoCmd}]
    BY DEF ProgramStates
  <1>2. CASE s.cmd[v] = NoCmd
    BY <1>2 DEF AbortAndDisconnect, Sound, Counted
  <1>3. CASE s.cmd[v] # NoCmd
    <2> DEFINE c == s.cmd[v]
               cmds == [s.cmd EXCEPT ![v] = NoCmd]
               u == [s EXCEPT !.cmd = cmds]
    <2>1. /\ c \in Cmds
          /\ cmds \in [Views -> Cmds \cup {NoCmd}]
          /\ cmds[v] = NoCmd /\ \A w \in Views \ {v} : cmds[w] = s.cmd[w]
      BY <1>1, <1>3
    <2>2. AbortAndDisconnect(s, v) = Dispose(u, c)
      BY <1>3 DEF AbortAndDisconnect
    <2> HIDE DEF cmds
    <2>3. /\ u \in ProgramStates /\ u.cmd = cmds
          /\ u.running = s.running /\ u.watched = s.watched /\ u.stopped = s.stopped
          /\ u.open = s.open /\ u.written = s.written /\ u.unread = s.unread
          /\ u.shown = s.shown /\ u.matches = s.matches /\ u.lost = s.lost
          /\ u.matchCount = s.matchCount /\ u.findCmd = s.findCmd
      BY <2>1 DEF ProgramStates
    <2> HIDE DEF u
    <2>4. IdleAreClean(u) /\ NothingLost(u)
      BY <2>3 DEF IdleAreClean, Idle, NothingLost
    <2>5. OneView(u) /\ Unseen(u, c)
      BY <1>3, <2>1, <2>3 DEF OneView, Unseen
    <2>6. Accounted(u)
      BY <2>1, <2>3 DEF Accounted, AccountedOf
    <2>7. Counted(u)
      BY <1>1, <2>1, <2>3 DEF Counted, Views
    <2>8. SoundBut(u, c)
      BY <2>3, <2>4, <2>5, <2>6, <2>7 DEF SoundBut, IdleAreClean
    <2> HIDE DEF c
    <2> QED
      BY <2>1, <2>2, <2>3, <2>5, <2>8, DisposeSound
  <1> QED
    BY <1>2, <1>3

\* moo_cmd_view_run_command_full: whatever it leaves is sound; a search starts
\* with its count cleared.
LEMMA RunCommandSound ==
  ASSUME NEW s, NEW v \in Views, s \in ProgramStates, IdleAreClean(s), OneView(s),
         Accounted(s), NothingLost(s),
         IF v = Find THEN s.matchCount = 0 ELSE Counted(s),
         NEW r \in RunCommand(s, v)
  PROVE  Sound(r)
  <1> DEFINE a == AbortAndDisconnect(s, v)
             t == [a EXCEPT !.lost[v] = {}]
  <1>1. /\ Sound(a) /\ a.cmd[v] = NoCmd
        /\ a.running \subseteq s.running /\ a.matchCount = s.matchCount
        /\ a.findCmd = s.findCmd
    BY DisconnectSound
  <1>2. a \in ProgramStates /\ NothingLost(a)
    BY <1>1 DEF Sound
  <1>3. r = t \/ \E c \in FreshCmds(s) : r = Spawned(t, v, c)
    BY DEF RunCommand
  <1> HIDE DEF a
  <1>4. t = a
    <2>1. a.lost = [a.lost EXCEPT ![v] = {}]
      BY <1>2 DEF ProgramStates, NothingLost
    <2> QED
      BY <1>2, <2>1 DEF ProgramStates
  <1>5. ASSUME NEW c \in FreshCmds(s) PROVE Sound(Spawned(a, v, c))
    <2> DEFINE leads == [a.leader EXCEPT ![c] = "alive"]
               helps == [a.helper EXCEPT ![c] = FALSE]
               opens == [a.open EXCEPT ![c] = Pipes]
               cmds == [a.cmd EXCEPT ![v] = c]
               more == [a.jobs EXCEPT ![v] = @ + 1]
               p == Spawned(a, v, c)
    <2>1. c \in Cmds /\ c \notin a.running /\ Idle(a, c)
      BY <1>1 DEF FreshCmds, Sound, IdleAreClean
    <2>2. /\ a.leader \in [Cmds -> LeaderStates]
          /\ a.helper \in [Cmds -> BOOLEAN] /\ a.open \in [Cmds -> SUBSET Pipes]
          /\ a.cmd \in [Views -> Cmds \cup {NoCmd}] /\ a.jobs \in [Views -> Nat]
      BY <1>2 DEF ProgramStates
    <2>3. /\ leads \in [Cmds -> LeaderStates]
          /\ helps \in [Cmds -> BOOLEAN] /\ opens \in [Cmds -> SUBSET Pipes]
          /\ cmds \in [Views -> Cmds \cup {NoCmd}] /\ more \in [Views -> Nat]
      BY <2>1, <2>2 DEF LeaderStates
    <2>4. /\ opens[c] = Pipes /\ \A d \in Cmds \ {c} : opens[d] = a.open[d]
          /\ cmds[v] = c /\ \A w \in Views \ {v} : cmds[w] = a.cmd[w]
      BY <2>1, <2>2
    <2>5. p = [a EXCEPT !.leader = leads, !.helper = helps,
                        !.running = a.running \cup {c}, !.watched = a.watched \cup {c},
                        !.open = opens, !.cmd = cmds, !.jobs = more]
      BY <1>2 DEF Spawned, ProgramStates
    <2> HIDE DEF leads, helps, opens, cmds, more
    <2>6. p \in ProgramStates
      <3>1. a.running \cup {c} \in SUBSET Cmds /\ a.watched \cup {c} \in SUBSET Cmds
        BY <1>2, <2>1 DEF ProgramStates
      <3> DEFINE q == [a EXCEPT !.leader = leads, !.helper = helps, !.open = opens]
      <3>2. q \in ProgramStates
        BY <1>2, <2>3 DEF ProgramStates
      <3>3. p = [q EXCEPT !.running = a.running \cup {c}, !.watched = a.watched \cup {c},
                          !.cmd = cmds, !.jobs = more]
        BY <1>2, <2>5 DEF ProgramStates
      <3> HIDE DEF q
      <3> QED
        BY <2>3, <3>1, <3>2, <3>3, ZenonT(30) DEF ProgramStates
    <2>7. /\ p.running = a.running \cup {c} /\ p.watched = a.watched \cup {c}
          /\ p.open = opens /\ p.cmd = cmds /\ p.stopped = a.stopped
          /\ p.written = a.written /\ p.unread = a.unread /\ p.shown = a.shown
          /\ p.matches = a.matches
          /\ p.lost = a.lost /\ p.matchCount = a.matchCount /\ p.findCmd = a.findCmd
      BY <1>2, <2>5 DEF ProgramStates
    <2> HIDE DEF p
    <2>8. IdleAreClean(p) /\ NothingLost(p)
      BY <1>1, <2>4, <2>7 DEF Sound, IdleAreClean, Idle, NothingLost
    <2>9. OneView(p)
      BY <1>1, <2>1, <2>2, <2>4, <2>7 DEF Sound, OneView
    <2>10. Accounted(p)
      BY <1>1, <2>1, <2>2, <2>4, <2>7 DEF Sound, Accounted, AccountedOf, Idle, OneView
    <2>11. Counted(p)
      BY <1>1, <2>1, <2>2, <2>4, <2>7 DEF Sound, Counted, Idle, Views, Pipes, OneView
    <2> QED
      BY <2>6, <2>8, <2>9, <2>10, <2>11 DEF Sound, p
  <1> QED
    BY <1>1, <1>3, <1>4, <1>5

\* cmd_exit_cb and moo_cmd_cleanup, when the child and both pipes have ended.
LEMMA CheckStopSound ==
  ASSUME NEW s, NEW c \in Cmds, Sound(s)
  PROVE  Sound(CheckStop(s, c))
  <1>1. s \in ProgramStates /\ s.cmd \in [Views -> Cmds \cup {NoCmd}]
    BY DEF Sound, ProgramStates
  <1>2. SoundBut(s, c)
    BY DEF Sound, SoundBut, IdleAreClean
  <1>3. CASE ~(c \in s.running /\ c \notin s.watched /\ s.open[c] = {})
    BY <1>3 DEF CheckStop
  <1>4. CASE /\ c \in s.running /\ c \notin s.watched /\ s.open[c] = {}
             /\ ViewsOf(s, c) = {}
    <2>1. Unseen(s, c)
      BY <1>4 DEF Unseen, ViewsOf
    <2> QED
      BY <1>2, <1>4, <2>1, FreedSound DEF CheckStop, Exited
  <1>5. CASE /\ c \in s.running /\ c \notin s.watched /\ s.open[c] = {}
             /\ ViewsOf(s, c) # {}
    <2> DEFINE v == CHOOSE v \in Views : s.cmd[v] = c
               t == CmdExitCb(s, v)
               missed == {k \in Pipes : c \notin s.stopped /\ s.shown[c][k] # s.written[c][k]}
               losses == [s.lost EXCEPT ![v] = missed]
               left == [s.jobs EXCEPT ![v] = IF @ = 0 THEN 0 ELSE @ - 1]
               cmds == [s.cmd EXCEPT ![v] = NoCmd]
               kind == IF v = Find THEN "none" ELSE s.findCmd
    <2>1. v \in Views /\ s.cmd[v] = c
      BY <1>5 DEF ViewsOf
    <2>2. missed = {}
      <3>1. \A k \in Pipes : s.shown[c][k] \in Nat
        BY <1>1 DEF ProgramStates
      <3>2. \A k \in Pipes : c \notin s.stopped => AccountedOf(s, c, k)
        BY <2>1 DEF Sound, Accounted
      <3> QED
        BY <1>5, <3>1, <3>2 DEF AccountedOf
    <2>3. CheckStop(s, c) = Freed(t, c)
      BY <1>5 DEF CheckStop, Exited
    <2> HIDE DEF v
    <2>4. s.lost \in [Views -> SUBSET Pipes] /\ s.jobs \in [Views -> Nat]
          /\ \A w \in Views : s.lost[w] = {}
      BY <1>1, <1>2 DEF ProgramStates, SoundBut, NothingLost
    <2>5. losses = s.lost
      BY <2>1, <2>2, <2>4
    <2>6. left \in [Views -> Nat]
      BY <2>1, <2>4
    <2>7. /\ cmds \in [Views -> Cmds \cup {NoCmd}]
          /\ cmds[v] = NoCmd /\ \A w \in Views \ {v} : cmds[w] = s.cmd[w]
      BY <1>1, <2>1
    <2>8. t = [s EXCEPT !.lost = losses, !.findCmd = kind,
                        !.jobs = left, !.cmd = cmds]
      BY <2>1 DEF CmdExitCb, ProgramStates
    <2> HIDE DEF t, losses, left, cmds
    <2>9. /\ t \in ProgramStates
          /\ t.cmd = cmds /\ t.lost = s.lost
          /\ t.running = s.running /\ t.watched = s.watched /\ t.stopped = s.stopped
          /\ t.open = s.open /\ t.written = s.written /\ t.unread = s.unread
          /\ t.shown = s.shown /\ t.matches = s.matches /\ t.matchCount = s.matchCount
          /\ v # Find => t.findCmd = s.findCmd
      BY <1>1, <2>5, <2>6, <2>7, <2>8 DEF ProgramStates, Searches
    <2>10. (\A d \in Cmds \ (t.running \cup {c}) : Idle(t, d)) /\ NothingLost(t)
      BY <1>2, <2>9 DEF SoundBut, Idle, NothingLost
    <2>11. OneView(t) /\ Unseen(t, c)
      BY <1>2, <1>1, <2>1, <2>7, <2>9 DEF SoundBut, OneView, Unseen
    <2>12. Accounted(t)
      BY <1>2, <2>7, <2>9 DEF SoundBut, Accounted, AccountedOf
    <2>13. Counted(t)
      BY <1>1, <1>2, <2>1, <2>7, <2>9 DEF SoundBut, Counted, Views
    <2>14. SoundBut(t, c)
      BY <2>9, <2>10, <2>11, <2>12, <2>13 DEF SoundBut
    <2> QED
      BY <2>3, <2>11, <2>14, FreedSound
  <1> QED
    BY <1>3, <1>4, <1>5

\* Lines that are read leave the pipe and reach the view, and are counted once.
LEMMA ProcessedSound ==
  ASSUME NEW s, NEW c \in Cmds, NEW k \in Pipes, NEW n \in Nat,
         Sound(s), k \in s.open[c], n <= s.unread[c][k],
         NEW m \in Counts(s, c, k, n)
  PROVE  Sound(Processed(s, c, k, n, m))
  <1> DEFINE t == Processed(s, c, k, n, m)
  <1>1. /\ s \in ProgramStates /\ s.cmd \in [Views -> Cmds \cup {NoCmd}]
        /\ s.matchCount \in Nat /\ s.matches \in [Cmds -> Nat]
    BY DEF Sound, ProgramStates
  <1>2. \A d \in Cmds, j \in Pipes :
          s.unread[d][j] \in Nat /\ s.shown[d][j] \in Nat /\ s.written[d][j] \in Nat
    BY <1>1 DEF ProgramStates
  <1>8. /\ m \in Nat /\ m <= n
        /\ s.cmd[Find] # c \/ k # "stdout" => m = 0
        /\ s.cmd[Find] = c /\ k = "stdout" /\ s.findCmd = "CMD_FIND" => m = n
    BY <1>1, CountsBounds
  <1>3. /\ t \in ProgramStates
        /\ t.running = s.running /\ t.cmd = s.cmd
        /\ t.lost = s.lost /\ t.stopped = s.stopped /\ t.watched = s.watched
        /\ t.written = s.written /\ t.open = s.open
        /\ \A d \in Cmds, j \in Pipes : d # c \/ j # k =>
             t.unread[d][j] = s.unread[d][j] /\ t.shown[d][j] = s.shown[d][j]
        /\ t.unread[c][k] = s.unread[c][k] - n
        /\ t.shown[c][k] = IF ViewsOf(s, c) # {} THEN s.shown[c][k] + n ELSE s.shown[c][k]
        /\ t.matches[c] = s.matches[c] + m
        /\ \A d \in Cmds \ {c} : t.matches[d] = s.matches[d]
        /\ t.matchCount = s.matchCount + m /\ t.findCmd = s.findCmd
    BY <1>1, <1>8, ProcessedFields
  <1> HIDE DEF t
  <1>4. c \in s.running
    BY DEF Sound, IdleAreClean, Idle
  <1>5. IdleAreClean(t) /\ OneView(t) /\ NothingLost(t)
    BY <1>3, <1>4 DEF Sound, IdleAreClean, Idle, OneView, NothingLost
  <1>6. Accounted(t)
    <2> SUFFICES ASSUME NEW v \in Views, NEW j \in Pipes,
                        t.cmd[v] # NoCmd, t.cmd[v] \notin t.stopped
                 PROVE  AccountedOf(t, t.cmd[v], j)
      BY DEF Accounted
    <2>1. AccountedOf(s, s.cmd[v], j) /\ s.cmd[v] \in Cmds
      BY <1>1, <1>3 DEF Sound, Accounted
    <2>2. CASE s.cmd[v] # c \/ j # k
      BY <1>3, <2>1, <2>2 DEF AccountedOf
    <2>3. CASE s.cmd[v] = c /\ j = k
      <3>1. ViewsOf(s, c) # {}
        BY <2>3 DEF ViewsOf
      <3> QED
        BY <1>2, <1>3, <2>1, <2>3, <3>1 DEF AccountedOf
    <2> QED
      BY <2>2, <2>3
  <1>7. Counted(t)
    <2>1. s.cmd[Find] = c => ViewsOf(s, c) # {}
      BY DEF ViewsOf, Views
    <2>2. CASE s.cmd[Find] # c
      <3>1. m = 0 /\ t.matchCount = s.matchCount
        BY <1>1, <1>3, <1>8, <2>2
      <3> QED
        BY <1>1, <1>3, <2>2, <3>1 DEF Sound, Counted, Views, Pipes
    <2>3. CASE s.cmd[Find] = c
      <3>1. /\ s.matchCount = s.matches[c] /\ s.matches[c] <= s.shown[c]["stdout"]
            /\ s.findCmd = "CMD_FIND" => s.matches[c] = s.shown[c]["stdout"]
            /\ s.shown[c]["stdout"] \in Nat /\ s.matches[c] \in Nat
        BY <1>1, <1>2, <2>3 DEF Sound, Counted, Pipes
      <3>2. CASE k = "stdout"
        <4>1. t.shown[c]["stdout"] = s.shown[c]["stdout"] + n
          BY <1>3, <2>1, <2>3, <3>2
        <4>2. s.findCmd = "CMD_FIND" => m = n
          BY <1>8, <2>3, <3>2
        <4> QED
          BY <1>1, <1>3, <1>8, <2>3, <3>1, <4>1, <4>2 DEF Counted
      <3>3. CASE k # "stdout"
        <4>1. t.shown[c]["stdout"] = s.shown[c]["stdout"] /\ m = 0
          BY <1>3, <1>8, <3>3 DEF Pipes
        <4> QED
          BY <1>1, <1>3, <2>3, <3>1, <4>1 DEF Counted
      <3> QED
        BY <3>2, <3>3
    <2> QED
      BY <2>2, <2>3
  <1> QED
    BY <1>3, <1>5, <1>6, <1>7 DEF Sound, t

\* The end of a pipe that nobody can write to any more: all of it was read.
LEMMA WatchRemovedSound ==
  ASSUME NEW s, NEW c \in Cmds, NEW k \in Pipes,
         Sound(s), k \in s.open[c], HungUp(s, c),
         NEW m \in Counts(s, c, k, LeftIn(s, c, k))
  PROVE  Sound(WatchRemoved(s, c, k, m))
  <1> DEFINE n == s.unread[c][k]
             p == Processed(s, c, k, n, m)
             opens == [p.open EXCEPT ![c] = @ \ {k}]
             t == [p EXCEPT !.open = opens]
  <1>1. /\ s \in ProgramStates /\ n \in Nat /\ n <= s.unread[c][k]
        /\ n = LeftIn(s, c, k)
    BY DEF Sound, ProgramStates, LeftIn
  <1>10. m \in Counts(s, c, k, n) /\ m \in Nat
    BY <1>1, CountsBounds
  <1>2. WatchRemoved(s, c, k, m) = CheckStop(t, c)
    BY DEF WatchRemoved, LeftIn
  <1>3. Sound(p)
    BY <1>1, <1>10, ProcessedSound
  <1>4. p.unread[c][k] = 0 /\ p.running = s.running
    BY <1>1, <1>10, ProcessedFields
  <1> HIDE DEF n, p
  <1>5. p \in ProgramStates /\ p.open \in [Cmds -> SUBSET Pipes]
        /\ p.cmd \in [Views -> Cmds \cup {NoCmd}]
        /\ \A d \in Cmds, j \in Pipes : p.shown[d][j] \in Nat
    BY <1>3 DEF Sound, ProgramStates
  <1>6. /\ opens \in [Cmds -> SUBSET Pipes]
        /\ opens[c] = p.open[c] \ {k} /\ \A d \in Cmds \ {c} : opens[d] = p.open[d]
    BY <1>5
  <1> HIDE DEF opens
  <1>7. /\ t \in ProgramStates
        /\ t.open = opens
        /\ t.cmd = p.cmd /\ t.lost = p.lost
        /\ t.running = p.running /\ t.watched = p.watched /\ t.stopped = p.stopped
        /\ t.written = p.written /\ t.unread = p.unread
        /\ t.shown = p.shown /\ t.matches = p.matches /\ t.matchCount = p.matchCount
        /\ t.findCmd = p.findCmd
    BY <1>5, <1>6 DEF ProgramStates
  <1> HIDE DEF t
  <1>8. IdleAreClean(t) /\ OneView(t) /\ NothingLost(t) /\ Counted(t)
    BY <1>3, <1>6, <1>7 DEF Sound, IdleAreClean, Idle, OneView, NothingLost, Counted
  <1>9. Accounted(t)
    BY <1>3, <1>4, <1>5, <1>6, <1>7 DEF Sound, Accounted, AccountedOf
  <1> QED
    BY <1>2, <1>7, <1>8, <1>9, CheckStopSound DEF Sound

\* Stopping a command: its view keeps what it has counted.
LEMMA AbortSound ==
  ASSUME NEW s, NEW c \in Cmds, Sound(s)
  PROVE  Sound(Abort(s, c))
  <1> DEFINE t == Abort(s, c)
  <1>1. s \in ProgramStates /\ s.cmd \in [Views -> Cmds \cup {NoCmd}]
    BY DEF Sound, ProgramStates
  <1>2. /\ t \in ProgramStates
        /\ t.cmd = s.cmd /\ t.lost = s.lost /\ t.matchCount = s.matchCount
        /\ t.findCmd = s.findCmd
        /\ t.running = s.running /\ t.watched = s.watched
        /\ t.written = s.written /\ t.shown = s.shown /\ t.matches = s.matches
        /\ \A d \in Cmds \ {c} :
             /\ t.open[d] = s.open[d] /\ t.unread[d] = s.unread[d]
             /\ d \in t.stopped <=> d \in s.stopped
        /\ t = s \/ (c \in t.stopped /\ c \in s.running)
    BY <1>1, AbortFields
  <1> HIDE DEF t
  <1>3. CASE t = s
    BY <1>3 DEF t
  <1>4. CASE c \in t.stopped /\ c \in s.running
    <2>1. IdleAreClean(t)
      BY <1>2, <1>4 DEF Sound, IdleAreClean, Idle
    <2>2. OneView(t) /\ NothingLost(t) /\ Counted(t)
      BY <1>2 DEF Sound, OneView, NothingLost, Counted
    <2>3. Accounted(t)
      BY <1>1, <1>2, <1>4 DEF Sound, Accounted, AccountedOf
    <2> QED
      BY <1>2, <2>1, <2>2, <2>3 DEF Sound, t
  <1> QED
    BY <1>2, <1>3, <1>4

\* The Stop action, for every job of the window.
LEMMA AbortJobsSound ==
  ASSUME NEW s, Sound(s)
  PROVE  Sound(AbortJobs(s))
  <1>1. ASSUME NEW t, NEW v \in Views, Sound(t) PROVE Sound(AbortJob(t, v))
    <2>1. t.cmd[v] \in Cmds \cup {NoCmd}
      BY <1>1 DEF Sound, ProgramStates
    <2> QED
      BY <1>1, <2>1, AbortSound DEF AbortJob
  <1> QED
    BY <1>1 DEF AbortJobs, Views

\* Nothing runs at first.
LEMMA InitInv == Init => Inv
  <1> SUFFICES ASSUME Init PROVE Inv
    OBVIOUS
  <1>1. NoLines \in [Pipes -> Nat]
    BY DEF NoLines
  <1>2. State \in ProgramStates
    BY <1>1 DEF Init, State, ProgramStates, LeaderStates, WindowStates, Searches
  <1>3. IdleAreClean(State)
    BY DEF Init, State, IdleAreClean, Idle, NoLines
  <1>4. OneView(State) /\ Accounted(State) /\ NothingLost(State) /\ Counted(State)
    BY DEF Init, State, OneView, Accounted, NothingLost, Counted, Views
  <1> QED
    BY <1>2, <1>3, <1>4 DEF Inv, Sound

\* A step of the main loop or the user that becomes a sound state is sound.
LEMMA BecomesSound ==
  ASSUME NEW s, Sound(s), Becomes(s)
  PROVE  Inv'
  <1>1. s \in ProgramStates
    BY DEF Sound
  <1>2. State' = s
    BY <1>1, BecomesState
  <1>3. Sound(State') = Inv'
    BY DEF Inv
  <1> QED
    BY <1>2, <1>3

\* The processes write, fork and end; only a line that is written matters.
LEMMA ProcessesSound ==
  ASSUME Inv, Processes
  PROVE  Inv'
  <1> DEFINE s == State
  <1>1. Sound(s) /\ s \in ProgramStates
    BY DEF Inv, Sound
  <1>2. ASSUME NEW c \in Cmds, NEW k \in Pipes, WriteLine(c, k) PROVE Inv'
    <2>1. /\ s.written \in [Cmds -> [Pipes -> Nat]] /\ s.unread \in [Cmds -> [Pipes -> Nat]]
          /\ s.shown \in [Cmds -> [Pipes -> Nat]]
          /\ s.cmd \in [Views -> Cmds \cup {NoCmd}]
      BY <1>1 DEF ProgramStates
    <2> DEFINE writes == [s.written EXCEPT ![c][k] = @ + 1]
               waits == [s.unread EXCEPT ![c][k] = @ + 1]
               t == [s EXCEPT !.written = writes, !.unread = waits]
    <2>2. Becomes(t)
      BY <1>2 DEF WriteLine, Env, State, Becomes
    <2>3. /\ writes \in [Cmds -> [Pipes -> Nat]] /\ waits \in [Cmds -> [Pipes -> Nat]]
          /\ writes[c][k] = s.written[c][k] + 1 /\ waits[c][k] = s.unread[c][k] + 1
          /\ \A d \in Cmds, j \in Pipes : d # c \/ j # k =>
               writes[d][j] = s.written[d][j] /\ waits[d][j] = s.unread[d][j]
      BY <2>1
    <2>4. k \in s.open[c]
      BY <1>2 DEF WriteLine, State
    <2> HIDE DEF s, writes, waits
    <2>5. /\ t \in ProgramStates
          /\ t.written = writes /\ t.unread = waits /\ t.shown = s.shown
          /\ t.matches = s.matches
          /\ t.running = s.running /\ t.watched = s.watched /\ t.stopped = s.stopped
          /\ t.open = s.open /\ t.cmd = s.cmd /\ t.lost = s.lost
          /\ t.matchCount = s.matchCount /\ t.findCmd = s.findCmd
      BY <1>1, <2>3 DEF ProgramStates
    <2> HIDE DEF t
    <2>6. c \in s.running
      BY <1>1, <2>4 DEF Sound, IdleAreClean, Idle
    <2>7. IdleAreClean(t)
      <3> SUFFICES ASSUME NEW d \in Cmds \ t.running PROVE Idle(t, d)
        BY DEF IdleAreClean
      <3>1. Idle(s, d) /\ d # c
        BY <1>1, <2>5, <2>6 DEF Sound, IdleAreClean
      <3>2. \A j \in Pipes : writes[d][j] = s.written[d][j] /\ waits[d][j] = s.unread[d][j]
        BY <2>3, <3>1
      <3> QED
        BY <2>5, <3>1, <3>2 DEF Idle
    <2>8. OneView(t) /\ NothingLost(t) /\ Counted(t)
      BY <1>1, <2>5 DEF Sound, OneView, NothingLost, Counted
    <2>9. Accounted(t)
      <3> SUFFICES ASSUME NEW v \in Views, NEW j \in Pipes,
                          t.cmd[v] # NoCmd, t.cmd[v] \notin t.stopped
                   PROVE  AccountedOf(t, t.cmd[v], j)
        BY DEF Accounted
      <3> DEFINE d == s.cmd[v]
      <3>1. AccountedOf(s, d, j) /\ d \in Cmds
        BY <1>1, <2>1, <2>5 DEF Sound, Accounted
      <3>2. s.written[d][j] \in Nat /\ s.unread[d][j] \in Nat /\ s.shown[d][j] \in Nat
        BY <2>1, <3>1
      <3>3. t.cmd[v] = d /\ t.open[d] = s.open[d] /\ t.shown[d][j] = s.shown[d][j]
        BY <2>5
      <3>4. t.written[d][j] = writes[d][j] /\ t.unread[d][j] = waits[d][j]
        BY <2>5
      <3> HIDE DEF d
      <3>5. CASE d = c /\ j = k
        BY <2>3, <2>4, <3>1, <3>2, <3>3, <3>4, <3>5, SMTT(30) DEF AccountedOf
      <3>6. CASE d # c \/ j # k
        BY <2>3, <3>1, <3>2, <3>3, <3>4, <3>6 DEF AccountedOf
      <3> QED
        BY <3>5, <3>6
    <2>10. Sound(t)
      BY <2>5, <2>7, <2>8, <2>9 DEF Sound
    <2> QED
      BY <2>2, <2>10, BecomesSound
  <1>3. ASSUME NEW c \in Cmds, Fork(c) \/ HelperEnds(c) \/ LeaderEnds(c) PROVE Inv'
    <2>1. /\ s.leader \in [Cmds -> LeaderStates] /\ s.helper \in [Cmds -> BOOLEAN]
      BY <1>1 DEF ProgramStates
    <2>2. leader' \in [Cmds -> LeaderStates] /\ helper' \in [Cmds -> BOOLEAN]
      BY <1>3, <2>1 DEF Fork, HelperEnds, LeaderEnds, State, LeaderStates
    <2> DEFINE t == [s EXCEPT !.leader = leader', !.helper = helper']
    <2>3. Becomes(t)
      BY <1>3 DEF Fork, HelperEnds, LeaderEnds, Env, State, Becomes
    <2> HIDE DEF s
    <2>4. /\ t \in ProgramStates
          /\ t.written = s.written /\ t.unread = s.unread /\ t.shown = s.shown
          /\ t.matches = s.matches
          /\ t.running = s.running /\ t.watched = s.watched /\ t.stopped = s.stopped
          /\ t.open = s.open /\ t.cmd = s.cmd /\ t.lost = s.lost
          /\ t.matchCount = s.matchCount /\ t.findCmd = s.findCmd
      BY <1>1, <2>2 DEF ProgramStates
    <2> HIDE DEF t
    <2>5. Sound(t)
      BY <1>1, <2>4 DEF Sound, IdleAreClean, Idle, OneView, Accounted, AccountedOf,
                        NothingLost, Counted
    <2> QED
      BY <2>3, <2>5, BecomesSound
  <1> QED
    BY <1>2, <1>3 DEF Processes

\* The sources of the main loop, in any order.
LEMMA MainLoopSound ==
  ASSUME Inv, MainLoop
  PROVE  Inv'
  <1>1. Sound(State) /\ State \in ProgramStates
    BY DEF Inv, Sound
  <1>2. ASSUME NEW c \in Cmds, NEW k \in Pipes, ReadLines(c, k) PROVE Inv'
    <2>1. PICK n \in 1 .. unread[c][k] :
            \E m \in Counts(State, c, k, n) : Becomes(Processed(State, c, k, n, m))
      BY <1>2 DEF ReadLines
    <2>4. PICK m \in Counts(State, c, k, n) : Becomes(Processed(State, c, k, n, m))
      BY <2>1
    <2>2. State.unread = unread /\ State.open = open /\ unread[c][k] \in Nat
      BY <1>1 DEF State, ProgramStates
    <2>3. n \in Nat /\ n <= State.unread[c][k] /\ k \in State.open[c]
      BY <1>2, <2>2 DEF ReadLines
    <2> QED
      BY <1>1, <2>3, <2>4, ProcessedSound, BecomesSound
  <1>3. ASSUME NEW c \in Cmds, NEW k \in Pipes, HangUp(c, k) PROVE Inv'
    <2>1. k \in State.open[c] /\ HungUp(State, c)
      BY <1>3 DEF HangUp, State
    <2>2. PICK m \in Counts(State, c, k, LeftIn(State, c, k)) :
            Becomes(WatchRemoved(State, c, k, m))
      BY <1>3 DEF HangUp
    <2> QED
      BY <1>1, <2>1, <2>2, WatchRemovedSound, BecomesSound
  <1>4. ASSUME NEW c \in Cmds, CommandExit(c) PROVE Inv'
    <2> DEFINE s == State
               leads == [s.leader EXCEPT ![c] = "none"]
               unwatched == s.watched \ {c}
               reaped == [s EXCEPT !.leader = leads]
               ended == [s EXCEPT !.leader = leads, !.watched = unwatched]
    <2>1. s.leader \in [Cmds -> LeaderStates]
      BY <1>1 DEF ProgramStates
    <2>2. leads \in [Cmds -> LeaderStates]
      BY <2>1 DEF LeaderStates
    <2>3. (c \notin watched /\ Becomes(reaped)) \/ Becomes(CheckStop(ended, c))
      BY <1>4 DEF CommandExit, State
    <2>4. unwatched \in SUBSET Cmds /\ Sound(s) /\ s \in ProgramStates
      BY <1>1 DEF ProgramStates
    <2> HIDE DEF s, leads
    <2>5. ASSUME NEW t, t = reaped \/ t = ended PROVE Sound(t)
      <3>1. /\ t \in ProgramStates
            /\ t.written = s.written /\ t.unread = s.unread /\ t.shown = s.shown
            /\ t.matches = s.matches
            /\ t.running = s.running /\ t.stopped = s.stopped
            /\ t.open = s.open /\ t.cmd = s.cmd /\ t.lost = s.lost
            /\ t.matchCount = s.matchCount /\ t.findCmd = s.findCmd
            /\ t.watched \in {s.watched, unwatched}
        <4>1. CASE t = reaped
          BY <2>2, <2>4, <4>1 DEF ProgramStates
        <4> HIDE DEF unwatched
        <4>2. CASE t = ended
          BY <2>2, <2>4, <4>2 DEF ProgramStates
        <4> QED
          BY <2>5, <4>1, <4>2
      <3>2. t.watched \subseteq s.watched
        BY <3>1
      <3> HIDE DEF reaped, ended
      <3> QED
        BY <2>4, <3>1, <3>2 DEF Sound, IdleAreClean, Idle, OneView, Accounted, AccountedOf,
                                NothingLost, Counted
    <2> QED
      BY <2>3, <2>5, CheckStopSound, BecomesSound
  <1> QED
    BY <1>2, <1>3, <1>4 DEF MainLoop

\* A search starts by clearing its count, also over a search that runs.
LEMMA SearchSound ==
  ASSUME NEW s, Sound(s), NEW kind \in Searches,
         NEW r \in RunCommand([s EXCEPT !.findCmd = kind, !.matchCount = 0], Find)
  PROVE  Sound(r)
  <1> DEFINE t == [s EXCEPT !.findCmd = kind, !.matchCount = 0]
  <1>1. s \in ProgramStates
    BY DEF Sound
  <1>2. /\ t \in ProgramStates
        /\ t.written = s.written /\ t.unread = s.unread /\ t.shown = s.shown
        /\ t.matches = s.matches
        /\ t.running = s.running /\ t.watched = s.watched /\ t.stopped = s.stopped
        /\ t.open = s.open /\ t.cmd = s.cmd /\ t.lost = s.lost
        /\ t.matchCount = 0
    BY <1>1 DEF ProgramStates
  <1>3. r \in RunCommand(t, Find)
    OBVIOUS
  <1> HIDE DEF t
  <1>4. IdleAreClean(t) /\ OneView(t) /\ Accounted(t) /\ NothingLost(t)
    BY <1>2 DEF Sound, IdleAreClean, Idle, OneView, Accounted, AccountedOf, NothingLost
  <1> QED
    BY <1>2, <1>3, <1>4, RunCommandSound DEF Views

\* The window closes with its plugin first, then its jobs and its pane.
LEMMA CloseWindowSound ==
  ASSUME Inv, CloseWindow
  PROVE  Inv'
  <1> DEFINE a == AbortAndDisconnect(State, Find)
             left == [a.jobs EXCEPT ![Find] = IF @ = 0 THEN 0 ELSE @ - 1]
             d == FindPluginDestroyed(State)
             b == AbortJobs(d)
             t == AbortAndDisconnect(b, Output)
  <1>1. Sound(a) /\ a.cmd[Find] = NoCmd
    BY DisconnectSound DEF Inv, Sound, Views
  <1>2. a \in ProgramStates /\ a.jobs \in [Views -> Nat]
    BY <1>1 DEF Sound, ProgramStates
  <1>3. left \in [Views -> Nat]
    BY <1>2 DEF Views
  <1>4. d = [a EXCEPT !.jobs = left, !.findCmd = "none", !.matchCount = 0]
    BY <1>2 DEF FindPluginDestroyed, ProgramStates
  <1>5. PICK w \in WindowStates :
          Becomes([t EXCEPT !.window = w, !.jobs = [v \in Views |-> 0]])
    BY DEF CloseWindow, WindowStates
  <1> HIDE DEF a, left, d
  <1>6. /\ d \in ProgramStates
        /\ d.written = a.written /\ d.unread = a.unread /\ d.shown = a.shown
        /\ d.matches = a.matches
        /\ d.running = a.running /\ d.watched = a.watched /\ d.stopped = a.stopped
        /\ d.open = a.open /\ d.cmd = a.cmd /\ d.lost = a.lost
    BY <1>2, <1>3, <1>4 DEF ProgramStates, Searches
  <1>7. Sound(d)
    BY <1>1, <1>6 DEF Sound, IdleAreClean, Idle, OneView, Accounted, AccountedOf,
                      NothingLost, Counted
  <1>8. Sound(t)
    BY <1>7, AbortJobsSound, DisconnectSound DEF Sound, Views
  <1> DEFINE none == [v \in Views |-> 0]
             u == [t EXCEPT !.window = w, !.jobs = none]
  <1>9. none \in [Views -> Nat]
    OBVIOUS
  <1> HIDE DEF t, none
  <1>10. /\ u \in ProgramStates
         /\ u.written = t.written /\ u.unread = t.unread /\ u.shown = t.shown
         /\ u.matches = t.matches
         /\ u.running = t.running /\ u.watched = t.watched /\ u.stopped = t.stopped
         /\ u.open = t.open /\ u.cmd = t.cmd /\ u.lost = t.lost
         /\ u.matchCount = t.matchCount /\ u.findCmd = t.findCmd
    BY <1>8, <1>9 DEF Sound, ProgramStates
  <1>11. Sound(u)
    BY <1>8, <1>10 DEF Sound, IdleAreClean, Idle, OneView, Accounted, AccountedOf,
                       NothingLost, Counted
  <1>12. Becomes(u)
    BY <1>5 DEF none
  <1> QED
    BY <1>11, <1>12, BecomesSound

\* What the user does with tools, searches and the window.
LEMMA UserSound ==
  ASSUME Inv, User
  PROVE  Inv'
  <1>1. CASE RunTool
    <2>1. PICK s \in RunCommand(State, Output) : Becomes(s)
      BY <1>1 DEF RunTool
    <2> QED
      BY <2>1, RunCommandSound, BecomesSound DEF Inv, Sound, Views
  <1>2. CASE FindInFiles
    BY <1>2, SearchSound, BecomesSound DEF FindInFiles, Inv, Searches
  <1>3. CASE FindFile
    BY <1>3, SearchSound, BecomesSound DEF FindFile, Inv, Searches
  <1>4. CASE Stop
    BY <1>4, AbortJobsSound, BecomesSound DEF Stop, Inv
  <1>5. CASE CloseWindow
    BY <1>5, CloseWindowSound
  <1> QED
    BY <1>1, <1>2, <1>3, <1>4, <1>5 DEF User

\* What the handlers of commands keep, whatever order they come in.
THEOREM CommandsSound == Spec => []Inv
  <1>1. Inv /\ [Next]_vars => Inv'
    <2> SUFFICES ASSUME Inv, [Next]_vars PROVE Inv'
      OBVIOUS
    <2>1. CASE UNCHANGED vars
      <3>1. State' = State
        BY <2>1 DEF vars, procVars, State
      <3>2. Sound(State') = Inv'
        BY DEF Inv
      <3> QED
        BY <3>1, <3>2 DEF Inv
    <2>2. CASE Next
      BY <2>2, ProcessesSound, MainLoopSound, UserSound DEF Next
    <2> QED
      BY <2>1, <2>2
  <1> QED
    BY <1>1, InitInv, PTL DEF Spec

\* A view is told of the exit of a command that was not stopped only when it was
\* given every line the command wrote, whichever of the three sources is last.
THEOREM OutputComesBeforeExit == Spec => []OutputBeforeExit
  <1>1. Inv => OutputBeforeExit
    BY DEF Inv, Sound, NothingLost, State, OutputBeforeExit
  <1> QED
    BY <1>1, CommandsSound, PTL

\* match_count is the number of lines counted of the search that runs and of no
\* other, also when one search is started over another; of Find File, the number
\* of all its lines.
THEOREM SearchesCountOwnLines == Spec => []CountsOwnLines
  <1>1. Inv => CountsOwnLines
    BY DEF Inv, Sound, Counted, State, CountsOwnLines
  <1> QED
    BY <1>1, CommandsSound, PTL
===============================================================================
