--------------------------- MODULE FileWatchProofs ---------------------------
(***************************************************************************)
(* The watch keeps its types whatever its clients do, for any number of    *)
(* files, monitors and clients; and what clients that prove more about     *)
(* themselves need to know of its poll.                                    *)
(***************************************************************************)
EXTENDS FileWatch, TLAPS

USE DEF Time

\* The entry of a monitor that is created has the type of one.
LEMMA CreatedType ==
  ASSUME NEW m \in [Ids -> Monitor], NEW i \in Ids, NEW f \in Files, NEW c \in Clients,
         fs \in [Files -> StatBuf]
  PROVE  /\ Created(m, i, f, c) \in [Ids -> Monitor]
         /\ Created(m, i, f, c)[i].file = f
         /\ \A j \in Ids \ {i} : Created(m, i, f, c)[j] = m[j]
  BY DEF Created, Monitor, StatBuf

\* The entry of a monitor that is cancelled is free, the others stay.
LEMMA CancelledType ==
  ASSUME NEW m \in [Ids -> Monitor], NEW i \in Ids
  PROVE  /\ Cancelled(m, i) \in [Ids -> Monitor]
         /\ Cancelled(m, i)[i] = FreeMonitor
         /\ \A j \in Ids \ {i} : Cancelled(m, i)[j] = m[j]
  BY FileWatchAssumption DEF Cancelled, Monitor, FreeMonitor, FileWatchAssumption

\* An entry of the table that is not used.
LEMMA FreeMonitorType == FreeMonitor \in Monitor
  BY FileWatchAssumption DEF FreeMonitor, Monitor, FileWatchAssumption

\* What a poll that does not run is like.
LEMMA NoPollType == NoPoll \in Poll /\ NoFileEvent \in FileEvent
  BY DEF NoPoll, Poll, NoFileEvent, FileEvent

\* The event of a monitor has the type of one.
LEMMA EventType == ASSUME NEW i \in Ids PROVE EventOf(i) \in FileEvent
  BY NoPollType DEF EventOf, EventCode, FileEvent

\* The types in the beginning.
LEMMA WatchInitTypeOK == WatchInit => WatchTypeOK
  <1> SUFFICES ASSUME WatchInit PROVE WatchTypeOK
    OBVIOUS
  <1>1. now \in Time
    BY FileWatchAssumption DEF FileWatchAssumption, WatchInit
  <1>2. monitors \in [Ids -> Monitor]
    BY FreeMonitorType DEF WatchInit
  <1>3. poll \in Poll
    BY NoPollType DEF WatchInit
  <1> QED
    BY <1>1, <1>2, <1>3 DEF WatchInit, WatchTypeOK

\* Every step of the watch, its clients and the disk keeps the types.
LEMMA WatchNextTypeOK ==
  ASSUME WatchTypeOK, WatchNext
  PROVE  WatchTypeOK'
  <1> USE DEF WatchTypeOK
  <1>1. CASE Tick
    BY <1>1, FileWatchAssumption DEF Tick, FileWatchAssumption
  <1>2. ASSUME NEW f \in Files, NEW t \in Time, ReplaceFile(f, t) PROVE WatchTypeOK'
    <2>1. [err |-> "none", mtime |-> t] \in StatBuf
      BY DEF StatBuf
    <2> QED
      BY <1>2, <2>1 DEF ReplaceFile
  <1>3. ASSUME NEW f \in Files, DeleteFile(f) PROVE WatchTypeOK'
    BY <1>3 DEF DeleteFile, StatBuf
  <1>4. ASSUME NEW f \in Files, HideFile(f) PROVE WatchTypeOK'
    BY <1>4 DEF HideFile, StatBuf
  <1>5. ASSUME NEW i \in Ids, Cancel(i) PROVE WatchTypeOK'
    BY <1>5, CancelledType DEF Cancel
  <1>6. ASSUME NEW i \in Ids, NEW f \in Files, NEW c \in Clients, Create(i, f, c)
        PROVE  WatchTypeOK'
    BY <1>6, CreatedType DEF Create
  <1>7. ASSUME NEW i \in Ids, NEW j \in Ids, NEW f \in Files, Replace(i, j, f)
        PROVE  WatchTypeOK'
    <2>1. Cancelled(monitors, i) \in [Ids -> Monitor]
      BY CancelledType
    <2>2. monitors[i].data \in Clients \cup {NoClient}
      BY DEF Monitor
    <2>3. monitors' \in [Ids -> Monitor]
      BY <1>7, <2>1, <2>2 DEF Replace, Created, Monitor, StatBuf
    <2> QED
      BY <1>7, <2>3 DEF Replace
  <1>8. CASE PollBegin
    BY <1>8, NoPollType DEF PollBegin, Poll, Requests
  <1>9. ASSUME NEW i \in Ids, StatMonitor(i) PROVE WatchTypeOK'
    <2>1. poll' \in Poll
      BY <1>9, EventType DEF StatMonitor, Poll
    <2>2. monitors' \in [Ids -> Monitor]
      <3>1. CASE i \notin Requests \/ ~monitors[i].alive \/ EventCode(i) = "deleted"
        BY <1>9, <3>1 DEF StatMonitor
      <3>2. CASE i \in Requests /\ EventCode(i) = "error"
        BY <1>9, <3>2 DEF StatMonitor, Monitor
      <3>3. CASE i \in Requests /\ monitors[i].alive
                   /\ EventCode(i) # "error" /\ EventCode(i) # "deleted"
        <4>1. monitors' = [monitors EXCEPT ![i].mtime = fs[monitors[i].file].mtime]
          BY <1>9, <3>3 DEF StatMonitor
        <4>2. monitors[i].file \in Files
          BY <3>3 DEF Requests, Monitor
        <4>3. fs[monitors[i].file].mtime \in Time
          BY <4>2 DEF StatBuf
        <4> QED
          BY <4>1, <4>3 DEF Monitor
      <3> QED
        BY <3>1, <3>2, <3>3
    <2> QED
      BY <1>9, <2>1, <2>2 DEF StatMonitor
  <1>10. CASE PollEnd
    BY <1>10, FreeMonitorType, NoPollType DEF PollEnd
  <1> QED
    BY <1>1, <1>2, <1>3, <1>4, <1>5, <1>6, <1>7, <1>8, <1>9, <1>10
       DEF WatchNext, Environment, Client, DoStat

\* The variables of the watch keep their types.
THEOREM WatchTypes == WatchSpec => []WatchTypeOK
  <1>1. WatchTypeOK /\ UNCHANGED watchVars => WatchTypeOK'
    BY DEF WatchTypeOK, watchVars
  <1>2. WatchTypeOK /\ [WatchNext]_watchVars => WatchTypeOK'
    BY <1>1, WatchNextTypeOK
  <1> QED
    BY <1>2, WatchInitTypeOK, PTL DEF WatchSpec

\* A monitor reported as deleted is not looked at again by the poll that
\* reported it, and a poll leaves nothing behind.
PollKept ==
  /\ poll.gone \cap poll.todo = {}
  /\ ~poll.running => poll = NoPoll

\* Every step keeps that: clients do not touch the poll.
LEMMA WatchNextPollKept ==
  ASSUME WatchTypeOK, PollKept, WatchNext
  PROVE  PollKept'
  <1> USE DEF PollKept
  <1>1. CASE Environment \/ Client
    BY <1>1 DEF Environment, Client, Tick, ReplaceFile, DeleteFile, HideFile, Cancel, Create,
                Replace
  <1>2. CASE PollBegin
    BY <1>2 DEF PollBegin
  <1>3. ASSUME NEW i \in Ids, StatMonitor(i) PROVE PollKept'
    <2>1. poll \in Poll
      BY DEF WatchTypeOK
    <2>2. /\ poll'.running = poll.running /\ poll.running
          /\ poll'.todo = poll.todo \ {i}
          /\ poll'.gone \subseteq poll.gone \cup {i}
      BY <1>3, <2>1 DEF StatMonitor, Poll
    <2> QED
      BY <2>2
  <1>4. CASE PollEnd
    BY <1>4 DEF PollEnd, NoPoll
  <1> QED
    BY <1>1, <1>2, <1>3, <1>4 DEF WatchNext, DoStat
==============================================================================
