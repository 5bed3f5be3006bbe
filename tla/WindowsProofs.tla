----------------------------- MODULE WindowsProofs -----------------------------
(***************************************************************************)
(* For any number of windows, documents and files, and any nesting of      *)
(* questions, quits and signals: the properties of Windows.  Handlers are  *)
(* functions of the program's state, so the invariant is stated of a       *)
(* state, and each lemma follows one function.                             *)
(***************************************************************************)
EXTENDS Windows, SequenceTheorems, TLAPS

Names == Files \cup {Untitled}
Sessions == Seq(SUBSET Names) \cup {NoSession}
Outcomes == {"none", "quit", "signal", "killed", "freed", "closed_twice"}

ProgramStates ==
  [windows : Seq(Wins), tabs : [Wins -> SUBSET Docs],
   file : [Docs -> Names \cup {Closed}], modified : SUBSET Docs,
   stack : Seq(Handler), running : BOOLEAN, in_try_quit : BOOLEAN,
   saved_session_in_try_quit : BOOLEAN, session : Sessions,
   sessionFile : Sessions, outcome : Outcomes]

\* A document is in one window, which is listed once.
House(s) ==
  /\ \A i, j \in DOMAIN s.windows : s.windows[i] = s.windows[j] => i = j
  /\ \A w \in Wins : \A d \in s.tabs[w] : w \in Listed(s) /\ s.file[d] # Closed
  /\ \A d \in Docs : s.file[d] # Closed => \E w \in Wins : d \in s.tabs[w]
  /\ \A v, w \in Wins : v # w => s.tabs[v] \cap s.tabs[w] = {}
  /\ \A d \in s.modified : s.file[d] # Closed

\* What a handler is about to close has no changes that it has not named, and
\* is still in the window it was in, or closed for good.
HandlerOK(s, h) ==
  /\ h.proc = "close_all" => h.docs = {} /\ h.saving = {}
  /\ h.proc # "close_all" =>
       /\ h.win \in Wins
       /\ h.saving \subseteq h.ask
       /\ \A d \in h.docs : s.file[d] = Closed \/ d \in s.tabs[h.win]
  /\ h.proc = "close_docs" => h.docs # {} /\ h.docs \cap s.modified \subseteq h.ask
  /\ h.proc = "close_window" => s.tabs[h.win] \cap s.modified \subseteq h.ask

Waits(s) == \A i \in 1 .. Len(s.stack) : HandlerOK(s, s.stack[i])

\* The documents close_docs is to close are on the hands of no handler further out.
Apart(s) ==
  \A i, j \in 1 .. Len(s.stack) :
    i < j /\ s.stack[j].proc = "close_docs" => s.stack[i].docs \cap s.stack[j].docs = {}

\* close_all goes on when the handler it called has returned.
Called(s) ==
  \A i \in 1 .. Len(s.stack) - 1 : s.stack[i].proc = "close_all" => s.stack[i].rest # <<>>

IsTry(h) == h.proc = "close_all" /\ h.why = "try"
IsDo(h) == h.proc = "close_all" /\ h.why \in {"do", "signal"}

Flags(s) ==
  /\ s.in_try_quit <=> \E i \in 1 .. Len(s.stack) : IsTry(s.stack[i])
  /\ \A i, j \in 1 .. Len(s.stack) : IsTry(s.stack[i]) /\ IsTry(s.stack[j]) => i = j
  /\ s.saved_session_in_try_quit <=> s.in_try_quit
  /\ s.running <=> ~\E i \in 1 .. Len(s.stack) : IsDo(s.stack[i])

\* What was open when a quit began is in the session, as long as a handler of
\* the quit waits.
Remembered(s) ==
  \A i \in 1 .. Len(s.stack) :
    /\ s.stack[i].held \subseteq SessionFiles(s.session)
    /\ s.stack[i].held # {} => \E j \in 1 .. i : s.stack[j].proc = "close_all"

Ended(s) ==
  /\ s.windows = <<>> /\ s.tabs = [w \in Wins |-> {}]
  /\ s.file = [d \in Docs |-> Closed] /\ s.modified = {}
  /\ ~s.running /\ ~s.in_try_quit /\ ~s.saved_session_in_try_quit

Going(s) ==
  House(s) /\ Waits(s) /\ Apart(s) /\ Called(s) /\ Flags(s) /\ Remembered(s)

Sound(s) ==
  /\ s \in ProgramStates
  /\ IF s.outcome = "none" THEN Going(s) ELSE Ended(s)

Inv == Sound(State)
USE WindowsAssumption DEF WindowsAssumption

(***************************************************************************)
(* Sequences                                                               *)
(***************************************************************************)
\* The last element of a stack, and what is below it.
LEMMA LastAndFront ==
  ASSUME NEW S, NEW s \in Seq(S), s # <<>>
  PROVE  /\ Last(s) \in S /\ Last(s) = s[Len(s)]
         /\ Len(s) \in Nat \ {0}
         /\ Front(s) \in Seq(S) /\ Len(Front(s)) = Len(s) - 1
         /\ \A i \in 1 .. Len(s) - 1 : Front(s)[i] = s[i]
  <1>1. Len(s) \in Nat \ {0}
    BY EmptySeq
  <1>2. \A i \in 1 .. Len(s) - 1 : s[i] \in S
    BY <1>1, ElementOfSeq
  <1>3. /\ SubSeq(s, 1, Len(s) - 1) \in Seq(S)
        /\ Len(SubSeq(s, 1, Len(s) - 1)) = Len(s) - 1
        /\ \A i \in 1 .. Len(s) - 1 : SubSeq(s, 1, Len(s) - 1)[i] = s[i]
    <2> DEFINE n == Len(s) - 1
    <2>1. n \in Nat /\ \A i \in 1 .. n : s[i] \in S
      BY <1>1, <1>2
    <2> HIDE DEF n
    <2>2. /\ SubSeq(s, 1, n) \in Seq(S)
          /\ Len(SubSeq(s, 1, n)) = IF 1 <= n THEN n - 1 + 1 ELSE 0
          /\ \A i \in 1 .. n - 1 + 1 : SubSeq(s, 1, n)[i] = s[1 + i - 1]
      BY <2>1, SubSeqProperties
    <2>3. /\ SubSeq(s, 1, n) \in Seq(S) /\ Len(SubSeq(s, 1, n)) = n
          /\ \A i \in 1 .. n : SubSeq(s, 1, n)[i] = s[i]
      BY <2>1, <2>2
    <2> QED
      BY <2>3 DEF n
  <1>4. s[Len(s)] \in S
    BY <1>1, ElementOfSeq
  <1> QED
    BY <1>1, <1>3, <1>4 DEF Last, Front

\* A stack with one more handler on it.
LEMMA Appended ==
  ASSUME NEW S, NEW s \in Seq(S), NEW x \in S
  PROVE  LET t == Append(s, x)
         IN /\ t \in Seq(S) /\ Len(t) = Len(s) + 1 /\ t # <<>>
            /\ Last(t) = x /\ t[Len(t)] = x /\ Len(s) \in Nat
            /\ \A i \in 1 .. Len(s) : t[i] = s[i]
            /\ Front(t) = s
  <1> DEFINE t == Append(s, x)
  <1>1. /\ t \in Seq(S) /\ Len(t) = Len(s) + 1 /\ Len(s) \in Nat
        /\ t[Len(s) + 1] = x
        /\ \A i \in 1 .. Len(s) : t[i] = s[i]
    OBVIOUS
  <1> HIDE DEF t
  <1>2. t # <<>>
    BY <1>1, EmptySeq
  <1>3. /\ Front(t) \in Seq(S) /\ Len(Front(t)) = Len(s)
        /\ \A i \in 1 .. Len(s) : Front(t)[i] = s[i]
    BY <1>1, <1>2, LastAndFront, SMTT(30)
  <1>4. Front(t) = s
    BY <1>1, <1>3, SeqEqual
  <1> QED
    BY <1>1, <1>2, <1>4 DEF Last, t

\* A stack whose last element was replaced.
LEMMA LastReplaced ==
  ASSUME NEW S, NEW s \in Seq(S), s # <<>>, NEW x \in S, NEW t, t = [s EXCEPT ![Len(s)] = x]
  PROVE  Front(t) = Front(s)
  <1>1. Len(s) \in Nat \ {0} /\ Len(s) \in 1 .. Len(s)
    BY EmptySeq
  <1>2. /\ t \in Seq(S) /\ Len(t) = Len(s)
        /\ \A i \in 1 .. Len(s) : t[i] = IF i = Len(s) THEN x ELSE s[i]
    BY <1>1, ExceptSeq
  <1>3. t # <<>>
    BY <1>1, <1>2, EmptySeq
  <1>4. /\ Front(s) \in Seq(S) /\ Len(Front(s)) = Len(s) - 1
        /\ \A i \in 1 .. Len(s) - 1 : Front(s)[i] = s[i]
    BY LastAndFront
  <1>5. /\ Front(t) \in Seq(S) /\ Len(Front(t)) = Len(t) - 1
        /\ \A i \in 1 .. Len(t) - 1 : Front(t)[i] = t[i]
    BY <1>2, <1>3, LastAndFront, ZenonT(30)
  <1>6. ASSUME NEW i \in 1 .. Len(s) - 1 PROVE Front(t)[i] = Front(s)[i]
    <2> DEFINE n == Len(s)
    <2>0. n \in Nat \ {0} /\ Len(t) = n /\ i \in 1 .. n - 1
      BY <1>1, <1>2
    <2> HIDE DEF n
    <2>1. i \in 1 .. n /\ i # n /\ i \in 1 .. Len(t) - 1
      BY <2>0
    <2>2. Front(t)[i] = t[i] /\ t[i] = s[i]
      BY <1>2, <1>5, <2>1 DEF n
    <2> QED
      BY <1>4, <2>2
  <1> QED
    BY <1>2, <1>4, <1>5, <1>6, SeqEqual

\* What a sequence lists.
LEMMA Lists ==
  ASSUME NEW S, NEW s \in Seq(S)
  PROVE  /\ ToSet(s) = {s[i] : i \in 1 .. Len(s)}
         /\ ToSet(s) \subseteq S
         /\ s = <<>> <=> ToSet(s) = {}
         /\ s = <<>> <=> Len(s) = 0
         /\ Len(s) \in Nat
  <1>1. DOMAIN s = 1 .. Len(s) /\ Len(s) \in Nat
    BY LenProperties
  <1>2. \A i \in 1 .. Len(s) : s[i] \in S
    BY ElementOfSeq
  <1>3. s = <<>> => Len(s) = 0
    OBVIOUS
  <1>4. s # <<>> => Len(s) # 0 /\ s[1] \in ToSet(s)
    BY <1>1, EmptySeq DEF ToSet
  <1> QED
    BY <1>1, <1>2, <1>3, <1>4, SMTT(30) DEF ToSet

\* A list of windows without one of them.
LEMMA Removed ==
  ASSUME NEW S, NEW s \in Seq(S), NEW x, NEW i \in DOMAIN s, s[i] = x,
         \A j, k \in DOMAIN s : s[j] = s[k] => j = k
  PROVE  LET t == RemoveAt(s, i)
         IN /\ t \in Seq(S) /\ ToSet(t) = ToSet(s) \ {x} /\ Len(t) = Len(s) - 1
            /\ \A j, k \in DOMAIN t : t[j] = t[k] => j = k
  <1> DEFINE n == Len(s)
             a == SubSeq(s, 1, i - 1)
             b == SubSeq(s, i + 1, n)
             t == a \o b
  <1>1. DOMAIN s = 1 .. n /\ n \in Nat
    BY LenProperties
  <1>3. i \in 1 .. n /\ s[i] = x
    BY <1>1
  <1>4. \A j \in 1 .. n : s[j] \in S
    BY ElementOfSeq
  <1> HIDE DEF n
  <1>5. /\ a \in Seq(S) /\ Len(a) = i - 1
        /\ \A j \in 1 .. i - 1 : a[j] = s[j]
    <2>1. /\ SubSeq(s, 1, i - 1) \in Seq(S)
          /\ Len(SubSeq(s, 1, i - 1)) = IF 1 <= i - 1 THEN (i - 1) - 1 + 1 ELSE 0
          /\ \A j \in 1 .. (i - 1) - 1 + 1 : SubSeq(s, 1, i - 1)[j] = s[1 + j - 1]
      BY <1>1, <1>3, <1>4, SubSeqProperties
    <2> QED
      BY <1>1, <1>3, <2>1
  <1>6. /\ b \in Seq(S) /\ Len(b) = n - i
        /\ \A j \in 1 .. n - i : b[j] = s[i + j]
    <2>1. /\ SubSeq(s, i + 1, n) \in Seq(S)
          /\ Len(SubSeq(s, i + 1, n)) = IF i + 1 <= n THEN n - (i + 1) + 1 ELSE 0
          /\ \A j \in 1 .. n - (i + 1) + 1 : SubSeq(s, i + 1, n)[j] = s[(i + 1) + j - 1]
      BY <1>1, <1>3, <1>4, SubSeqProperties
    <2> QED
      BY <1>1, <1>3, <2>1, SMTT(30)
  <1> HIDE DEF a, b
  <1>7. /\ t \in Seq(S) /\ Len(t) = n - 1
        /\ \A j \in 1 .. n - 1 : t[j] = IF j <= i - 1 THEN a[j] ELSE b[j - (i - 1)]
    <2>0. a \in Seq(S) /\ b \in Seq(S)
      BY <1>5, <1>6
    <2>1. /\ a \o b \in Seq(S) /\ Len(a \o b) = Len(a) + Len(b)
          /\ \A j \in 1 .. Len(a) + Len(b) :
               (a \o b)[j] = IF j <= Len(a) THEN a[j] ELSE b[j - Len(a)]
      BY <2>0, ConcatProperties
    <2>2. Len(a) + Len(b) = n - 1
      BY <1>1, <1>3, <1>5, <1>6
    <2> QED
      BY <1>5, <2>1, <2>2
  <1>8. /\ \A j \in 1 .. n - 1 : t[j] = IF j < i THEN s[j] ELSE s[j + 1]
        /\ DOMAIN t = 1 .. n - 1
    <2>1. ASSUME NEW j \in 1 .. n - 1 PROVE t[j] = IF j < i THEN s[j] ELSE s[j + 1]
      <3>1. CASE j < i
        BY <1>1, <1>3, <1>5, <1>7, <3>1
      <3>2. CASE ~(j < i)
        <4>1. j - (i - 1) \in 1 .. n - i /\ i + (j - (i - 1)) = j + 1 /\ ~(j <= i - 1)
          BY <1>1, <1>3, <3>2
        <4> QED
          BY <1>6, <1>7, <3>2, <4>1
      <3> QED
        BY <3>1, <3>2
    <2>2. DOMAIN t = 1 .. Len(t)
      BY <1>7, LenProperties
    <2> QED
      BY <1>7, <2>1, <2>2
  <1> HIDE DEF t
  <1>9. \A j, k \in DOMAIN t : t[j] = t[k] => j = k
    <2> SUFFICES ASSUME NEW j \in 1 .. n - 1, NEW k \in 1 .. n - 1, t[j] = t[k] PROVE j = k
      BY <1>8
    <2> DEFINE jj == IF j < i THEN j ELSE j + 1
               kk == IF k < i THEN k ELSE k + 1
    <2>1. jj \in 1 .. n /\ kk \in 1 .. n /\ s[jj] = s[kk]
      BY <1>1, <1>3, <1>8
    <2>2. jj = kk
      BY <1>1, <2>1
    <2> QED
      BY <1>1, <1>3, <2>2
  <1>10. ToSet(t) = ToSet(s) \ {x}
    <2>1. ASSUME NEW y \in ToSet(t) PROVE y \in ToSet(s) \ {x}
      <3>1. PICK j \in 1 .. n - 1 : t[j] = y
        BY <1>8 DEF ToSet
      <3> DEFINE jj == IF j < i THEN j ELSE j + 1
      <3>2. jj \in 1 .. n /\ s[jj] = y /\ jj # i
        BY <1>1, <1>3, <1>8, <3>1
      <3> QED
        BY <1>1, <1>3, <3>2 DEF ToSet
    <2>2. ASSUME NEW y \in ToSet(s) \ {x} PROVE y \in ToSet(t)
      <3>1. PICK j \in 1 .. n : s[j] = y
        BY <1>1 DEF ToSet
      <3>2. j # i
        BY <1>3, <3>1
      <3> DEFINE jj == IF j < i THEN j ELSE j - 1
      <3>3. jj \in 1 .. n - 1 /\ t[jj] = s[j]
        <4>1. CASE j < i
          BY <1>1, <1>3, <1>8, <4>1
        <4>2. CASE ~(j < i)
          <5>1. j - 1 \in 1 .. n - 1 /\ ~(j - 1 < i) /\ (j - 1) + 1 = j
            BY <1>1, <1>3, <3>2, <4>2
          <5> QED
            BY <1>8, <4>2, <5>1
        <4> QED
          BY <4>1, <4>2
      <3> QED
        BY <1>8, <3>1, <3>3 DEF ToSet
    <2> QED
      BY <2>1, <2>2
  <1> QED
    BY <1>7, <1>9, <1>10 DEF RemoveAt, t, a, b, n

(***************************************************************************)
(* Parts of the invariant                                                  *)
(***************************************************************************)
SameHouse(s, t) ==
  t.windows = s.windows /\ t.tabs = s.tabs /\ t.file = s.file /\ t.modified = s.modified

SameFlags(s, t) ==
  /\ t.running = s.running /\ t.in_try_quit = s.in_try_quit
  /\ t.saved_session_in_try_quit = s.saved_session_in_try_quit

SameSession(s, t) == t.session = s.session /\ t.sessionFile = s.sessionFile

\* Becomes(s) makes s the next state, or ends the program.
LEMMA BecomesState ==
  ASSUME NEW s \in ProgramStates, Becomes(s)
  PROVE  State' = IF s.outcome = "closed_twice" THEN Gone(s, "closed_twice") ELSE s
  <1> DEFINE t == IF s.outcome = "closed_twice" THEN Gone(s, s.outcome) ELSE s
  <1>1. s.outcome = "closed_twice" => Gone(s, s.outcome) = Gone(s, "closed_twice")
    OBVIOUS
  <1>2. t = [windows |-> t.windows, tabs |-> t.tabs, file |-> t.file, modified |-> t.modified,
             stack |-> t.stack, running |-> t.running, in_try_quit |-> t.in_try_quit,
             saved_session_in_try_quit |-> t.saved_session_in_try_quit,
             session |-> t.session, sessionFile |-> t.sessionFile, outcome |-> t.outcome]
    BY DEF ProgramStates, Gone
  <1>3. /\ windows' = t.windows /\ tabs' = t.tabs /\ file' = t.file
        /\ modified' = t.modified /\ stack' = t.stack /\ running' = t.running
        /\ in_try_quit' = t.in_try_quit
        /\ saved_session_in_try_quit' = t.saved_session_in_try_quit
        /\ session' = t.session /\ sessionFile' = t.sessionFile
        /\ outcome' = t.outcome
    BY DEF Becomes
  <1> HIDE DEF t
  <1>4. State' = t
    BY <1>2, <1>3 DEF State
  <1> QED
    BY <1>1, <1>4 DEF t

\* The process is gone.
LEMMA GoneSound ==
  ASSUME NEW s \in ProgramStates, NEW how \in Outcomes \ {"none"}, NEW t, t = Gone(s, how)
  PROVE  /\ Sound(t) /\ t \in ProgramStates /\ Ended(t)
         /\ t.outcome = how /\ t.stack = <<>> /\ t.sessionFile = s.sessionFile
         /\ Listed(t) = {}
  <1>1. /\ <<>> \in Seq(Wins) /\ <<>> \in Seq(Handler) /\ NoSession \in Sessions
        /\ [w \in Wins |-> {}] \in [Wins -> SUBSET Docs]
        /\ [d \in Docs |-> Closed] \in [Docs -> Names \cup {Closed}]
    BY EmptySeq DEF Sessions
  <1>2. /\ t \in ProgramStates
        /\ t.windows = <<>> /\ t.tabs = [w \in Wins |-> {}]
        /\ t.file = [d \in Docs |-> Closed] /\ t.modified = {} /\ t.stack = <<>>
        /\ ~t.running /\ ~t.in_try_quit /\ ~t.saved_session_in_try_quit
        /\ t.sessionFile = s.sessionFile /\ t.outcome = how
    BY <1>1 DEF ProgramStates, Gone
  <1>3. Listed(t) = {}
    BY <1>1, <1>2, Lists DEF Listed
  <1> QED
    BY <1>2, <1>3 DEF Sound, Ended

\* What a step does to the documents of a window a question is about: it
\* closes some, and brings in none with changes.
Leaves(s, t, w) ==
  /\ \A d \in s.tabs[w] : d \in t.tabs[w] \/ t.file[d] = Closed
  /\ t.tabs[w] \cap t.modified \subseteq s.tabs[w] \cap s.modified

NotReused(s, t, h) == \A d \in h.docs : s.file[d] = Closed => t.file[d] = Closed

LEMMA HandlerLeft ==
  ASSUME NEW s \in ProgramStates, NEW t \in ProgramStates, House(t), NEW h \in Handler,
         HandlerOK(s, h), h.proc # "close_all" => Leaves(s, t, h.win), NotReused(s, t, h)
  PROVE  HandlerOK(t, h)
  <1>1. CASE h.proc = "close_all"
    BY <1>1 DEF HandlerOK
  <1>2. CASE h.proc = "close_docs"
    <2>1. /\ h.win \in Wins /\ h.saving \subseteq h.ask /\ h.docs # {}
          /\ \A d \in h.docs : s.file[d] = Closed \/ d \in s.tabs[h.win]
          /\ h.docs \cap s.modified \subseteq h.ask
      BY <1>2 DEF HandlerOK
    <2>2. \A d \in h.docs : t.file[d] = Closed \/ d \in t.tabs[h.win]
      BY <1>2, <2>1 DEF NotReused, Leaves
    <2>3. h.docs \cap t.modified \subseteq h.ask
      BY <1>2, <2>1, <2>2 DEF Leaves, House
    <2> QED
      BY <1>2, <2>1, <2>2, <2>3 DEF HandlerOK
  <1>3. CASE h.proc = "close_window"
    <2>1. /\ h.win \in Wins /\ h.saving \subseteq h.ask
          /\ \A d \in h.docs : s.file[d] = Closed \/ d \in s.tabs[h.win]
          /\ s.tabs[h.win] \cap s.modified \subseteq h.ask
      BY <1>3 DEF HandlerOK
    <2>2. \A d \in h.docs : t.file[d] = Closed \/ d \in t.tabs[h.win]
      BY <1>3, <2>1 DEF NotReused, Leaves
    <2>3. t.tabs[h.win] \cap t.modified \subseteq h.ask
      BY <1>3, <2>1 DEF Leaves
    <2> QED
      BY <1>3, <2>1, <2>2, <2>3 DEF HandlerOK
  <1> QED
    BY <1>1, <1>2, <1>3 DEF Handler

\* The handlers that wait are in order whatever a step does to windows and
\* documents no question is about.
LEMMA HouseChanged ==
  ASSUME NEW s, Sound(s), s.outcome = "none", NEW t \in ProgramStates, t.outcome = "none",
         t.stack = s.stack, SameFlags(s, t), t.session = s.session, House(t),
         \A i \in 1 .. Len(s.stack) :
           /\ s.stack[i].proc # "close_all" => Leaves(s, t, s.stack[i].win)
           /\ NotReused(s, t, s.stack[i])
  PROVE  Sound(t)
  <1>1. s \in ProgramStates /\ Going(s)
    BY DEF Sound
  <1>2. \A i \in 1 .. Len(s.stack) : s.stack[i] \in Handler
    BY <1>1, ElementOfSeq DEF ProgramStates
  <1>3. Waits(t)
    BY <1>1, <1>2, HandlerLeft DEF Waits, Going
  <1>4. Apart(t) /\ Called(t)
    BY <1>1 DEF Apart, Called, Going
  <1>5. Flags(t)
    BY <1>1 DEF Flags, SameFlags, Going
  <1>6. Remembered(t)
    BY <1>1 DEF Remembered, Going
  <1> QED
    BY <1>3, <1>4, <1>5, <1>6 DEF Sound, Going

\* A step that leaves windows and documents alone leaves handlers in order.
LEMMA SameHouseOK ==
  ASSUME NEW s, NEW t, SameHouse(s, t)
  PROVE  /\ House(s) <=> House(t)
         /\ \A h : HandlerOK(s, h) <=> HandlerOK(t, h)
         /\ Listed(t) = Listed(s) /\ OpenFiles(t) = OpenFiles(s)
  BY DEF SameHouse, House, HandlerOK, Listed, OpenFiles

(***************************************************************************)
(* The stack                                                               *)
(***************************************************************************)
\* A handler is called.
LEMMA PushedSound ==
  ASSUME NEW s, Sound(s), s.outcome = "none", NEW t \in ProgramStates, t.outcome = "none",
         NEW h \in Handler, t.stack = Append(s.stack, h), SameHouse(s, t), HandlerOK(s, h),
         h.proc = "close_docs" => \A i \in 1 .. Len(s.stack) : s.stack[i].docs \cap h.docs = {},
         s.stack # <<>> /\ Last(s.stack).proc = "close_all" => Last(s.stack).rest # <<>>,
         Flags(t), Remembered(t)
  PROVE  Sound(t)
  <1> DEFINE n == Len(s.stack)
             m == Len(t.stack)
  <1>1. s \in ProgramStates /\ Going(s) /\ s.stack \in Seq(Handler)
    BY DEF Sound, ProgramStates
  <1>0. n \in Nat /\ m = n + 1
    BY <1>1, Appended
  <1>2. t.stack[m] = h /\ \A i \in 1 .. n : t.stack[i] = s.stack[i]
    BY <1>1, Appended
  <1>3. n # 0 => Last(s.stack) = s.stack[n] /\ s.stack # <<>>
    BY <1>1 DEF Last
  <1> HIDE DEF n, m
  <1>4. Waits(t)
    <2>1. \A i \in 1 .. n : HandlerOK(s, s.stack[i])
      BY <1>1 DEF Going, Waits, n
    <2>2. \A i \in 1 .. m : i = m \/ i \in 1 .. n
      BY <1>0
    <2>3. \A i \in 1 .. m : HandlerOK(s, t.stack[i])
      BY <1>2, <2>1, <2>2
    <2> QED
      BY <2>3, SameHouseOK DEF Waits, m
  <1>5. Apart(t)
    <2>1. \A i, j \in 1 .. n :
            i < j /\ s.stack[j].proc = "close_docs" => s.stack[i].docs \cap s.stack[j].docs = {}
      BY <1>1 DEF Going, Apart, n
    <2>2. \A i \in 1 .. n : h.proc = "close_docs" => s.stack[i].docs \cap h.docs = {}
      BY DEF n
    <2>3. ASSUME NEW i \in 1 .. m, NEW j \in 1 .. m, i < j, t.stack[j].proc = "close_docs"
          PROVE  t.stack[i].docs \cap t.stack[j].docs = {}
      <3>0. i \in 1 .. n
        BY <1>0, <2>3
      <3>1. i \in 1 .. n /\ t.stack[i] = s.stack[i]
        BY <1>2, <3>0
      <3>2. CASE j = m
        BY <1>2, <2>2, <2>3, <3>1, <3>2
      <3>3. CASE j # m
        <4>0. j \in 1 .. n
          BY <1>0, <3>3
        <4>1. j \in 1 .. n /\ t.stack[j] = s.stack[j]
          BY <1>2, <4>0
        <4> QED
          BY <2>1, <2>3, <3>1, <4>1
      <3> QED
        BY <3>2, <3>3
    <2> QED
      BY <2>3 DEF Apart, m
  <1>6. Called(t)
    <2>1. ASSUME NEW i \in 1 .. m - 1, t.stack[i].proc = "close_all" PROVE t.stack[i].rest # <<>>
      <3>0. i \in 1 .. n
        BY <1>0
      <3>1. i \in 1 .. n /\ t.stack[i] = s.stack[i]
        BY <1>2, <3>0
      <3>2. CASE i = n
        BY <1>3, <2>1, <3>1, <3>2
      <3>3. CASE i # n
        <4>1. i \in 1 .. n - 1
          BY <1>0, <3>0, <3>3
        <4> QED
          BY <1>1, <2>1, <3>1, <4>1 DEF Going, Called, n
      <3> QED
        BY <3>2, <3>3
    <2> QED
      BY <2>1 DEF Called, m
  <1> QED
    BY <1>1, <1>4, <1>5, <1>6, SameHouseOK DEF Sound, Going

\* Flags when a handler is called that is not a quit.
LEMMA FlagsAppended ==
  ASSUME NEW s \in ProgramStates, NEW t, Flags(s), SameFlags(s, t), NEW h \in Handler,
         t.stack = Append(s.stack, h), h.proc # "close_all"
  PROVE  Flags(t)
  <1> DEFINE n == Len(s.stack)
             m == Len(t.stack)
  <1>1. n \in Nat /\ m = n + 1
    BY Appended DEF ProgramStates
  <1>2. t.stack[m] = h /\ \A i \in 1 .. n : t.stack[i] = s.stack[i]
    BY Appended DEF ProgramStates
  <1>3. /\ s.in_try_quit <=> \E i \in 1 .. n : IsTry(s.stack[i])
        /\ \A i, j \in 1 .. n : IsTry(s.stack[i]) /\ IsTry(s.stack[j]) => i = j
        /\ s.saved_session_in_try_quit <=> s.in_try_quit
        /\ s.running <=> ~\E i \in 1 .. n : IsDo(s.stack[i])
    BY DEF Flags
  <1> HIDE DEF n, m
  <1>4. ~IsTry(h) /\ ~IsDo(h)
    BY DEF IsTry, IsDo
  <1>5. 1 .. m = 1 .. n \cup {m}
    BY <1>1
  <1>6. /\ \A i \in 1 .. m : IsTry(t.stack[i]) => i \in 1 .. n /\ IsTry(s.stack[i])
        /\ \A i \in 1 .. m : IsDo(t.stack[i]) => i \in 1 .. n /\ IsDo(s.stack[i])
        /\ \A i \in 1 .. n : i \in 1 .. m /\ t.stack[i] = s.stack[i]
    BY <1>2, <1>4, <1>5
  <1> QED
    BY <1>3, <1>6 DEF Flags, SameFlags, m

\* What the quit under way remembers when a handler is called.
LEMMA RememberedAppended ==
  ASSUME NEW s \in ProgramStates, NEW t, Remembered(s), t.session = s.session, NEW h \in Handler,
         t.stack = Append(s.stack, h), h.held \subseteq SessionFiles(s.session),
         h.held # {} => \/ h.proc = "close_all"
                        \/ s.stack # <<>> /\ Last(s.stack).proc = "close_all"
  PROVE  Remembered(t)
  <1> DEFINE n == Len(s.stack)
             m == Len(t.stack)
  <1>1. n \in Nat /\ m = n + 1
    BY Appended DEF ProgramStates
  <1>2. t.stack[m] = h /\ \A i \in 1 .. n : t.stack[i] = s.stack[i]
    BY Appended DEF ProgramStates
  <1>3. s.stack # <<>> => n \in 1 .. n /\ Last(s.stack) = s.stack[n]
    BY <1>1, EmptySeq DEF ProgramStates, Last
  <1>4. \A i \in 1 .. n :
          /\ s.stack[i].held \subseteq SessionFiles(s.session)
          /\ s.stack[i].held # {} => \E j \in 1 .. i : s.stack[j].proc = "close_all"
    BY DEF Remembered
  <1> HIDE DEF n, m
  <1>5. ASSUME NEW i \in 1 .. m
        PROVE  /\ t.stack[i].held \subseteq SessionFiles(t.session)
               /\ t.stack[i].held # {} => \E j \in 1 .. i : t.stack[j].proc = "close_all"
    <2>1. CASE i = m
      <3>1. m \in 1 .. m /\ (s.stack # <<>> => n \in 1 .. m)
        BY <1>1, <1>3
      <3> QED
        BY <1>2, <1>3, <2>1, <3>1
    <2>2. CASE i # m
      <3>1. i \in 1 .. n
        BY <1>1, <2>2
      <3>2. \A j \in 1 .. i : j \in 1 .. n
        BY <1>1, <3>1
      <3> QED
        BY <1>2, <1>4, <3>1, <3>2
    <2> QED
      BY <2>1, <2>2
  <1> QED
    BY <1>5 DEF Remembered, m

\* A handler that asks is called.
LEMMA PushSound ==
  ASSUME NEW s, Sound(s), s.outcome = "none", NEW h \in Handler, h.proc # "close_all",
         HandlerOK(s, h),
         h.proc = "close_docs" => \A i \in 1 .. Len(s.stack) : s.stack[i].docs \cap h.docs = {},
         s.stack # <<>> /\ Last(s.stack).proc = "close_all" => Last(s.stack).rest # <<>>,
         h.held # {} => /\ s.stack # <<>> /\ Last(s.stack).proc = "close_all"
                        /\ h.held = Last(s.stack).held,
         NEW t, t = Push(s, h)
  PROVE  /\ Sound(t) /\ t.outcome = "none" /\ t.stack = Append(s.stack, h)
         /\ SameHouse(s, t) /\ SameFlags(s, t) /\ SameSession(s, t)
         /\ t.stack # <<>> /\ Last(t.stack) = h /\ Front(t.stack) = s.stack
  <1>1. s \in ProgramStates /\ Going(s) /\ s.stack \in Seq(Handler)
    BY DEF Sound, ProgramStates
  <1>2. /\ Append(s.stack, h) \in Seq(Handler) /\ Append(s.stack, h) # <<>>
        /\ Last(Append(s.stack, h)) = h /\ Front(Append(s.stack, h)) = s.stack
    BY <1>1, Appended
  <1>3. /\ t \in ProgramStates /\ t.outcome = "none" /\ t.stack = Append(s.stack, h)
        /\ t.windows = s.windows /\ t.tabs = s.tabs /\ t.file = s.file /\ t.modified = s.modified
        /\ t.running = s.running /\ t.in_try_quit = s.in_try_quit
        /\ t.saved_session_in_try_quit = s.saved_session_in_try_quit
        /\ t.session = s.session /\ t.sessionFile = s.sessionFile
    BY <1>1, <1>2 DEF Push, ProgramStates
  <1>4. SameHouse(s, t) /\ SameFlags(s, t) /\ SameSession(s, t)
    BY <1>3 DEF SameHouse, SameFlags, SameSession
  <1>5. h.held \subseteq SessionFiles(s.session)
    <2>1. CASE h.held = {}
      BY <2>1
    <2>2. CASE h.held # {}
      <3>1. Last(s.stack) = s.stack[Len(s.stack)] /\ Len(s.stack) \in 1 .. Len(s.stack)
        BY <1>1, <2>2, EmptySeq DEF Last
      <3> QED
        BY <1>1, <2>2, <3>1 DEF Going, Remembered
    <2> QED
      BY <2>1, <2>2
  <1>6. Flags(t) /\ Remembered(t)
    BY <1>1, <1>3, <1>4, <1>5, FlagsAppended, RememberedAppended DEF Going
  <1> QED
    BY <1>2, <1>3, <1>4, <1>6, PushedSound

\* A handler returns.
LEMMA PoppedSound ==
  ASSUME NEW s, Sound(s), s.outcome = "none", s.stack # <<>>, NEW t \in ProgramStates,
         t.outcome = "none", t.stack = Front(s.stack), SameHouse(s, t), t.session = s.session,
         Flags(t)
  PROVE  Sound(t)
  <1> DEFINE n == Len(s.stack)
             m == Len(t.stack)
  <1>1. s \in ProgramStates /\ Going(s) /\ s.stack \in Seq(Handler)
    BY DEF Sound, ProgramStates
  <1>2. n \in Nat \ {0} /\ m = n - 1
    BY <1>1, LastAndFront
  <1>3. \A i \in 1 .. m : t.stack[i] = s.stack[i]
    BY <1>1, LastAndFront
  <1> HIDE DEF n, m
  <1>4. \A i \in 1 .. m : i \in 1 .. n
    BY <1>2
  <1>5. \A i \in 1 .. m - 1 : i \in 1 .. n - 1 /\ i \in 1 .. m
    BY <1>2
  <1>6. \A i \in 1 .. m : \A j \in 1 .. i : j \in 1 .. m
    BY <1>2
  <1>7. Waits(t)
    <2>1. \A i \in 1 .. n : HandlerOK(s, s.stack[i])
      BY <1>1 DEF Going, Waits, n
    <2> QED
      BY <1>3, <1>4, <2>1, SameHouseOK DEF Waits, m
  <1>8. Apart(t)
    BY <1>1, <1>3, <1>4 DEF Going, Apart, n, m
  <1>9. Called(t)
    BY <1>1, <1>3, <1>5 DEF Going, Called, n, m
  <1>10. Remembered(t)
    <2>1. \A i \in 1 .. n :
            /\ s.stack[i].held \subseteq SessionFiles(s.session)
            /\ s.stack[i].held # {} => \E j \in 1 .. i : s.stack[j].proc = "close_all"
      BY <1>1 DEF Going, Remembered, n
    <2> QED
      BY <1>3, <1>4, <1>6, <2>1 DEF Remembered, m
  <1> QED
    BY <1>1, <1>7, <1>8, <1>9, <1>10, SameHouseOK DEF Sound, Going

\* Flags when a handler returns that is not a quit.
LEMMA FlagsFront ==
  ASSUME NEW s \in ProgramStates, NEW t, Flags(s), SameFlags(s, t), s.stack # <<>>,
         t.stack = Front(s.stack), Last(s.stack).proc # "close_all"
  PROVE  Flags(t)
  <1> DEFINE n == Len(s.stack)
             m == Len(t.stack)
  <1>1. n \in Nat \ {0} /\ m = n - 1
    BY LastAndFront DEF ProgramStates
  <1>2. \A i \in 1 .. m : t.stack[i] = s.stack[i]
    <2>1. s.stack \in Seq(Handler)
      BY DEF ProgramStates
    <2>2. \A i \in 1 .. Len(s.stack) - 1 : Front(s.stack)[i] = s.stack[i]
      BY <2>1, LastAndFront
    <2> QED
      BY <1>1, <2>2
  <1>3. ~IsTry(s.stack[n]) /\ ~IsDo(s.stack[n])
    BY DEF IsTry, IsDo, Last
  <1>4. /\ s.in_try_quit <=> \E i \in 1 .. n : IsTry(s.stack[i])
        /\ \A i, j \in 1 .. n : IsTry(s.stack[i]) /\ IsTry(s.stack[j]) => i = j
        /\ s.saved_session_in_try_quit <=> s.in_try_quit
        /\ s.running <=> ~\E i \in 1 .. n : IsDo(s.stack[i])
    BY DEF Flags
  <1> HIDE DEF n, m
  <1>5. 1 .. n = 1 .. m \cup {n}
    BY <1>1
  <1>6. /\ \A i \in 1 .. n : IsTry(s.stack[i]) => i \in 1 .. m
        /\ \A i \in 1 .. n : IsDo(s.stack[i]) => i \in 1 .. m
        /\ \A i \in 1 .. m : i \in 1 .. n /\ t.stack[i] = s.stack[i]
    BY <1>2, <1>3, <1>5
  <1> QED
    BY <1>4, <1>6 DEF Flags, SameFlags, m

\* A handler that asked returns.
LEMMA PopSound ==
  ASSUME NEW s, Sound(s), s.outcome = "none", s.stack # <<>>, Last(s.stack).proc # "close_all",
         NEW t, t = Pop(s)
  PROVE  /\ Sound(t) /\ t.outcome = "none" /\ t.stack = Front(s.stack)
         /\ SameHouse(s, t) /\ SameFlags(s, t) /\ SameSession(s, t)
         /\ t.stack # <<>> => Last(t.stack) \in Handler /\
                              (Last(t.stack).proc = "close_all" => Last(t.stack).rest # <<>>)
  <1>1. s \in ProgramStates /\ Going(s) /\ s.stack \in Seq(Handler)
    BY DEF Sound, ProgramStates
  <1>2. /\ Front(s.stack) \in Seq(Handler) /\ Len(Front(s.stack)) = Len(s.stack) - 1
        /\ \A i \in 1 .. Len(s.stack) - 1 : Front(s.stack)[i] = s.stack[i]
        /\ Len(s.stack) \in Nat \ {0}
    BY <1>1, LastAndFront
  <1>3. /\ t \in ProgramStates /\ t.outcome = "none" /\ t.stack = Front(s.stack)
        /\ t.windows = s.windows /\ t.tabs = s.tabs /\ t.file = s.file /\ t.modified = s.modified
        /\ t.running = s.running /\ t.in_try_quit = s.in_try_quit
        /\ t.saved_session_in_try_quit = s.saved_session_in_try_quit
        /\ t.session = s.session /\ t.sessionFile = s.sessionFile
    BY <1>1, <1>2 DEF Pop, ProgramStates
  <1>4. SameHouse(s, t) /\ SameFlags(s, t) /\ SameSession(s, t)
    BY <1>3 DEF SameHouse, SameFlags, SameSession
  <1>5. Flags(t)
    BY <1>1, <1>3, <1>4, FlagsFront DEF Going
  <1>6. Sound(t)
    BY <1>3, <1>4, <1>5, PoppedSound
  <1>7. ASSUME t.stack # <<>>
        PROVE  Last(t.stack) \in Handler /\ (Last(t.stack).proc = "close_all" => Last(t.stack).rest # <<>>)
    <2>1. Last(t.stack) \in Handler /\ Last(t.stack) = t.stack[Len(t.stack)] /\ Len(t.stack) \in Nat \ {0}
      BY <1>2, <1>3, <1>7, LastAndFront
    <2>2. Len(t.stack) \in 1 .. Len(s.stack) - 1 /\ t.stack[Len(t.stack)] = s.stack[Len(t.stack)]
      BY <1>2, <1>3, <2>1
    <2> QED
      BY <1>1, <2>1, <2>2 DEF Going, Called
  <1> QED
    BY <1>3, <1>4, <1>6, <1>7

\* The handler on top goes on: all but what it is about to do stays.
LEMMA TopChanged ==
  ASSUME NEW s, Sound(s), s.outcome = "none", s.stack # <<>>, NEW h \in Handler,
         NEW t \in ProgramStates, t.outcome = "none", t.session = s.session,
         t.stack = [s.stack EXCEPT ![Len(s.stack)] = h], SameHouse(s, t), SameFlags(s, t),
         HandlerOK(s, h), h.proc = Last(s.stack).proc, h.why = Last(s.stack).why,
         h.docs = Last(s.stack).docs, h.held = Last(s.stack).held
  PROVE  Sound(t) /\ t.stack # <<>> /\ Last(t.stack) = h /\ Front(t.stack) = Front(s.stack)
  <1> DEFINE n == Len(s.stack)
  <1>1. s \in ProgramStates /\ Going(s) /\ s.stack \in Seq(Handler)
    BY DEF Sound, ProgramStates
  <1>2. n \in Nat \ {0} /\ n \in 1 .. n
    BY <1>1, LastAndFront
  <1>3. Last(s.stack) = s.stack[n]
    BY DEF Last
  <1>4. /\ t.stack \in Seq(Handler) /\ Len(t.stack) = n
        /\ \A i \in 1 .. n : t.stack[i] = IF i = n THEN h ELSE s.stack[i]
    BY <1>1, <1>2, ExceptSeq
  <1> HIDE DEF n
  <1>5. t.stack # <<>> /\ Last(t.stack) = h
    BY <1>2, <1>4, EmptySeq DEF Last
  <1>6. /\ \A i \in 1 .. n : /\ t.stack[i].proc = s.stack[i].proc /\ t.stack[i].why = s.stack[i].why
                             /\ t.stack[i].docs = s.stack[i].docs /\ t.stack[i].held = s.stack[i].held
        /\ \A i \in 1 .. n - 1 : t.stack[i] = s.stack[i] /\ i \in 1 .. n
    BY <1>2, <1>3, <1>4
  <1>7. Waits(t)
    <2>1. \A i \in 1 .. n : HandlerOK(s, s.stack[i])
      BY <1>1 DEF Going, Waits, n
    <2>2. \A i \in 1 .. n : HandlerOK(s, t.stack[i])
      BY <1>4, <2>1
    <2> QED
      BY <1>4, <2>2, SameHouseOK DEF Waits
  <1>8. Apart(t)
    BY <1>1, <1>4, <1>6 DEF Going, Apart, n
  <1>9. Called(t)
    BY <1>1, <1>4, <1>6 DEF Going, Called, n
  <1>10. Flags(t)
    BY <1>1, <1>4, <1>6, SMTT(30) DEF Going, Flags, SameFlags, IsTry, IsDo, n
  <1>11. Remembered(t)
    <2>1. \A i \in 1 .. n : \A j \in 1 .. i : j \in 1 .. n
      BY <1>2
    <2>2. \A i \in 1 .. n :
            /\ s.stack[i].held \subseteq SessionFiles(s.session)
            /\ s.stack[i].held # {} => \E j \in 1 .. i : s.stack[j].proc = "close_all"
      BY <1>1 DEF Going, Remembered, n
    <2> QED
      BY <1>4, <1>6, <2>1, <2>2 DEF Remembered
  <1>12. Front(t.stack) = Front(s.stack)
    BY <1>1, LastReplaced
  <1> QED
    BY <1>1, <1>5, <1>7, <1>8, <1>9, <1>10, <1>11, <1>12, SameHouseOK DEF Sound, Going

(***************************************************************************)
(* Closing                                                                 *)
(***************************************************************************)
\* do_close_doc of each of the documents D.
LEMMA DocsClosed ==
  ASSUME NEW s, Sound(s), s.outcome = "none", NEW D \in SUBSET Docs, NEW t, t = DoCloseDocs(s, D)
  PROVE  /\ t \in ProgramStates
         /\ t.windows = s.windows /\ t.tabs = [w \in Wins |-> s.tabs[w] \ D]
         /\ t.file = [d \in Docs |-> IF d \in D THEN Closed ELSE s.file[d]]
         /\ t.modified = s.modified \ D /\ t.stack = s.stack
         /\ SameFlags(s, t) /\ SameSession(s, t)
         /\ t.outcome \in {"none", "closed_twice"}
         /\ (\A d \in D : \E w \in Listed(s) : d \in s.tabs[w]) <=> t.outcome = "none"
         /\ t.outcome = "none" => Sound(t)
  <1> DEFINE tbs == [w \in Wins |-> s.tabs[w] \ D]
             fls == [d \in Docs |-> IF d \in D THEN Closed ELSE s.file[d]]
             out == IF WindowlessAssertion(s, D) THEN s.outcome ELSE "closed_twice"
             mod == s.modified \ D
  <1>1. /\ s \in ProgramStates /\ Going(s) /\ s.tabs \in [Wins -> SUBSET Docs]
        /\ s.file \in [Docs -> Names \cup {Closed}] /\ s.modified \in SUBSET Docs
        /\ s.stack \in Seq(Handler)
    BY DEF Sound, ProgramStates
  <1>2. /\ tbs \in [Wins -> SUBSET Docs] /\ fls \in [Docs -> Names \cup {Closed}]
        /\ mod \in SUBSET Docs /\ out \in {"none", "closed_twice"}
        /\ (\A d \in D : \E w \in Listed(s) : d \in s.tabs[w]) <=> out = "none"
    BY <1>1 DEF WindowlessAssertion
  <1>3. t = [s EXCEPT !.tabs = tbs, !.file = fls, !.modified = mod, !.outcome = out]
    BY <1>1 DEF DoCloseDocs, ProgramStates
  <1> HIDE DEF tbs, fls, mod, out
  <1>4. /\ t \in ProgramStates
        /\ t.windows = s.windows /\ t.tabs = tbs /\ t.file = fls /\ t.modified = mod
        /\ t.stack = s.stack /\ t.running = s.running /\ t.in_try_quit = s.in_try_quit
        /\ t.saved_session_in_try_quit = s.saved_session_in_try_quit
        /\ t.session = s.session /\ t.sessionFile = s.sessionFile /\ t.outcome = out
    BY <1>1, <1>2, <1>3 DEF ProgramStates, Outcomes
  <1>5. SameFlags(s, t) /\ SameSession(s, t)
    BY <1>4 DEF SameFlags, SameSession
  <1>6. /\ \A w \in Wins : t.tabs[w] = s.tabs[w] \ D
        /\ \A d \in Docs : t.file[d] = IF d \in D THEN Closed ELSE s.file[d]
        /\ t.modified = s.modified \ D
    BY <1>4 DEF tbs, fls, mod
  <1>7. House(t)
    <2>1. House(s) /\ Listed(t) = Listed(s)
      BY <1>1, <1>4 DEF Going, Listed
    <2>2. \A w \in Wins : \A d \in t.tabs[w] : d \in Docs /\ d \in s.tabs[w] /\ d \notin D
      BY <1>1, <1>6
    <2> QED
      BY <1>1, <1>4, <1>6, <2>1, <2>2 DEF House
  <1>8. ASSUME t.outcome = "none" PROVE Sound(t)
    <2>1. ASSUME NEW i \in 1 .. Len(s.stack)
          PROVE  /\ s.stack[i].proc # "close_all" => Leaves(s, t, s.stack[i].win)
                 /\ NotReused(s, t, s.stack[i])
      <3>1. s.stack[i] \in Handler /\ HandlerOK(s, s.stack[i])
        BY <1>1, ElementOfSeq DEF Going, Waits
      <3>2. s.stack[i].docs \subseteq Docs
        BY <3>1 DEF Handler
      <3>3. NotReused(s, t, s.stack[i])
        BY <1>6, <3>2 DEF NotReused
      <3>4. ASSUME s.stack[i].proc # "close_all" PROVE Leaves(s, t, s.stack[i].win)
        BY <1>1, <1>6, <3>1, <3>4 DEF HandlerOK, Leaves
      <3> QED
        BY <3>3, <3>4
    <2> QED
      BY <1>4, <1>5, <1>7, <1>8, <2>1, HouseChanged DEF SameSession
  <1> QED
    BY <1>2, <1>4, <1>5, <1>8 DEF tbs, fls, mod

\* The end of moo_app_do_quit.
LEMMA QuitDone ==
  ASSUME NEW s \in ProgramStates, NEW t, t = DoneQuit(s)
  PROVE  /\ Sound(t) /\ t.outcome = "quit" /\ t.stack = s.stack /\ t.sessionFile = s.session
         /\ Ended(t) /\ t \in ProgramStates
  <1>1. WriteSession(s) \in ProgramStates /\ WriteSession(s).sessionFile = s.session
    BY DEF WriteSession, ProgramStates
  <1> DEFINE u == Gone(WriteSession(s), "quit")
  <1>2. u \in ProgramStates /\ Ended(u) /\ u.outcome = "quit" /\ u.sessionFile = s.session
    BY <1>1, GoneSound DEF Outcomes
  <1> HIDE DEF u
  <1>3. t = [u EXCEPT !.stack = s.stack]
    BY DEF DoneQuit, u
  <1>4. /\ t \in ProgramStates /\ t.outcome = "quit" /\ t.stack = s.stack
        /\ t.sessionFile = s.session
        /\ t.windows = u.windows /\ t.tabs = u.tabs /\ t.file = u.file /\ t.modified = u.modified
        /\ t.running = u.running /\ t.in_try_quit = u.in_try_quit
        /\ t.saved_session_in_try_quit = u.saved_session_in_try_quit
    BY <1>2, <1>3 DEF ProgramStates
  <1>5. Ended(t)
    BY <1>2, <1>4 DEF Ended
  <1> QED
    BY <1>4, <1>5 DEF Sound

\* The session the windows make.
LEMMA SessionSaved ==
  ASSUME NEW s \in ProgramStates, House(s), NEW t, t = SaveSession(s)
  PROVE  /\ t \in ProgramStates
         /\ SameHouse(s, t) /\ SameFlags(s, t) /\ t.stack = s.stack
         /\ t.sessionFile = s.sessionFile /\ t.outcome = s.outcome
         /\ OpenFiles(s) \subseteq SessionFiles(t.session)
  <1> DEFINE l == [i \in DOMAIN s.windows |-> {s.file[d] : d \in s.tabs[s.windows[i]]}]
  <1>1. /\ s.windows \in Seq(Wins) /\ s.tabs \in [Wins -> SUBSET Docs]
        /\ s.file \in [Docs -> Names \cup {Closed}]
    BY DEF ProgramStates
  <1>2. DOMAIN s.windows = 1 .. Len(s.windows) /\ Len(s.windows) \in Nat
    BY <1>1, LenProperties
  <1>3. ASSUME NEW i \in DOMAIN s.windows
        PROVE  {s.file[d] : d \in s.tabs[s.windows[i]]} \in SUBSET Names
    <2>1. s.windows[i] \in Wins
      BY <1>1, <1>2, ElementOfSeq
    <2>2. \A d \in s.tabs[s.windows[i]] : d \in Docs /\ s.file[d] # Closed
      BY <1>1, <2>1 DEF House
    <2> QED
      BY <1>1, <2>2
  <1>4. l \in [1 .. Len(s.windows) -> SUBSET Names]
    BY <1>2, <1>3
  <1>5. l \in Seq(SUBSET Names) /\ DOMAIN l = DOMAIN s.windows
    BY <1>2, <1>4, SeqDef
  <1>6. l # NoSession
    BY <1>5 DEF Names
  <1>7. OpenFiles(s) \subseteq SessionFiles(l)
    <2> SUFFICES ASSUME NEW f \in OpenFiles(s) PROVE f \in SessionFiles(l)
      OBVIOUS
    <2>1. PICK d \in Docs : f = s.file[d] /\ f \in Files
      BY DEF OpenFiles
    <2>2. PICK w \in Wins : d \in s.tabs[w]
      BY <2>1 DEF House
    <2>3. PICK i \in DOMAIN s.windows : s.windows[i] = w
      BY <2>2 DEF House, Listed, ToSet
    <2>4. f \in l[i] /\ i \in DOMAIN l
      BY <1>5, <2>1, <2>2, <2>3
    <2> HIDE DEF l
    <2>5. f \in UNION {l[j] : j \in DOMAIN l}
      BY <2>4
    <2> QED
      BY <1>6, <2>1, <2>5 DEF SessionFiles
  <1>8. t = [s EXCEPT !.session = l]
    BY DEF SaveSession
  <1> HIDE DEF l
  <1>9. /\ t \in ProgramStates /\ t.session = l
        /\ t.windows = s.windows /\ t.tabs = s.tabs /\ t.file = s.file /\ t.modified = s.modified
        /\ t.running = s.running /\ t.in_try_quit = s.in_try_quit
        /\ t.saved_session_in_try_quit = s.saved_session_in_try_quit
        /\ t.stack = s.stack /\ t.sessionFile = s.sessionFile /\ t.outcome = s.outcome
    BY <1>5, <1>8 DEF ProgramStates, Sessions
  <1> QED
    BY <1>7, <1>9 DEF SameHouse, SameFlags

\* Nothing is remembered when no quit is under way.
LEMMA NothingRemembered ==
  ASSUME NEW s, Sound(s), s.outcome = "none", s.running, ~s.in_try_quit
  PROVE  \A i \in 1 .. Len(s.stack) : s.stack[i].proc # "close_all" /\ s.stack[i].held = {}
  <1>1. Going(s) /\ s.stack \in Seq(Handler) /\ Len(s.stack) \in Nat
    BY LenProperties DEF Sound, ProgramStates
  <1>2. ASSUME NEW i \in 1 .. Len(s.stack) PROVE s.stack[i].proc # "close_all"
    <2>1. s.stack[i].why \in {"try", "do", "signal"}
      <3>1. s.stack[i] \in Handler
        BY <1>1, ElementOfSeq
      <3> QED
        BY <3>1 DEF Handler
    <2> QED
      BY <1>1, <2>1 DEF Going, Flags, IsTry, IsDo
  <1>3. ASSUME NEW i \in 1 .. Len(s.stack) PROVE s.stack[i].held = {}
    <2>1. \A j \in 1 .. i : j \in 1 .. Len(s.stack)
      BY <1>1
    <2> QED
      BY <1>1, <1>2, <2>1 DEF Going, Remembered
  <1> QED
    BY <1>2, <1>3

\* editor_will_close_window
LEMMA WillClose ==
  ASSUME NEW s, Sound(s), s.outcome = "none", NEW t, t = WillCloseWindow(s)
  PROVE  /\ Sound(t) /\ t.outcome = "none" /\ t.stack = s.stack
         /\ SameHouse(s, t) /\ SameFlags(s, t) /\ t.sessionFile = s.sessionFile
         /\ s.running /\ ~s.in_try_quit /\ Len(s.windows) = 1
              => OpenFiles(s) \subseteq SessionFiles(t.session)
         /\ ~(s.running /\ ~s.in_try_quit) => t = s
  <1>1. /\ s \in ProgramStates /\ Going(s)
        /\ s.saved_session_in_try_quit <=> s.in_try_quit
    BY DEF Sound, Going, Flags
  <1>2. CASE ~(s.running /\ ~s.saved_session_in_try_quit /\ Len(s.windows) = 1)
    <2>1. t = s
      BY <1>2 DEF WillCloseWindow
    <2> QED
      BY <1>1, <1>2, <2>1 DEF SameHouse, SameFlags
  <1>3. CASE s.running /\ ~s.saved_session_in_try_quit /\ Len(s.windows) = 1
    <2>1. t = SaveSession(s)
      BY <1>3 DEF WillCloseWindow
    <2>2. /\ t \in ProgramStates
          /\ SameHouse(s, t) /\ SameFlags(s, t) /\ t.stack = s.stack
          /\ t.sessionFile = s.sessionFile /\ t.outcome = s.outcome
          /\ OpenFiles(s) \subseteq SessionFiles(t.session)
      BY <1>1, <2>1, SessionSaved DEF Going
    <2>3. \A i \in 1 .. Len(s.stack) : s.stack[i].held = {}
      BY <1>1, <1>3, NothingRemembered
    <2>4. Remembered(t)
      BY <2>2, <2>3 DEF Remembered
    <2>5. Waits(t) /\ Apart(t) /\ Called(t) /\ House(t)
      BY <1>1, <2>2, SameHouseOK DEF Going, Waits, Apart, Called
    <2>6. Flags(t)
      BY <1>1, <2>2 DEF Going, Flags, SameFlags
    <2>7. Sound(t)
      BY <2>2, <2>4, <2>5, <2>6 DEF Sound, Going
    <2> QED
      BY <1>1, <1>3, <2>2, <2>7
  <1> QED
    BY <1>2, <1>3

\* do_close_window: the window goes with its documents, and the program with
\* its last window.
LEMMA WindowClosed ==
  ASSUME NEW s, Sound(s), s.outcome = "none", NEW w \in Listed(s), NEW t, t = DoCloseWindow(s, w)
  PROVE  /\ Sound(t) /\ t.stack = s.stack
         /\ \/ /\ t.outcome = "none"
               /\ Listed(t) = Listed(s) \ {w}
               /\ \A v \in Wins : t.tabs[v] = s.tabs[v] \ s.tabs[w]
               /\ t.file = [d \in Docs |-> IF d \in s.tabs[w] THEN Closed ELSE s.file[d]]
               /\ t.modified = s.modified \ s.tabs[w]
               /\ t.running = s.running
               /\ t.session = s.session \/ (s.running /\ ~s.in_try_quit)
               /\ s.running /\ ~s.in_try_quit => Listed(t) # {}
            \/ /\ t.outcome = "quit" /\ Ended(t)
               /\ s.running /\ ~s.in_try_quit
               /\ Listed(s) = {w} /\ s.modified \subseteq s.tabs[w]
               /\ OpenFiles(s) \subseteq SessionFiles(t.sessionFile)
  <1> DEFINE p == WillCloseWindow(s)
             c == DoCloseDocs(p, s.tabs[w])
             i == CHOOSE j \in DOMAIN s.windows : s.windows[j] = w
             ws == RemoveAt(c.windows, i)
             r == [c EXCEPT !.windows = ws]
  <1>1. /\ s \in ProgramStates /\ Going(s) /\ House(s) /\ s.windows \in Seq(Wins)
        /\ s.tabs \in [Wins -> SUBSET Docs] /\ s.modified \in SUBSET Docs
    BY DEF Sound, ProgramStates, Going
  <1>2. w \in Wins /\ s.tabs[w] \in SUBSET Docs
    <2>1. w \in Wins
      BY <1>1, Lists DEF Listed
    <2> QED
      BY <1>1, <2>1
  <1>3. /\ Sound(p) /\ p.outcome = "none" /\ p.stack = s.stack
        /\ SameHouse(s, p) /\ SameFlags(s, p) /\ p.sessionFile = s.sessionFile
        /\ s.running /\ ~s.in_try_quit /\ Len(s.windows) = 1
             => OpenFiles(s) \subseteq SessionFiles(p.session)
        /\ ~(s.running /\ ~s.in_try_quit) => p = s
    BY WillClose
  <1> HIDE DEF p
  <1>4. /\ p.windows = s.windows /\ p.tabs = s.tabs /\ p.file = s.file /\ p.modified = s.modified
        /\ p.running = s.running /\ p.in_try_quit = s.in_try_quit
        /\ Listed(p) = Listed(s)
    BY <1>3 DEF SameHouse, SameFlags, Listed
  <1>5. \A d \in s.tabs[w] : \E v \in Listed(p) : d \in p.tabs[v]
    BY <1>4
  <1>6. /\ c \in ProgramStates
        /\ c.windows = p.windows /\ c.tabs = [v \in Wins |-> p.tabs[v] \ s.tabs[w]]
        /\ c.file = [d \in Docs |-> IF d \in s.tabs[w] THEN Closed ELSE p.file[d]]
        /\ c.modified = p.modified \ s.tabs[w] /\ c.stack = p.stack
        /\ SameFlags(p, c) /\ SameSession(p, c)
        /\ c.outcome = "none" /\ Sound(c)
    BY <1>2, <1>3, <1>5, DocsClosed
  <1>7. c.windows = s.windows
    BY <1>4, <1>6
  <1> HIDE DEF c
  <1>8. /\ ws \in Seq(Wins) /\ ToSet(ws) = Listed(s) \ {w} /\ Len(ws) = Len(s.windows) - 1
        /\ \A j, k \in DOMAIN ws : ws[j] = ws[k] => j = k
    <2>1. ws = RemoveAt(s.windows, i)
      BY <1>7
    <2>2. \A j, k \in DOMAIN s.windows : s.windows[j] = s.windows[k] => j = k
      BY <1>1 DEF House
    <2>3. \E j \in DOMAIN s.windows : s.windows[j] = w
      BY DEF Listed, ToSet
    <2>4. i \in DOMAIN s.windows /\ s.windows[i] = w
      BY <2>3
    <2> HIDE DEF ws, i
    <2> QED
      BY <1>1, <2>1, <2>2, <2>4, Removed DEF Listed
  <1> HIDE DEF ws
  <1>9. /\ r \in ProgramStates /\ r.windows = ws /\ r.tabs = c.tabs /\ r.file = c.file
        /\ r.modified = c.modified /\ r.stack = c.stack /\ r.running = c.running
        /\ r.in_try_quit = c.in_try_quit
        /\ r.saved_session_in_try_quit = c.saved_session_in_try_quit
        /\ r.session = c.session /\ r.sessionFile = c.sessionFile /\ r.outcome = c.outcome
    BY <1>6, <1>8 DEF ProgramStates
  <1>10. t = AfterCloseWindow(r)
    BY DEF DoCloseWindow, p, c, ws, i
  <1> HIDE DEF r, i
  <1>11. /\ Listed(r) = Listed(s) \ {w}
         /\ \A v \in Wins : r.tabs[v] = s.tabs[v] \ s.tabs[w]
         /\ r.file = [d \in Docs |-> IF d \in s.tabs[w] THEN Closed ELSE s.file[d]]
         /\ r.modified = s.modified \ s.tabs[w]
    BY <1>4, <1>6, <1>8, <1>9 DEF Listed
  <1>12. House(r)
    <2>1. House(c)
      BY <1>6 DEF Sound, Going
    <2>2. \A v \in Wins : \A d \in r.tabs[v] : v \in Listed(r)
      BY <1>1, <1>11 DEF House
    <2> QED
      BY <1>8, <1>9, <2>1, <2>2 DEF House
  <1>13. Sound(r)
    <2>1. SameFlags(c, r)
      BY <1>9 DEF SameFlags
    <2>2. \A j \in 1 .. Len(c.stack) :
            /\ c.stack[j].proc # "close_all" => Leaves(c, r, c.stack[j].win)
            /\ NotReused(c, r, c.stack[j])
      BY <1>9 DEF Leaves, NotReused
    <2> QED
      BY <1>6, <1>9, <1>12, <2>1, <2>2, HouseChanged
  <1>14. /\ r.running = s.running /\ r.in_try_quit = s.in_try_quit /\ r.stack = s.stack
         /\ r.session = p.session
    BY <1>3, <1>4, <1>6, <1>9 DEF SameFlags, SameSession
  <1>15. Listed(r) = ToSet(ws) /\ (r.windows = <<>> <=> ToSet(ws) = {})
    BY <1>8, <1>9, Lists DEF Listed
  <1>16. CASE s.running /\ ~s.in_try_quit /\ r.windows = <<>>
    <2>1. t = DoneQuit(r)
      BY <1>10, <1>14, <1>16 DEF AfterCloseWindow
    <2>2. /\ Sound(t) /\ t.outcome = "quit" /\ t.stack = r.stack /\ t.sessionFile = r.session
          /\ Ended(t)
      BY <1>9, <2>1, QuitDone
    <2>3. Listed(s) = {w}
      BY <1>8, <1>15, <1>16
    <2>4. Len(s.windows) = 1
      <3>1. Len(ws) = 0
        BY <1>8, <1>15, <1>16, Lists
      <3>2. Len(s.windows) \in Nat
        BY <1>1, LenProperties
      <3> QED
        BY <1>8, <3>1, <3>2
    <2>5. s.modified \subseteq s.tabs[w]
      BY <1>1, <2>3 DEF House
    <2> QED
      BY <1>3, <1>14, <1>16, <2>2, <2>3, <2>4, <2>5
  <1>17. CASE ~(s.running /\ ~s.in_try_quit /\ r.windows = <<>>)
    <2>1. t = r
      BY <1>10, <1>14, <1>17 DEF AfterCloseWindow
    <2>2. s.running /\ ~s.in_try_quit => Listed(r) # {}
      BY <1>15, <1>17
    <2>3. t.outcome = "none" /\ (t.session = s.session \/ (s.running /\ ~s.in_try_quit))
      <3>1. r.outcome = "none"
        BY <1>6, <1>9
      <3>2. ~(s.running /\ ~s.in_try_quit) => r.session = s.session
        BY <1>3, <1>14
      <3> QED
        BY <2>1, <3>1, <3>2
    <2> QED
      BY <1>11, <1>13, <1>14, <2>1, <2>2, <2>3
  <1> QED
    BY <1>16, <1>17

(***************************************************************************)
(* Returning to close_all, and beginning to quit                           *)
(***************************************************************************)
\* The condition under which the handler on top may be left waiting.
MayCall(s) ==
  s.stack # <<>> /\ Last(s.stack).proc = "close_all" => Last(s.stack).rest # <<>>

\* close_all has one window less to close.
LEMMA OneLess ==
  ASSUME NEW s, Sound(s), MayCall(s), NEW t, t = Return(s, TRUE)
  PROVE  /\ Sound(t) /\ SameHouse(s, t) /\ SameFlags(s, t) /\ SameSession(s, t)
         /\ t.outcome = s.outcome
  <1>1. s \in ProgramStates /\ s.stack \in Seq(Handler)
    BY DEF Sound, ProgramStates
  <1>2. CASE s.stack = <<>> \/ Last(s.stack).proc # "close_all"
    <2>1. t = s
      BY <1>2 DEF Return
    <2> QED
      BY <2>1 DEF SameHouse, SameFlags, SameSession
  <1>3. CASE s.stack # <<>> /\ Last(s.stack).proc = "close_all"
    <2> DEFINE n == Len(s.stack)
               g == Last(s.stack)
               h == [g EXCEPT !.rest = Tail(@)]
               stk == [s.stack EXCEPT ![n] = h]
    <2>1. n \in 1 .. n /\ g \in Handler /\ g = s.stack[n]
      BY <1>1, <1>3, LastAndFront
    <2>2. g.rest \in Seq(Wins) /\ g.rest # <<>>
      BY <1>3, <2>1 DEF MayCall, Handler
    <2>3. Tail(g.rest) \in Seq(Wins)
      BY <2>2, HeadTailProperties
    <2>4. t = [s EXCEPT !.stack = stk]
      BY <1>3, <2>1 DEF Return
    <2> HIDE DEF g
    <2>5. /\ h \in Handler /\ h.proc = g.proc /\ h.win = g.win /\ h.docs = g.docs
          /\ h.ask = g.ask /\ h.saving = g.saving /\ h.why = g.why /\ h.held = g.held
      BY <2>1, <2>3 DEF Handler
    <2> HIDE DEF h, n
    <2>6. stk \in Seq(Handler)
      BY <1>1, <2>1, <2>5, ExceptSeq DEF n
    <2> HIDE DEF stk
    <2>7. /\ t \in ProgramStates /\ t.stack = stk
          /\ t.windows = s.windows /\ t.tabs = s.tabs /\ t.file = s.file /\ t.modified = s.modified
          /\ t.running = s.running /\ t.in_try_quit = s.in_try_quit
          /\ t.saved_session_in_try_quit = s.saved_session_in_try_quit
          /\ t.session = s.session /\ t.sessionFile = s.sessionFile /\ t.outcome = s.outcome
      BY <1>1, <2>4, <2>6 DEF ProgramStates
    <2>8. SameHouse(s, t) /\ SameFlags(s, t) /\ SameSession(s, t)
      BY <2>7 DEF SameHouse, SameFlags, SameSession
    <2>9. CASE s.outcome = "none"
      <3>1. HandlerOK(s, g)
        BY <1>1, <2>1, <2>9 DEF Sound, Going, Waits, n
      <3>2. HandlerOK(s, h)
        BY <2>5, <3>1 DEF HandlerOK
      <3>3. t.stack = [s.stack EXCEPT ![Len(s.stack)] = h]
        BY <2>7 DEF stk, n
      <3>4. Sound(t)
        BY <1>3, <2>5, <2>7, <2>8, <2>9, <3>2, <3>3, TopChanged DEF g
      <3> QED
        BY <2>7, <2>8, <3>4
    <2>10. CASE s.outcome # "none"
      <3>1. Ended(t)
        BY <2>7, <2>10 DEF Sound, Ended
      <3> QED
        BY <2>7, <2>8, <2>10, <3>1 DEF Sound
    <2> QED
      BY <2>9, <2>10
  <1> QED
    BY <1>2, <1>3

\* moo_app_do_quit begins.
LEMMA DoQuitBegun ==
  ASSUME NEW s, Sound(s), s.outcome = "none", MayCall(s), NEW why \in {"do", "signal"},
         NEW held \in SUBSET Files, held \subseteq SessionFiles(s.session),
         NEW t, t = BeginDoQuit(s, why, held)
  PROVE  Sound(t) /\ t.outcome = "none" /\ SameHouse(s, t) /\ SameSession(s, t)
  <1> DEFINE h == [proc |-> "close_all", win |-> NoWin, docs |-> {}, ask |-> {}, saving |-> {},
                   rest |-> s.windows, why |-> why, held |-> held]
             u == [s EXCEPT !.running = FALSE]
  <1>1. s \in ProgramStates /\ Going(s) /\ s.stack \in Seq(Handler) /\ s.windows \in Seq(Wins)
    BY DEF Sound, ProgramStates
  <1>2. h \in Handler
    BY <1>1 DEF Handler
  <1>3. t = [u EXCEPT !.stack = Append(u.stack, h)]
    BY DEF BeginDoQuit, Push
  <1>4. /\ h.proc = "close_all" /\ h.why = why /\ h.held = held /\ h.docs = {} /\ h.saving = {}
        /\ IsDo(h) /\ ~IsTry(h)
    BY DEF IsDo, IsTry
  <1> HIDE DEF h
  <1>5. Append(s.stack, h) \in Seq(Handler)
    BY <1>1, <1>2, Appended
  <1>6. /\ t \in ProgramStates /\ t.stack = Append(s.stack, h) /\ t.outcome = "none"
        /\ t.windows = s.windows /\ t.tabs = s.tabs /\ t.file = s.file /\ t.modified = s.modified
        /\ t.running = FALSE /\ t.in_try_quit = s.in_try_quit
        /\ t.saved_session_in_try_quit = s.saved_session_in_try_quit
        /\ t.session = s.session /\ t.sessionFile = s.sessionFile
    BY <1>1, <1>3, <1>5 DEF ProgramStates
  <1>7. SameHouse(s, t) /\ SameSession(s, t)
    BY <1>6 DEF SameHouse, SameSession
  <1>8. HandlerOK(s, h)
    BY <1>4 DEF HandlerOK
  <1>9. Remembered(t)
    BY <1>1, <1>2, <1>4, <1>6, RememberedAppended DEF Going
  <1>10. Flags(t)
    <2> DEFINE n == Len(s.stack)
               m == Len(t.stack)
    <2>1. n \in Nat /\ m = n + 1
      BY <1>1, <1>2, <1>6, Appended
    <2>2. t.stack[m] = h /\ \A i \in 1 .. n : t.stack[i] = s.stack[i]
      BY <1>1, <1>2, <1>6, Appended
    <2>3. /\ s.in_try_quit <=> \E i \in 1 .. n : IsTry(s.stack[i])
          /\ \A i, j \in 1 .. n : IsTry(s.stack[i]) /\ IsTry(s.stack[j]) => i = j
          /\ s.saved_session_in_try_quit <=> s.in_try_quit
      BY <1>1 DEF Going, Flags
    <2> HIDE DEF n, m
    <2>4. 1 .. m = 1 .. n \cup {m}
      BY <2>1
    <2>5. /\ \A i \in 1 .. m : IsTry(t.stack[i]) => i \in 1 .. n /\ IsTry(s.stack[i])
          /\ \A i \in 1 .. n : i \in 1 .. m /\ t.stack[i] = s.stack[i]
          /\ \E i \in 1 .. m : IsDo(t.stack[i])
      BY <1>4, <2>2, <2>4
    <2> QED
      BY <1>6, <2>3, <2>5 DEF Flags, m
  <1>11. Sound(t)
    BY <1>2, <1>4, <1>6, <1>7, <1>8, <1>9, <1>10, PushedSound DEF MayCall
  <1> QED
    BY <1>6, <1>7, <1>11

\* moo_app_try_quit is over.
LEMMA QuitTriedSound ==
  ASSUME NEW s, Sound(s), s.outcome = "none", s.stack # <<>>, IsTry(Last(s.stack)),
         NEW t, t = TryQuitDone(Pop(s))
  PROVE  /\ Sound(t) /\ t.outcome = "none" /\ SameHouse(s, t) /\ SameSession(s, t)
         /\ t.stack = Front(s.stack)
  <1> DEFINE u == Pop(s)
  <1>1. s \in ProgramStates /\ Going(s) /\ s.stack \in Seq(Handler)
    BY DEF Sound, ProgramStates
  <1>2. Front(s.stack) \in Seq(Handler)
    BY <1>1, LastAndFront
  <1>3. /\ t \in ProgramStates /\ t.stack = Front(s.stack) /\ t.outcome = "none"
        /\ t.windows = s.windows /\ t.tabs = s.tabs /\ t.file = s.file /\ t.modified = s.modified
        /\ t.running = s.running /\ t.in_try_quit = FALSE
        /\ t.saved_session_in_try_quit = FALSE
        /\ t.session = s.session /\ t.sessionFile = s.sessionFile
    BY <1>1, <1>2 DEF Pop, TryQuitDone, ProgramStates
  <1>4. SameHouse(s, t) /\ SameSession(s, t)
    BY <1>3 DEF SameHouse, SameSession
  <1>5. Flags(t)
    <2> DEFINE n == Len(s.stack)
               m == Len(t.stack)
    <2>1. n \in Nat \ {0} /\ m = n - 1
      BY <1>1, <1>3, LastAndFront
    <2>2. \A i \in 1 .. m : t.stack[i] = s.stack[i]
      <3>1. \A i \in 1 .. Len(s.stack) - 1 : Front(s.stack)[i] = s.stack[i]
        BY <1>1, LastAndFront
      <3> QED
        BY <1>3, <2>1, <3>1
    <2>3. IsTry(s.stack[n]) /\ ~IsDo(s.stack[n])
      BY DEF IsTry, IsDo, Last
    <2>4. /\ \A i, j \in 1 .. n : IsTry(s.stack[i]) /\ IsTry(s.stack[j]) => i = j
          /\ s.running <=> ~\E i \in 1 .. n : IsDo(s.stack[i])
      BY <1>1 DEF Going, Flags
    <2> HIDE DEF n, m
    <2>5. 1 .. n = 1 .. m \cup {n} /\ n \notin 1 .. m
      BY <2>1
    <2>6. /\ \A i \in 1 .. m : ~IsTry(t.stack[i])
          /\ \A i \in 1 .. n : IsDo(s.stack[i]) => i \in 1 .. m
          /\ \A i \in 1 .. m : i \in 1 .. n /\ t.stack[i] = s.stack[i]
      BY <2>2, <2>3, <2>4, <2>5
    <2> QED
      BY <1>3, <2>4, <2>6 DEF Flags, m
  <1>6. Sound(t)
    BY <1>3, <1>4, <1>5, PoppedSound
  <1> QED
    BY <1>3, <1>4, <1>6

\* moo_app_quit begins.
LEMMA TryQuitBegun ==
  ASSUME NEW s, Sound(s), s.outcome = "none", s.running, ~s.in_try_quit, NEW t, t = TryQuit(s)
  PROVE  Sound(t) /\ t.outcome = "none" /\ SameHouse(s, t)
  <1> DEFINE v == [s EXCEPT !.in_try_quit = TRUE, !.saved_session_in_try_quit = TRUE]
             u == SaveSession(v)
             h == [proc |-> "close_all", win |-> NoWin, docs |-> {}, ask |-> {}, saving |-> {},
                   rest |-> u.windows, why |-> "try", held |-> OpenFiles(s)]
  <1>1. s \in ProgramStates /\ Going(s) /\ s.stack \in Seq(Handler)
    BY DEF Sound, ProgramStates
  <1>2. /\ v \in ProgramStates /\ v.stack = s.stack /\ v.outcome = "none"
        /\ v.windows = s.windows /\ v.tabs = s.tabs /\ v.file = s.file /\ v.modified = s.modified
        /\ v.running = s.running /\ v.in_try_quit = TRUE /\ v.saved_session_in_try_quit = TRUE
    BY <1>1 DEF ProgramStates
  <1>3. t = Push(u, h)
    BY DEF TryQuit
  <1> HIDE DEF v
  <1>4. House(v) /\ OpenFiles(v) = OpenFiles(s)
    BY <1>1, <1>2, SameHouseOK DEF SameHouse, Going
  <1>5. /\ u \in ProgramStates /\ SameHouse(v, u) /\ SameFlags(v, u) /\ u.stack = v.stack
        /\ u.outcome = v.outcome /\ OpenFiles(v) \subseteq SessionFiles(u.session)
    BY <1>2, <1>4, SessionSaved
  <1> HIDE DEF u
  <1>6. u.windows \in Seq(Wins) /\ OpenFiles(s) \in SUBSET Files
    BY <1>5 DEF ProgramStates, OpenFiles
  <1>7. h \in Handler
    BY <1>6 DEF Handler
  <1>8. /\ h.proc = "close_all" /\ h.held = OpenFiles(s) /\ h.docs = {} /\ h.saving = {}
        /\ IsTry(h) /\ ~IsDo(h)
    BY DEF IsTry, IsDo
  <1> HIDE DEF h
  <1>9. Append(u.stack, h) \in Seq(Handler)
    BY <1>1, <1>2, <1>5, <1>7, Appended
  <1>10. /\ t \in ProgramStates /\ t.stack = Append(u.stack, h) /\ t.outcome = u.outcome
         /\ t.windows = u.windows /\ t.tabs = u.tabs /\ t.file = u.file /\ t.modified = u.modified
         /\ t.running = u.running /\ t.in_try_quit = u.in_try_quit
         /\ t.saved_session_in_try_quit = u.saved_session_in_try_quit
         /\ t.session = u.session
    BY <1>3, <1>5, <1>9 DEF Push, ProgramStates
  <1>11. /\ SameHouse(s, t) /\ t.stack = Append(s.stack, h) /\ t.outcome = "none"
         /\ t.running = TRUE /\ t.in_try_quit = TRUE /\ t.saved_session_in_try_quit = TRUE
    BY <1>1, <1>2, <1>5, <1>10 DEF SameHouse, SameFlags, ProgramStates
  <1>12. \A i \in 1 .. Len(s.stack) : s.stack[i].proc # "close_all" /\ s.stack[i].held = {}
    BY NothingRemembered
  <1>13. Remembered(t)
    <2>1. Remembered(u)
      BY <1>2, <1>5, <1>12 DEF Remembered
    <2> QED
      BY <1>4, <1>5, <1>7, <1>8, <1>10, <2>1, RememberedAppended
  <1>14. Flags(t)
    <2> DEFINE n == Len(s.stack)
               m == Len(t.stack)
    <2>1. n \in Nat /\ m = n + 1
      BY <1>1, <1>7, <1>11, Appended
    <2>2. t.stack[m] = h /\ \A i \in 1 .. n : t.stack[i] = s.stack[i]
      BY <1>1, <1>7, <1>11, Appended
    <2>3. \A i \in 1 .. n : ~IsTry(s.stack[i]) /\ ~IsDo(s.stack[i])
      BY <1>12 DEF IsTry, IsDo
    <2> HIDE DEF n, m
    <2>4. 1 .. m = 1 .. n \cup {m}
      BY <2>1
    <2>5. \A i \in 1 .. m : ~IsDo(t.stack[i]) /\ (IsTry(t.stack[i]) <=> i = m)
      BY <1>8, <2>2, <2>3, <2>4
    <2>6. m \in 1 .. m
      BY <2>4
    <2> QED
      BY <1>11, <2>5, <2>6 DEF Flags, m
  <1>15. HandlerOK(s, h)
    BY <1>8 DEF HandlerOK
  <1>16. s.stack # <<>> => Last(s.stack).proc # "close_all"
    <2>1. s.stack # <<>> => Last(s.stack) = s.stack[Len(s.stack)] /\ Len(s.stack) \in 1 .. Len(s.stack)
      BY <1>1, EmptySeq DEF Last
    <2> QED
      BY <1>12, <2>1
  <1> QED
    BY <1>7, <1>8, <1>10, <1>11, <1>13, <1>14, <1>15, <1>16, PushedSound

\* close_all returns to moo_app_try_quit or moo_app_do_quit.
LEMMA AllReturned ==
  ASSUME NEW s, Sound(s), s.outcome = "none", s.stack # <<>>, Last(s.stack).proc = "close_all",
         NEW ok \in BOOLEAN, NEW t, t = CloseAllReturns(s, ok)
  PROVE  /\ Sound(t)
         /\ \/ t.outcome = "none" /\ SameHouse(s, t)
            \/ t.outcome = "quit" /\ ~s.running /\ t.sessionFile = s.session
            \/ t.outcome = "signal" /\ ~s.running
         /\ t.outcome # "none" => Listed(t) = {}
  <1> DEFINE h == Last(s.stack)
             p == Pop(s)
  <1>1. s \in ProgramStates /\ Going(s) /\ s.stack \in Seq(Handler)
    BY DEF Sound, ProgramStates
  <1>2. /\ h \in Handler /\ h = s.stack[Len(s.stack)] /\ Len(s.stack) \in 1 .. Len(s.stack)
        /\ Front(s.stack) \in Seq(Handler) /\ Len(Front(s.stack)) = Len(s.stack) - 1
        /\ \A i \in 1 .. Len(s.stack) - 1 : Front(s.stack)[i] = s.stack[i]
    BY <1>1, LastAndFront
  <1>3. h.why \in {"try", "do", "signal"} /\ h.held \in SUBSET Files
    BY <1>2 DEF Handler
  <1>4. h.why # "try" => ~s.running
    BY <1>1, <1>2, <1>3 DEF Going, Flags, IsDo
  <1>5. p \in ProgramStates /\ p.session = s.session /\ p.stack = Front(s.stack)
    BY <1>1, <1>2 DEF Pop, ProgramStates
  <1>6. h.held \subseteq SessionFiles(s.session)
    BY <1>1, <1>2 DEF Going, Remembered
  <1>7. CASE h.why = "try"
    <2> DEFINE u == TryQuitDone(p)
    <2>1. /\ Sound(u) /\ u.outcome = "none" /\ SameHouse(s, u) /\ SameSession(s, u)
          /\ u.stack = Front(s.stack)
      BY <1>7, QuitTriedSound DEF IsTry
    <2>2. t = IF ok THEN BeginDoQuit(u, "do", h.held) ELSE u
      BY <1>7 DEF CloseAllReturns
    <2> HIDE DEF u
    <2>3. MayCall(u)
      <3> SUFFICES ASSUME u.stack # <<>>, Last(u.stack).proc = "close_all"
                   PROVE  Last(u.stack).rest # <<>>
        BY DEF MayCall
      <3>0. u.stack \in Seq(Handler)
        BY <1>2, <2>1
      <3>1. Last(u.stack) = u.stack[Len(u.stack)] /\ Len(u.stack) \in Nat \ {0}
        BY <3>0, LastAndFront
      <3>2. Len(u.stack) \in 1 .. Len(s.stack) - 1 /\ u.stack[Len(u.stack)] = s.stack[Len(u.stack)]
        BY <1>2, <2>1, <3>1
      <3> QED
        BY <1>1, <3>1, <3>2 DEF Going, Called
    <2>4. h.held \subseteq SessionFiles(u.session)
      BY <1>6, <2>1 DEF SameSession
    <2>5. CASE ok
      <3>1. Sound(t) /\ t.outcome = "none" /\ SameHouse(u, t)
        BY <1>3, <2>1, <2>3, <2>2, <2>4, <2>5, DoQuitBegun
      <3> QED
        BY <2>1, <3>1 DEF SameHouse
    <2> QED
      BY <2>1, <2>2, <2>5
  <1>8. CASE h.why = "do"
    <2>1. t = DoneQuit(p)
      BY <1>8 DEF CloseAllReturns
    <2>2. Sound(t) /\ t.outcome = "quit" /\ t.sessionFile = s.session /\ Ended(t)
      BY <1>5, <2>1, QuitDone
    <2>3. Listed(t) = {}
      BY <2>2 DEF Ended, Listed, ToSet
    <2> QED
      BY <1>4, <1>8, <2>2, <2>3
  <1>9. CASE h.why = "signal"
    <2>1. t = Gone(WriteSession(p), "signal")
      BY <1>9 DEF CloseAllReturns
    <2>2. WriteSession(p) \in ProgramStates
      BY <1>5 DEF WriteSession, ProgramStates
    <2>3. Sound(t) /\ t.outcome = "signal" /\ Listed(t) = {}
      BY <2>1, <2>2, GoneSound DEF Outcomes
    <2> QED
      BY <1>4, <1>9, <2>3
  <1> QED
    BY <1>3, <1>7, <1>8, <1>9

(***************************************************************************)
(* New documents and new windows                                           *)
(***************************************************************************)
\* A document that does not exist, and that no handler holds, comes to a window.
LEMMA DocInserted ==
  ASSUME NEW s, Sound(s), s.outcome = "none", NEW w \in Listed(s), NEW d \in FreeDocs(s),
         NEW name \in Names, NEW t, t = InsertDoc(s, w, d, name)
  PROVE  /\ Sound(t) /\ t.outcome = "none" /\ t.stack = s.stack
         /\ t.windows = s.windows /\ t.modified = s.modified
         /\ t.tabs = [s.tabs EXCEPT ![w] = s.tabs[w] \cup {d}]
         /\ t.file = [s.file EXCEPT ![d] = name]
         /\ SameFlags(s, t) /\ SameSession(s, t)
         /\ d \in Docs /\ s.file[d] = Closed /\ w \in Wins
  <1> DEFINE tbs == [s.tabs EXCEPT ![w] = s.tabs[w] \cup {d}]
             fls == [s.file EXCEPT ![d] = name]
  <1>1. /\ s \in ProgramStates /\ Going(s) /\ s.stack \in Seq(Handler) /\ s.windows \in Seq(Wins)
        /\ s.tabs \in [Wins -> SUBSET Docs] /\ s.file \in [Docs -> Names \cup {Closed}]
    BY DEF Sound, ProgramStates
  <1>2. w \in Wins /\ d \in Docs /\ s.file[d] = Closed /\ \A h \in ToSet(s.stack) : d \notin h.docs
    BY <1>1, Lists DEF FreeDocs, Listed
  <1>3. tbs \in [Wins -> SUBSET Docs] /\ fls \in [Docs -> Names \cup {Closed}]
    BY <1>1, <1>2
  <1>4. t = [s EXCEPT !.tabs = tbs, !.file = fls]
    BY <1>1 DEF InsertDoc, ProgramStates
  <1>5. /\ \A v \in Wins : tbs[v] = IF v = w THEN s.tabs[w] \cup {d} ELSE s.tabs[v]
        /\ \A e \in Docs : fls[e] = IF e = d THEN name ELSE s.file[e]
    BY <1>1, <1>2
  <1> HIDE DEF tbs, fls
  <1>6. /\ t \in ProgramStates /\ t.tabs = tbs /\ t.file = fls
        /\ t.windows = s.windows /\ t.modified = s.modified
        /\ t.stack = s.stack /\ t.running = s.running /\ t.in_try_quit = s.in_try_quit
        /\ t.saved_session_in_try_quit = s.saved_session_in_try_quit
        /\ t.session = s.session /\ t.sessionFile = s.sessionFile /\ t.outcome = s.outcome
    BY <1>1, <1>3, <1>4 DEF ProgramStates
  <1>7. SameFlags(s, t) /\ SameSession(s, t)
    BY <1>6 DEF SameFlags, SameSession
  <1>8. name # Closed
    BY DEF Names
  <1>9. House(t)
    <2>1. House(s) /\ Listed(t) = Listed(s)
      BY <1>1, <1>6 DEF Going, Listed
    <2>2. \A v \in Wins : d \notin s.tabs[v]
      BY <1>2, <2>1 DEF House
    <2>3. \A v \in Wins : s.tabs[v] \subseteq Docs
      BY <1>1
    <2>4. \A v \in Wins : \A e \in t.tabs[v] : v \in Listed(t) /\ t.file[e] # Closed
      BY <1>2, <1>5, <1>6, <1>8, <2>1, <2>3 DEF House
    <2>5. \A e \in Docs : t.file[e] # Closed => \E v \in Wins : e \in t.tabs[v]
      BY <1>2, <1>5, <1>6, <2>1 DEF House
    <2>6. \A u, v \in Wins : u # v => t.tabs[u] \cap t.tabs[v] = {}
      BY <1>2, <1>5, <1>6, <2>1, <2>2 DEF House
    <2>7. \A e \in t.modified : t.file[e] # Closed
      BY <1>1, <1>2, <1>5, <1>6, <2>1 DEF House, ProgramStates
    <2> QED
      BY <1>6, <2>1, <2>4, <2>5, <2>6, <2>7 DEF House
  <1>10. ASSUME NEW i \in 1 .. Len(s.stack)
         PROVE  /\ s.stack[i].proc # "close_all" => Leaves(s, t, s.stack[i].win)
                /\ NotReused(s, t, s.stack[i])
    <2>1. s.stack[i] \in Handler /\ HandlerOK(s, s.stack[i]) /\ s.stack[i] \in ToSet(s.stack)
      BY <1>1, ElementOfSeq, Lists DEF Going, Waits
    <2>2. s.stack[i].docs \subseteq Docs
      BY <2>1 DEF Handler
    <2>3. NotReused(s, t, s.stack[i])
      BY <1>2, <1>5, <1>6, <2>1, <2>2 DEF NotReused
    <2>4. ASSUME s.stack[i].proc # "close_all" PROVE Leaves(s, t, s.stack[i].win)
      <3>1. s.stack[i].win \in Wins /\ d \notin s.modified
        BY <1>1, <1>2, <2>1, <2>4 DEF HandlerOK, Going, House
      <3> QED
        BY <1>5, <1>6, <3>1 DEF Leaves
    <2> QED
      BY <2>3, <2>4
  <1>11. Sound(t)
    BY <1>6, <1>7, <1>9, <1>10, HouseChanged DEF SameSession
  <1> QED
    BY <1>2, <1>6, <1>7, <1>11 DEF tbs, fls

\* FreshDoc is one of the free documents.
LEMMA FreshIsFree ==
  ASSUME NEW s, FreeDocs(s) # {}
  PROVE  FreshDoc(s) \in FreeDocs(s)
  BY DEF FreshDoc

\* A window that does not exist, and that no handler holds, is listed.
LEMMA WindowCreated ==
  ASSUME NEW s, Sound(s), s.outcome = "none", NEW w \in FreeWins(s), NEW t, t = CreateWindow(s, w)
  PROVE  /\ Sound(t) /\ t.outcome = "none" /\ t.stack = s.stack
         /\ t.tabs = s.tabs /\ t.file = s.file /\ t.modified = s.modified
         /\ SameFlags(s, t) /\ SameSession(s, t)
         /\ Listed(t) = Listed(s) \cup {w} /\ w \in Wins /\ w \notin Listed(s)
         /\ s.tabs[w] = {} /\ FreeDocs(t) = FreeDocs(s)
         /\ t.windows = Append(s.windows, w)
  <1> DEFINE ws == Append(s.windows, w)
  <1>1. /\ s \in ProgramStates /\ Going(s) /\ House(s) /\ s.windows \in Seq(Wins)
        /\ s.tabs \in [Wins -> SUBSET Docs]
    BY DEF Sound, ProgramStates, Going
  <1>2. w \in Wins /\ w \notin Listed(s)
    BY DEF FreeWins
  <1>3. /\ ws \in Seq(Wins) /\ Len(ws) = Len(s.windows) + 1 /\ Len(s.windows) \in Nat
        /\ ws[Len(s.windows) + 1] = w /\ \A i \in 1 .. Len(s.windows) : ws[i] = s.windows[i]
    BY <1>1, <1>2, Appended
  <1>4. /\ DOMAIN ws = 1 .. Len(ws) /\ DOMAIN s.windows = 1 .. Len(s.windows)
        /\ ToSet(ws) = {ws[i] : i \in 1 .. Len(ws)}
        /\ Listed(s) = {s.windows[i] : i \in 1 .. Len(s.windows)}
    <2>1. ToSet(ws) = {ws[i] : i \in 1 .. Len(ws)}
      BY <1>3, Lists
    <2>2. Listed(s) = {s.windows[i] : i \in 1 .. Len(s.windows)}
      BY <1>1, Lists DEF Listed
    <2> QED
      BY <1>1, <1>3, <2>1, <2>2, LenProperties
  <1>5. t = [s EXCEPT !.windows = ws]
    BY DEF CreateWindow
  <1> HIDE DEF ws
  <1>6. /\ t \in ProgramStates /\ t.windows = ws
        /\ t.tabs = s.tabs /\ t.file = s.file /\ t.modified = s.modified
        /\ t.stack = s.stack /\ t.running = s.running /\ t.in_try_quit = s.in_try_quit
        /\ t.saved_session_in_try_quit = s.saved_session_in_try_quit
        /\ t.session = s.session /\ t.sessionFile = s.sessionFile /\ t.outcome = s.outcome
    BY <1>1, <1>3, <1>5 DEF ProgramStates
  <1>7. SameFlags(s, t) /\ SameSession(s, t)
    BY <1>6 DEF SameFlags, SameSession
  <1>8. Listed(t) = Listed(s) \cup {w}
    <2> DEFINE n == Len(s.windows)
    <2>1. n \in Nat /\ Len(ws) = n + 1
      BY <1>3
    <2>2. 1 .. n + 1 = 1 .. n \cup {n + 1}
      BY <2>1
    <2>3. ToSet(ws) = {ws[i] : i \in 1 .. n} \cup {ws[n + 1]}
      BY <1>4, <2>1, <2>2
    <2> QED
      BY <1>3, <1>4, <1>6, <2>3 DEF Listed
  <1>9. \A i, j \in DOMAIN t.windows : t.windows[i] = t.windows[j] => i = j
    <2> DEFINE n == Len(s.windows)
    <2>1. n \in Nat /\ DOMAIN ws = 1 .. n + 1 /\ DOMAIN s.windows = 1 .. n
      BY <1>3, <1>4
    <2>2. \A i \in 1 .. n : ws[i] = s.windows[i] /\ ws[i] # w
      BY <1>2, <1>3, <1>4
    <2>3. \A i, j \in 1 .. n : s.windows[i] = s.windows[j] => i = j
      BY <1>1, <2>1 DEF House
    <2>4. \A i \in DOMAIN ws : i \in 1 .. n \/ (i = n + 1 /\ ws[i] = w)
      BY <1>3, <2>1
    <2> QED
      BY <1>6, <2>2, <2>3, <2>4
  <1>10. House(t)
    BY <1>1, <1>6, <1>8, <1>9 DEF House
  <1>11. Sound(t)
    <2>1. \A i \in 1 .. Len(s.stack) :
            /\ s.stack[i].proc # "close_all" => Leaves(s, t, s.stack[i].win)
            /\ NotReused(s, t, s.stack[i])
      BY <1>6 DEF Leaves, NotReused
    <2> QED
      BY <1>6, <1>7, <1>10, <2>1, HouseChanged
  <1>12. s.tabs[w] = {}
    BY <1>1, <1>2 DEF House
  <1>13. FreeDocs(t) = FreeDocs(s)
    BY <1>6 DEF FreeDocs
  <1> QED
    BY <1>2, <1>6, <1>7, <1>8, <1>11, <1>12, <1>13 DEF ws

(***************************************************************************)
(* Steps                                                                   *)
(***************************************************************************)
\* What a step from s to t may do: end the program by the assertion, or keep
\* the invariant and do what AskedFirst, NeverEmptied and SessionKept say,
\* when the question just answered named ask.
Proper(s, t, ask) ==
  /\ t \in ProgramStates
  /\ t.outcome # "closed_twice" =>
       /\ Sound(t)
       /\ \A d \in s.modified :
            t.file[d] = Closed /\ t.outcome \in (IF s.running THEN {"none", "quit"} ELSE {"none"})
              => d \in ask
       /\ \A w \in Listed(s) \cap Listed(t) : s.tabs[w] # {} => t.tabs[w] # {}
       /\ t.outcome = "quit" => IF s.running THEN OpenFiles(s) \subseteq SessionFiles(t.sessionFile)
                                ELSE t.sessionFile = s.session

\* A step that leaves windows and documents alone.
LEMMA SameProper ==
  ASSUME NEW s, Sound(s), s.outcome = "none", NEW t, Sound(t), t.outcome = "none",
         SameHouse(s, t), NEW ask
  PROVE  Proper(s, t, ask)
  <1>1. t \in ProgramStates /\ House(s)
    BY DEF Sound, Going
  <1>2. \A d \in s.modified : t.file[d] # Closed
    BY <1>1 DEF House, SameHouse
  <1> QED
    BY <1>1, <1>2 DEF Proper, SameHouse

\* A step that begins by calling a handler or by returning from one.
LEMMA ProperFrom ==
  ASSUME NEW s, NEW u, SameHouse(s, u), SameFlags(s, u), SameSession(s, u),
         NEW t, NEW ask, Proper(u, t, ask)
  PROVE  Proper(s, t, ask)
  <1>1. Listed(u) = Listed(s) /\ OpenFiles(u) = OpenFiles(s)
    BY SameHouseOK
  <1> QED
    BY <1>1 DEF Proper, SameHouse, SameFlags, SameSession

\* A step that ends by going on in close_all.
LEMMA ProperTo ==
  ASSUME NEW s, NEW u, NEW t, SameHouse(u, t), SameFlags(u, t), SameSession(u, t),
         t.outcome = u.outcome, u.outcome # "closed_twice", Sound(t), NEW ask, Proper(s, u, ask)
  PROVE  Proper(s, t, ask)
  <1>1. Listed(t) = Listed(u)
    BY SameHouseOK
  <1> QED
    BY <1>1 DEF Proper, SameHouse, SameFlags, SameSession, Sound

\* close_docs_real, once nothing is left to ask.
LEMMA DocsProceed ==
  ASSUME NEW s, Sound(s), s.outcome = "none", s.stack # <<>>, Last(s.stack).proc = "close_docs",
         NEW t, t = Proceed(s)
  PROVE  Proper(s, t, Last(s.stack).ask)
  <1> DEFINE h == Last(s.stack)
             p == Pop(s)
             c == DoCloseDocs(p, h.docs)
  <1>1. s \in ProgramStates /\ Going(s) /\ s.stack \in Seq(Handler)
    BY DEF Sound, ProgramStates
  <1>2. h \in Handler /\ HandlerOK(s, h) /\ h.docs \in SUBSET Docs
    <2>1. h \in Handler /\ h = s.stack[Len(s.stack)] /\ Len(s.stack) \in Nat \ {0}
      BY <1>1, LastAndFront
    <2>2. Len(s.stack) \in 1 .. Len(s.stack)
      BY <2>1
    <2> QED
      BY <1>1, <2>1, <2>2 DEF Going, Waits, Handler
  <1>3. /\ h.win \in Wins /\ h.docs # {} /\ h.docs \cap s.modified \subseteq h.ask
        /\ \A d \in h.docs : s.file[d] = Closed \/ d \in s.tabs[h.win]
    BY <1>2 DEF HandlerOK
  <1>4. /\ Sound(p) /\ p.outcome = "none" /\ p.stack = Front(s.stack)
        /\ SameHouse(s, p) /\ SameFlags(s, p) /\ SameSession(s, p)
    BY PopSound
  <1>5. t = IF c.outcome = "none" THEN Refilled(c, h.win) ELSE c
    BY DEF Proceed
  <1>6. \A g \in ToSet(p.stack) : g.docs \cap h.docs = {}
    <2>1. /\ Front(s.stack) \in Seq(Handler) /\ Len(Front(s.stack)) = Len(s.stack) - 1
          /\ \A i \in 1 .. Len(s.stack) - 1 : Front(s.stack)[i] = s.stack[i]
          /\ h = s.stack[Len(s.stack)] /\ Len(s.stack) \in Nat \ {0}
      BY <1>1, LastAndFront
    <2>2. ASSUME NEW i \in 1 .. Len(p.stack) PROVE p.stack[i].docs \cap h.docs = {}
      <3>1. /\ i \in 1 .. Len(s.stack) /\ Len(s.stack) \in 1 .. Len(s.stack) /\ i < Len(s.stack)
            /\ i \in 1 .. Len(s.stack) - 1
        BY <1>4, <2>1
      <3>2. p.stack[i] = s.stack[i]
        BY <1>4, <2>1, <3>1
      <3> QED
        BY <1>1, <2>1, <3>1, <3>2 DEF Going, Apart
    <2>3. ToSet(p.stack) = {p.stack[i] : i \in 1 .. Len(p.stack)}
      BY <1>4, <2>1, Lists
    <2> QED
      BY <2>2, <2>3
  <1> HIDE DEF p
  <1>7. /\ c \in ProgramStates
        /\ c.windows = p.windows /\ c.tabs = [w \in Wins |-> p.tabs[w] \ h.docs]
        /\ c.file = [d \in Docs |-> IF d \in h.docs THEN Closed ELSE p.file[d]]
        /\ c.modified = p.modified \ h.docs /\ c.stack = p.stack
        /\ SameFlags(p, c) /\ SameSession(p, c)
        /\ c.outcome \in {"none", "closed_twice"}
        /\ (\A d \in h.docs : \E w \in Listed(p) : d \in p.tabs[w]) <=> c.outcome = "none"
        /\ c.outcome = "none" => Sound(c)
    BY <1>2, <1>4, DocsClosed
  <1> HIDE DEF c
  <1>8. CASE c.outcome = "closed_twice"
    BY <1>5, <1>7, <1>8 DEF Proper
  <1>9. CASE c.outcome = "none"
    <2>1. /\ Sound(c) /\ t = Refilled(c, h.win) /\ Listed(c) = Listed(s) /\ Listed(p) = Listed(s)
          /\ House(s) /\ \A w \in Wins : c.tabs[w] = s.tabs[w] \ h.docs
      BY <1>1, <1>4, <1>5, <1>7, <1>9 DEF SameHouse, Listed, Going
    <2>2. Listed(p) \subseteq Wins
      <3>1. p.windows \in Seq(Wins)
        BY <1>4 DEF Sound, ProgramStates
      <3> QED
        BY <3>1, Lists DEF Listed
    <2>3. ASSUME NEW d \in h.docs PROVE s.file[d] # Closed /\ d \in s.tabs[h.win]
      <3>1. PICK w \in Listed(p) : d \in p.tabs[w]
        BY <1>7, <1>9
      <3>2. w \in Wins /\ d \in s.tabs[w]
        BY <1>4, <2>2, <3>1 DEF SameHouse
      <3>3. s.file[d] # Closed
        BY <2>1, <3>2 DEF House
      <3> QED
        BY <1>3, <3>3
    <2>4. h.win \in Listed(c)
      BY <1>3, <2>1, <2>3 DEF House
    <2>5. ASSUME NEW w \in Wins, w # h.win PROVE c.tabs[w] = s.tabs[w]
      <3>1. s.tabs[w] \cap s.tabs[h.win] = {}
        BY <1>3, <2>1, <2>5 DEF House
      <3>2. h.docs \subseteq s.tabs[h.win]
        BY <2>3
      <3> QED
        BY <2>1, <3>1, <3>2
    <2>6. ASSUME NEW d \in s.modified, c.file[d] = Closed PROVE d \in h.ask
      <3>1. d \in Docs /\ s.file[d] # Closed
        BY <1>1, <2>1 DEF House, ProgramStates
      <3>2. d \in h.docs
        BY <1>4, <1>7, <2>6, <3>1 DEF SameHouse
      <3> QED
        BY <1>3, <3>2
    <2>7. CASE c.tabs[h.win] # {}
      <3>1. t = c
        BY <2>1, <2>7 DEF Refilled
      <3> QED
        BY <1>7, <1>9, <2>1, <2>2, <2>5, <2>6, <2>7, <3>1 DEF Proper
    <2>8. CASE c.tabs[h.win] = {}
      <3>1. t = InsertDoc(c, h.win, FreshDoc(c), Untitled)
        BY <2>1, <2>8 DEF Refilled, NewDocIn
      <3>2. FreeDocs(c) # {}
        <4>1. PICK d \in h.docs : TRUE
          BY <1>3
        <4>2. d \in Docs /\ c.file[d] = Closed
          BY <1>2, <1>7
        <4>3. \A g \in ToSet(c.stack) : d \notin g.docs
          BY <1>6, <1>7
        <4> QED
          BY <4>2, <4>3 DEF FreeDocs
      <3>3. FreshDoc(c) \in FreeDocs(c)
        BY <3>2, FreshIsFree
      <3> DEFINE e == FreshDoc(c)
      <3>4. /\ Sound(t) /\ t.outcome = "none" /\ t.windows = c.windows
            /\ t.tabs = [c.tabs EXCEPT ![h.win] = c.tabs[h.win] \cup {e}]
            /\ t.file = [c.file EXCEPT ![e] = Untitled]
            /\ e \in Docs
        BY <1>9, <2>1, <2>4, <3>1, <3>3, DocInserted, SMTT(30) DEF Names
      <3> HIDE DEF e
      <3>5. c.tabs \in [Wins -> SUBSET Docs] /\ c.file \in [Docs -> Names \cup {Closed}]
        BY <1>7 DEF ProgramStates
      <3>6. \A w \in Wins : t.tabs[w] = IF w = h.win THEN c.tabs[w] \cup {e} ELSE c.tabs[w]
        BY <3>4, <3>5
      <3>7. \A d \in Docs : t.file[d] = Closed => c.file[d] = Closed
        BY <3>4, <3>5
      <3>8. \A w \in Wins : s.tabs[w] # {} => t.tabs[w] # {}
        BY <2>5, <3>6
      <3>9. \A d \in s.modified : t.file[d] = Closed => d \in h.ask
        BY <1>1, <2>6, <3>7 DEF ProgramStates
      <3>10. Listed(s) \subseteq Wins /\ t \in ProgramStates
        BY <2>1, <2>2, <3>4 DEF Sound
      <3> QED
        BY <3>4, <3>8, <3>9, <3>10 DEF Proper
    <2> QED
      BY <2>7, <2>8
  <1> QED
    BY <1>7, <1>8, <1>9

\* moo_editor_close_window, once nothing is left to ask.
LEMMA WindowProceeds ==
  ASSUME NEW s, Sound(s), s.outcome = "none", s.stack # <<>>, Last(s.stack).proc = "close_window",
         NEW t, t = Proceed(s)
  PROVE  Proper(s, t, Last(s.stack).ask)
  <1> DEFINE h == Last(s.stack)
             p == Pop(s)
             c == IF h.win \in Listed(p) THEN DoCloseWindow(p, h.win) ELSE p
  <1>1. s \in ProgramStates /\ Going(s) /\ s.stack \in Seq(Handler)
    BY DEF Sound, ProgramStates
  <1>2. h \in Handler /\ HandlerOK(s, h)
    <2>1. h \in Handler /\ h = s.stack[Len(s.stack)] /\ Len(s.stack) \in Nat \ {0}
      BY <1>1, LastAndFront
    <2>2. Len(s.stack) \in 1 .. Len(s.stack)
      BY <2>1
    <2> QED
      BY <1>1, <2>1, <2>2 DEF Going, Waits
  <1>3. h.win \in Wins /\ s.tabs[h.win] \cap s.modified \subseteq h.ask
    BY <1>2 DEF HandlerOK
  <1>4. /\ Sound(p) /\ p.outcome = "none" /\ SameHouse(s, p) /\ SameFlags(s, p) /\ SameSession(s, p)
        /\ MayCall(p)
    BY PopSound DEF MayCall
  <1>5. t = Return(c, TRUE)
    BY DEF Proceed
  <1> HIDE DEF p
  <1>6. p.tabs[h.win] \cap p.modified \subseteq h.ask
    BY <1>3, <1>4 DEF SameHouse
  <1>7. Sound(c) /\ c.stack = p.stack /\ c.outcome # "closed_twice" /\ Proper(p, c, h.ask)
    <2>1. CASE h.win \notin Listed(p)
      <3>1. c = p
        BY <2>1
      <3>2. SameHouse(p, p)
        BY DEF SameHouse
      <3> QED
        BY <1>4, <3>1, <3>2, SameProper
    <2>2. CASE h.win \in Listed(p)
      <3>1. c = DoCloseWindow(p, h.win)
        BY <2>2
      <3> HIDE DEF c
      <3>2. /\ Sound(c) /\ c.stack = p.stack
            /\ \/ /\ c.outcome = "none"
                  /\ Listed(c) = Listed(p) \ {h.win}
                  /\ \A v \in Wins : c.tabs[v] = p.tabs[v] \ p.tabs[h.win]
                  /\ c.file = [d \in Docs |-> IF d \in p.tabs[h.win] THEN Closed ELSE p.file[d]]
               \/ /\ c.outcome = "quit"
                  /\ p.running /\ Ended(c)
                  /\ p.modified \subseteq p.tabs[h.win]
                  /\ OpenFiles(p) \subseteq SessionFiles(c.sessionFile)
        BY <1>4, <2>2, <3>1, WindowClosed
      <3>3. CASE c.outcome = "none"
        <4>1. \A d \in p.modified : d \in Docs /\ p.file[d] # Closed
          BY <1>4 DEF Sound, Going, House, ProgramStates
        <4>2. \A d \in p.modified : c.file[d] = Closed => d \in h.ask
          BY <1>6, <3>2, <3>3, <4>1
        <4>3. Listed(p) \subseteq Wins
          <5>1. p.windows \in Seq(Wins)
            BY <1>4 DEF Sound, ProgramStates
          <5> QED
            BY <5>1, Lists DEF Listed
        <4>4. House(p)
          BY <1>4 DEF Sound, Going
        <4>5. \A w \in Listed(p) \cap Listed(c) : p.tabs[w] # {} => c.tabs[w] # {}
          BY <1>3, <3>2, <3>3, <4>3, <4>4 DEF House
        <4> QED
          BY <3>2, <3>3, <4>2, <4>5 DEF Proper, Sound
      <3>4. CASE c.outcome = "quit"
        <4>1. p.modified \subseteq h.ask
          BY <1>6, <3>2, <3>4
        <4>2. Listed(c) = {}
          BY <3>2, <3>4 DEF Ended, Listed, ToSet
        <4> QED
          BY <3>2, <3>4, <4>1, <4>2 DEF Proper, Sound
      <3> QED
        BY <3>2, <3>3, <3>4
    <2> QED
      BY <2>1, <2>2
  <1> HIDE DEF c
  <1>8. MayCall(c)
    BY <1>4, <1>7 DEF MayCall
  <1>9. Sound(t) /\ SameHouse(c, t) /\ SameFlags(c, t) /\ SameSession(c, t) /\ t.outcome = c.outcome
    BY <1>5, <1>7, <1>8, OneLess
  <1>10. Proper(p, t, h.ask)
    BY <1>7, <1>9, ProperTo
  <1> QED
    BY <1>4, <1>10, ProperFrom

LEMMA ProceedProper ==
  ASSUME NEW s, Sound(s), s.outcome = "none", s.stack # <<>>, Last(s.stack).proc # "close_all"
  PROVE  Proper(s, Proceed(s), Last(s.stack).ask)
  <1>1. s.stack \in Seq(Handler)
    BY DEF Sound, ProgramStates
  <1>2. Last(s.stack) \in Handler
    BY <1>1, LastAndFront
  <1>3. Last(s.stack).proc \in {"close_docs", "close_window", "close_all"}
    BY <1>2 DEF Handler
  <1> QED
    BY <1>3, DocsProceed, WindowProceeds

\* A handler returns FALSE.
LEMMA AllReturnedProper ==
  ASSUME NEW s, Sound(s), s.outcome = "none", s.stack # <<>>, Last(s.stack).proc = "close_all",
         NEW ok \in BOOLEAN, NEW ask
  PROVE  Proper(s, CloseAllReturns(s, ok), ask)
  <1> DEFINE t == CloseAllReturns(s, ok)
  <1>1. /\ Sound(t)
        /\ \/ t.outcome = "none" /\ SameHouse(s, t)
           \/ t.outcome = "quit" /\ ~s.running /\ t.sessionFile = s.session
           \/ t.outcome = "signal" /\ ~s.running
        /\ t.outcome # "none" => Listed(t) = {}
    BY AllReturned
  <1> HIDE DEF t
  <1>2. CASE t.outcome = "none"
    <2>1. SameHouse(s, t)
      BY <1>1, <1>2
    <2> QED
      BY <1>1, <1>2, <2>1, SameProper DEF t
  <1>3. CASE t.outcome # "none"
    <2>1. Proper(s, t, ask)
      BY <1>1, <1>3 DEF Proper, Sound
    <2> QED
      BY <2>1 DEF t
  <1> QED
    BY <1>2, <1>3

LEMMA ReturnedProper ==
  ASSUME NEW s, Sound(s), s.outcome = "none", s.stack # <<>>, Last(s.stack).proc # "close_all",
         NEW ask
  PROVE  Proper(s, Return(Pop(s), FALSE), ask)
  <1> DEFINE p == Pop(s)
  <1>1. /\ Sound(p) /\ p.outcome = "none"
        /\ SameHouse(s, p) /\ SameFlags(s, p) /\ SameSession(s, p)
    BY PopSound
  <1> HIDE DEF p
  <1>2. CASE p.stack = <<>> \/ Last(p.stack).proc # "close_all"
    <2>1. Return(p, FALSE) = p
      BY <1>2 DEF Return
    <2> QED
      BY <1>1, <2>1, SameProper DEF p
  <1>3. CASE p.stack # <<>> /\ Last(p.stack).proc = "close_all"
    <2>1. Return(p, FALSE) = CloseAllReturns(p, FALSE)
      BY <1>3 DEF Return
    <2>2. Proper(p, CloseAllReturns(p, FALSE), ask)
      BY <1>1, <1>3, AllReturnedProper
    <2> QED
      BY <1>1, <2>1, <2>2, ProperFrom DEF p
  <1> QED
    BY <1>2, <1>3

\* A handler that asks begins, and goes on at once if there is nothing to ask.
LEMMA BeginProper ==
  ASSUME NEW s, Sound(s), s.outcome = "none", MayCall(s),
         NEW proc \in {"close_docs", "close_window"}, NEW w \in Listed(s), NEW D, D \subseteq s.tabs[w],
         proc = "close_docs" => /\ D # {}
                                /\ \A i \in 1 .. Len(s.stack) : s.stack[i].docs \cap D = {},
         proc = "close_window" => D = s.tabs[w],
         NEW held \in SUBSET Files,
         held # {} => s.stack # <<>> /\ Last(s.stack).proc = "close_all" /\ held = Last(s.stack).held,
         NEW ask
  PROVE  Proper(s, Begin(s, proc, w, D, held), ask)
  <1> DEFINE a == FindModified(s, D)
             h == [proc |-> proc, win |-> w, docs |-> D, ask |-> a, saving |-> {},
                   rest |-> <<>>, why |-> "do", held |-> held]
             u == Push(s, h)
  <1>1. /\ s \in ProgramStates /\ House(s) /\ s.windows \in Seq(Wins)
        /\ s.tabs \in [Wins -> SUBSET Docs] /\ s.modified \in SUBSET Docs
    BY DEF Sound, ProgramStates, Going
  <1>2. w \in Wins /\ D \in SUBSET Docs
    <2>1. w \in Wins
      BY <1>1, Lists DEF Listed
    <2> QED
      BY <1>1, <2>1
  <1>3. a \in SUBSET Docs /\ a = D \cap s.modified
    BY <1>1 DEF FindModified
  <1>4. Begin(s, proc, w, D, held) = IF a = {} THEN Proceed(u) ELSE u
    BY DEF Begin
  <1> HIDE DEF a
  <1>5. <<>> \in Seq(Wins)
    BY EmptySeq
  <1>6. h \in Handler
    BY <1>2, <1>3, <1>5 DEF Handler
  <1>7. /\ h.proc = proc /\ h.win = w /\ h.docs = D /\ h.ask = a /\ h.saving = {}
        /\ h.held = held /\ proc # "close_all"
    OBVIOUS
  <1> HIDE DEF h
  <1>8. HandlerOK(s, h)
    BY <1>2, <1>3, <1>7 DEF HandlerOK
  <1>9. /\ Sound(u) /\ u.outcome = "none"
        /\ SameHouse(s, u) /\ SameFlags(s, u) /\ SameSession(s, u)
        /\ u.stack # <<>> /\ Last(u.stack) = h
    BY <1>6, <1>7, <1>8, PushSound DEF MayCall
  <1> HIDE DEF u
  <1>10. CASE a # {}
    <2>1. Proper(s, u, ask)
      BY <1>9, SameProper
    <2> QED
      BY <1>4, <1>10, <2>1
  <1>11. CASE a = {}
    <2>1. Proper(u, Proceed(u), h.ask)
      <3>1. Last(u.stack).proc # "close_all"
        BY <1>7, <1>9
      <3> QED
        BY <1>9, <3>1, ProceedProper
    <2>2. Proper(u, Proceed(u), ask)
      BY <1>7, <1>11, <2>1 DEF Proper
    <2>3. Proper(s, Proceed(u), ask)
      BY <1>9, <2>2, ProperFrom
    <2> QED
      BY <1>4, <1>11, <2>3
  <1> QED
    BY <1>10, <1>11

\* A document gets another name, and changes are saved.
Renaming(s, d, name, M) == [s EXCEPT !.file[d] = name, !.modified = M]

LEMMA Renamed ==
  ASSUME NEW s, Sound(s), s.outcome = "none", NEW d \in Docs, s.file[d] # Closed,
         NEW name \in Names, NEW M \in SUBSET s.modified,
         NEW t, t = Renaming(s, d, name, M)
  PROVE  /\ Sound(t) /\ t.outcome = "none" /\ t.stack = s.stack
         /\ t.windows = s.windows /\ t.tabs = s.tabs
         /\ t.file = [s.file EXCEPT ![d] = name] /\ t.modified = M
         /\ SameFlags(s, t) /\ SameSession(s, t)
  <1> DEFINE fls == [s.file EXCEPT ![d] = name]
  <1>1. /\ s \in ProgramStates /\ Going(s) /\ House(s) /\ s.tabs \in [Wins -> SUBSET Docs]
        /\ s.file \in [Docs -> Names \cup {Closed}] /\ s.modified \in SUBSET Docs
        /\ s.stack \in Seq(Handler)
    BY DEF Sound, ProgramStates, Going
  <1>2. fls \in [Docs -> Names \cup {Closed}] /\ M \in SUBSET Docs
    BY <1>1
  <1>3. \A e \in Docs : fls[e] = IF e = d THEN name ELSE s.file[e]
    BY <1>1
  <1>4. t = [s EXCEPT !.file = fls, !.modified = M]
    BY <1>1 DEF Renaming, ProgramStates
  <1> HIDE DEF fls
  <1>5. /\ t \in ProgramStates /\ t.file = fls /\ t.modified = M
        /\ t.windows = s.windows /\ t.tabs = s.tabs
        /\ t.stack = s.stack /\ t.running = s.running /\ t.in_try_quit = s.in_try_quit
        /\ t.saved_session_in_try_quit = s.saved_session_in_try_quit
        /\ t.session = s.session /\ t.sessionFile = s.sessionFile /\ t.outcome = s.outcome
    BY <1>1, <1>2, <1>4 DEF ProgramStates
  <1>6. SameFlags(s, t) /\ SameSession(s, t)
    BY <1>5 DEF SameFlags, SameSession
  <1>7. \A e \in Docs : t.file[e] = Closed <=> s.file[e] = Closed
    BY <1>3, <1>5 DEF Names
  <1>8. House(t)
    <2>1. Listed(t) = Listed(s) /\ \A w \in Wins : s.tabs[w] \subseteq Docs
      BY <1>1, <1>5 DEF Listed
    <2>2. \A w \in Wins : \A e \in t.tabs[w] : w \in Listed(t) /\ t.file[e] # Closed
      BY <1>1, <1>5, <1>7, <2>1 DEF House
    <2>3. \A e \in Docs : t.file[e] # Closed => \E w \in Wins : e \in t.tabs[w]
      BY <1>1, <1>5, <1>7 DEF House
    <2>4. \A e \in t.modified : t.file[e] # Closed
      BY <1>1, <1>2, <1>5, <1>7 DEF House
    <2> QED
      BY <1>1, <1>5, <2>2, <2>3, <2>4 DEF House
  <1>9. ASSUME NEW i \in 1 .. Len(s.stack)
        PROVE  /\ s.stack[i].proc # "close_all" => Leaves(s, t, s.stack[i].win)
               /\ NotReused(s, t, s.stack[i])
    <2>1. s.stack[i] \in Handler
      BY <1>1, ElementOfSeq
    <2>2. s.stack[i].docs \subseteq Docs
      BY <2>1 DEF Handler
    <2>3. NotReused(s, t, s.stack[i])
      BY <1>7, <2>2 DEF NotReused
    <2>4. Leaves(s, t, s.stack[i].win)
      BY <1>5 DEF Leaves
    <2> QED
      BY <2>3, <2>4
  <1>10. Sound(t)
    BY <1>5, <1>6, <1>8, <1>9, HouseChanged DEF SameSession
  <1> QED
    BY <1>5, <1>6, <1>10 DEF fls

\* A document gets changes, in a window no question is about.
LEMMA Typed ==
  ASSUME NEW s, Sound(s), s.outcome = "none", NEW w \in Wins, NEW d \in s.tabs[w],
         \A i \in 1 .. Len(s.stack) : s.stack[i].win # w,
         NEW t, t = [s EXCEPT !.modified = s.modified \cup {d}]
  PROVE  /\ Sound(t) /\ t.outcome = "none" /\ t.windows = s.windows /\ t.tabs = s.tabs
         /\ t.file = s.file
  <1>1. /\ s \in ProgramStates /\ Going(s) /\ House(s) /\ s.tabs \in [Wins -> SUBSET Docs]
        /\ s.modified \in SUBSET Docs /\ s.stack \in Seq(Handler)
    BY DEF Sound, ProgramStates, Going
  <1>2. d \in Docs
    BY <1>1
  <1>3. /\ t \in ProgramStates /\ t.file = s.file /\ t.modified = s.modified \cup {d}
        /\ t.windows = s.windows /\ t.tabs = s.tabs
        /\ t.stack = s.stack /\ t.running = s.running /\ t.in_try_quit = s.in_try_quit
        /\ t.saved_session_in_try_quit = s.saved_session_in_try_quit
        /\ t.session = s.session /\ t.sessionFile = s.sessionFile /\ t.outcome = s.outcome
    BY <1>1, <1>2 DEF ProgramStates
  <1>4. House(t)
    <2>1. s.file[d] # Closed /\ Listed(t) = Listed(s)
      BY <1>1, <1>3 DEF House, Listed
    <2> QED
      BY <1>1, <1>3, <2>1 DEF House
  <1>5. ASSUME NEW i \in 1 .. Len(s.stack)
        PROVE  /\ s.stack[i].proc # "close_all" => Leaves(s, t, s.stack[i].win)
               /\ NotReused(s, t, s.stack[i])
    <2>1. NotReused(s, t, s.stack[i])
      BY <1>3 DEF NotReused
    <2>2. ASSUME s.stack[i].proc # "close_all" PROVE Leaves(s, t, s.stack[i].win)
      <3>1. s.stack[i].win \in Wins /\ s.stack[i].win # w
        BY <1>1, <2>2 DEF Going, Waits, HandlerOK
      <3>2. d \notin s.tabs[s.stack[i].win]
        BY <1>1, <3>1 DEF House
      <3> QED
        BY <1>3, <3>2 DEF Leaves
    <2> QED
      BY <2>1, <2>2
  <1>6. SameFlags(s, t)
    BY <1>3 DEF SameFlags
  <1>7. Sound(t)
    BY <1>3, <1>4, <1>5, <1>6, HouseChanged
  <1> QED
    BY <1>3, <1>7

\* No handler is about the window.
Idle(s, w) == \A i \in 1 .. Len(s.stack) : s.stack[i].win # w

AfterMove(s, t, d, old, dest) ==
  /\ t.file = s.file /\ t.modified = s.modified
  /\ \A w \in Wins : t.tabs[w] = IF w = dest THEN s.tabs[w] \cup {d}
                                 ELSE IF w = old THEN s.tabs[w] \ {d} ELSE s.tabs[w]
  /\ Listed(t) = IF s.tabs[old] = {d} THEN Listed(s) \ {old} ELSE Listed(s)

\* A document goes to another window, and the window it leaves goes if it was
\* its last.
LEMMA Moved ==
  ASSUME NEW s, Sound(s), s.outcome = "none", NEW old \in Listed(s), NEW dest \in Listed(s),
         old # dest, NEW d \in s.tabs[old],
         Idle(s, old), Idle(s, dest),
         NEW t, t = MovedDoc(s, d, old, dest)
  PROVE  Sound(t) /\ t.outcome = "none" /\ AfterMove(s, t, d, old, dest)
  <1> DEFINE tbs == [s.tabs EXCEPT ![old] = s.tabs[old] \ {d}]
             left == [s EXCEPT !.tabs = tbs]
             i0 == CHOOSE i \in DOMAIN s.windows : s.windows[i] = old
             rest == RemoveAt(s.windows, i0)
             ws == IF s.tabs[old] = {d} THEN rest ELSE s.windows
             all == [tbs EXCEPT ![dest] = s.tabs[dest] \cup {d}]
  <1>1. /\ s \in ProgramStates /\ Going(s) /\ House(s) /\ s.tabs \in [Wins -> SUBSET Docs]
        /\ s.file \in [Docs -> Names \cup {Closed}] /\ s.modified \in SUBSET Docs
        /\ s.windows \in Seq(Wins) /\ s.stack \in Seq(Handler)
    BY DEF Sound, ProgramStates, Going
  <1>2. old \in Wins /\ dest \in Wins
    <2>1. Listed(s) \subseteq Wins
      BY <1>1, Lists DEF Listed
    <2> QED
      BY <2>1
  <1>3. d \in Docs
    BY <1>1, <1>2
  <1>4. /\ tbs \in [Wins -> SUBSET Docs] /\ all \in [Wins -> SUBSET Docs]
        /\ tbs[old] = s.tabs[old] \ {d} /\ tbs[dest] = s.tabs[dest]
        /\ \A w \in Wins : all[w] = IF w = dest THEN s.tabs[w] \cup {d}
                                    ELSE IF w = old THEN s.tabs[w] \ {d} ELSE s.tabs[w]
    BY <1>1, <1>2
  <1>5. /\ rest \in Seq(Wins) /\ ToSet(rest) = Listed(s) \ {old} /\ Len(rest) = Len(s.windows) - 1
        /\ \A j, k \in DOMAIN rest : rest[j] = rest[k] => j = k
    <2>1. \A j, k \in DOMAIN s.windows : s.windows[j] = s.windows[k] => j = k
      BY <1>1 DEF House
    <2>2. \E i \in DOMAIN s.windows : s.windows[i] = old
      BY DEF Listed, ToSet
    <2>3. i0 \in DOMAIN s.windows /\ s.windows[i0] = old
      BY <2>2
    <2> HIDE DEF i0
    <2> QED
      BY <1>1, <2>1, <2>3, Removed DEF Listed
  <1>6. rest # <<>> /\ Len(s.windows) # 1
    <2>1. dest \in ToSet(rest)
      BY <1>5
    <2>2. rest # <<>> /\ Len(rest) # 0
      BY <1>5, <2>1, Lists
    <2>3. Len(s.windows) \in Nat /\ Len(rest) = Len(s.windows) - 1
      BY <1>1, <1>5, LenProperties
    <2> HIDE DEF rest
    <2> QED
      BY <2>2, <2>3
  <1>7. /\ ws \in Seq(Wins)
        /\ ToSet(ws) = IF s.tabs[old] = {d} THEN Listed(s) \ {old} ELSE Listed(s)
        /\ \A j, k \in DOMAIN ws : ws[j] = ws[k] => j = k
    BY <1>1, <1>5 DEF House, Listed
  <1>8. t = [s EXCEPT !.windows = ws, !.tabs = all]
    <2>1. /\ left \in ProgramStates /\ left.windows = s.windows /\ left.tabs = tbs
          /\ left.file = s.file /\ left.modified = s.modified /\ left.running = s.running
          /\ left.outcome = "none" /\ s.file[d] = left.file[d]
      BY <1>1, <1>4 DEF ProgramStates
    <2>2. [s EXCEPT !.tabs[old] = @ \ {d}] = left
      BY <1>1 DEF ProgramStates
    <2> DEFINE u == IF tbs[old] = {} THEN DoCloseWindow(left, old) ELSE left
    <2>3. t = InsertDoc(u, dest, d, s.file[d])
      BY <2>1, <2>2 DEF MovedDoc
    <2>4. u = [s EXCEPT !.windows = ws, !.tabs = tbs]
      <3>1. CASE tbs[old] # {}
        <4>1. ws = s.windows /\ u = left
          BY <1>4, <3>1
        <4> HIDE DEF u, ws
        <4> QED
          BY <1>1, <4>1 DEF ProgramStates
      <3>2. CASE tbs[old] = {}
        <4>1. s.tabs[old] = {d} /\ ws = rest
          BY <1>4, <3>2
        <4>2. WillCloseWindow(left) = left
          BY <1>6, <2>1 DEF WillCloseWindow
        <4>3. DoCloseDocs(left, {}) = left
          <5> HIDE DEF left
          <5> DEFINE a == [w \in Wins |-> left.tabs[w] \ {}]
                     b == [e \in Docs |-> IF e \in {} THEN Closed ELSE left.file[e]]
                     c == IF WindowlessAssertion(left, {}) THEN left.outcome ELSE "closed_twice"
          <5>1. a = left.tabs /\ b = left.file /\ c = left.outcome
            BY <2>1, ZenonT(30) DEF WindowlessAssertion, ProgramStates
          <5>2. left.modified \ {} = left.modified
            OBVIOUS
          <5>3. DoCloseDocs(left, {}) = [left EXCEPT !.tabs = a, !.file = b, !.modified = left.modified \ {},
                                                     !.outcome = c]
            BY <2>1 DEF DoCloseDocs, ProgramStates
          <5> HIDE DEF a, b, c
          <5>4. DoCloseDocs(left, {}) =
                  [left EXCEPT !.tabs = left.tabs, !.file = left.file,
                               !.modified = left.modified, !.outcome = left.outcome]
            BY <5>1, <5>2, <5>3
          <5> QED
            BY <2>1, <5>4 DEF ProgramStates
        <4>4. DoCloseWindow(left, old) = AfterCloseWindow([left EXCEPT !.windows = rest])
          <5>1. left.tabs[old] = {}
            BY <2>1, <3>2
          <5> HIDE DEF left
          <5>2. DoCloseWindow(left, old) = AfterCloseWindow([left EXCEPT !.windows = RemoveAt(left.windows, i0)])
            BY <2>1, <4>2, <4>3, <5>1, ZenonT(30) DEF DoCloseWindow
          <5> QED
            BY <2>1, <5>2
        <4>5. AfterCloseWindow([left EXCEPT !.windows = rest]) = [left EXCEPT !.windows = rest]
          <5> HIDE DEF left, rest
          <5>1. [left EXCEPT !.windows = rest].windows = rest
            BY <2>1 DEF ProgramStates
          <5> QED
            BY <1>6, <5>1 DEF AfterCloseWindow
        <4>6. [left EXCEPT !.windows = rest] = [s EXCEPT !.windows = rest, !.tabs = tbs]
          <5> HIDE DEF rest, tbs
          <5> QED
            BY <1>1 DEF ProgramStates
        <4> QED
          BY <3>2, <4>1, <4>4, <4>5, <4>6
      <3> QED
        BY <3>1, <3>2
    <2> HIDE DEF u, ws, tbs
    <2>5. /\ u \in ProgramStates /\ u.tabs = tbs /\ u.windows = ws /\ u.file = s.file
      BY <1>1, <1>4, <1>7, <2>4 DEF ProgramStates
    <2>6. [u.tabs EXCEPT ![dest] = u.tabs[dest] \cup {d}] = all
      BY <1>4, <2>5
    <2>7. [u.file EXCEPT ![d] = s.file[d]] = u.file
      BY <1>1, <1>3, <2>5
    <2>8. t = [u EXCEPT !.tabs = [u.tabs EXCEPT ![dest] = u.tabs[dest] \cup {d}],
                        !.file = [u.file EXCEPT ![d] = s.file[d]]]
      BY <2>3, <2>5 DEF InsertDoc, ProgramStates
    <2>9. t = [u EXCEPT !.tabs = all]
      <3> HIDE DEF all
      <3> QED
        BY <2>5, <2>6, <2>7, <2>8 DEF ProgramStates
    <2> HIDE DEF all
    <2> QED
      BY <1>1, <2>4, <2>9 DEF ProgramStates
  <1> HIDE DEF tbs, left, rest, ws, all
  <1>9. /\ t \in ProgramStates /\ t.file = s.file /\ t.modified = s.modified
        /\ t.windows = ws /\ t.tabs = all
        /\ t.stack = s.stack /\ t.running = s.running /\ t.in_try_quit = s.in_try_quit
        /\ t.saved_session_in_try_quit = s.saved_session_in_try_quit
        /\ t.session = s.session /\ t.sessionFile = s.sessionFile /\ t.outcome = s.outcome
    BY <1>1, <1>4, <1>7, <1>8 DEF ProgramStates
  <1>10. Listed(t) = IF s.tabs[old] = {d} THEN Listed(s) \ {old} ELSE Listed(s)
    BY <1>7, <1>9 DEF Listed
  <1>11. \A w \in Wins : t.tabs[w] = IF w = dest THEN s.tabs[w] \cup {d}
                                     ELSE IF w = old THEN s.tabs[w] \ {d} ELSE s.tabs[w]
    BY <1>4, <1>9
  <1>12. SameFlags(s, t) /\ SameSession(s, t)
    BY <1>9 DEF SameFlags, SameSession
  <1>13. House(t)
    <2>1. \A w \in Wins : d \in s.tabs[w] => w = old
      BY <1>1, <1>2 DEF House
    <2>2. s.file[d] # Closed
      BY <1>1, <1>2 DEF House
    <2>3. \A w \in Wins : \A e \in t.tabs[w] : w \in Listed(t) /\ t.file[e] # Closed
      <3> SUFFICES ASSUME NEW w \in Wins, NEW e \in t.tabs[w]
                   PROVE  w \in Listed(t) /\ t.file[e] # Closed
        OBVIOUS
      <3>1. CASE w = dest
        <4>1. e = d \/ e \in s.tabs[dest]
          BY <1>11, <3>1
        <4>2. s.file[e] # Closed
          BY <1>1, <1>2, <2>2, <4>1 DEF House
        <4> QED
          BY <1>9, <1>10, <3>1, <4>2
      <3>2. CASE w # dest
        <4>1. e \in s.tabs[w] /\ (w = old => e # d)
          BY <1>11, <3>2
        <4> QED
          BY <1>1, <1>9, <1>10, <4>1 DEF House
      <3> QED
        BY <3>1, <3>2
    <2>4. \A e \in Docs : t.file[e] # Closed => \E w \in Wins : e \in t.tabs[w]
      <3> SUFFICES ASSUME NEW e \in Docs, t.file[e] # Closed
                   PROVE  \E w \in Wins : e \in t.tabs[w]
        OBVIOUS
      <3>1. CASE e = d
        BY <1>2, <1>11, <3>1
      <3>2. CASE e # d
        <4>1. PICK w \in Wins : e \in s.tabs[w]
          BY <1>1, <1>9 DEF House
        <4> QED
          BY <1>11, <3>2, <4>1
      <3> QED
        BY <3>1, <3>2
    <2>5. ASSUME NEW v \in Wins, NEW w \in Wins, v # w PROVE t.tabs[v] \cap t.tabs[w] = {}
      <3>1. s.tabs[v] \cap s.tabs[w] = {}
        BY <1>1, <2>5 DEF House
      <3>2. \A x \in Wins : d \in t.tabs[x] => x = dest
        BY <1>2, <1>11, <2>1
      <3>3. \A x \in Wins : \A e \in t.tabs[x] : e = d \/ e \in s.tabs[x]
        BY <1>11
      <3> QED
        BY <2>5, <3>1, <3>2, <3>3
    <2> QED
      BY <1>1, <1>7, <1>9, <2>3, <2>4, <2>5 DEF House
  <1>14. ASSUME NEW i \in 1 .. Len(s.stack)
         PROVE  /\ s.stack[i].proc # "close_all" => Leaves(s, t, s.stack[i].win)
                /\ NotReused(s, t, s.stack[i])
    <2>1. NotReused(s, t, s.stack[i])
      BY <1>9 DEF NotReused
    <2>2. ASSUME s.stack[i].proc # "close_all" PROVE Leaves(s, t, s.stack[i].win)
      <3>1. s.stack[i].win \in Wins
        BY <1>1, <2>2 DEF Going, Waits, HandlerOK
      <3>2. t.tabs[s.stack[i].win] = s.tabs[s.stack[i].win]
        BY <1>11, <3>1 DEF Idle
      <3> QED
        BY <1>9, <3>2 DEF Leaves
    <2> QED
      BY <2>1, <2>2
  <1>15. Sound(t)
    BY <1>9, <1>12, <1>13, <1>14, HouseChanged
  <1> QED
    BY <1>9, <1>10, <1>11, <1>15 DEF AfterMove

(***************************************************************************)
(* Actions                                                                 *)
(***************************************************************************)
\* What the three action properties say of one step.
Kept ==
  /\ \A d \in modified :
       /\ file'[d] = Closed
       /\ outcome' \in (IF running THEN {"none", "quit"} ELSE {"none"})
       => stack # <<>> /\ d \in Top.ask
  /\ \A w \in Listed(State) :
       w \in Listed(State)' /\ tabs[w] # {} => tabs'[w] # {}
  /\ outcome = "none" /\ outcome' = "quit" =>
       (IF running THEN OpenFiles(State) ELSE Top.held)
         \subseteq SessionFiles(sessionFile')

\* The documents the innermost question names.
Named == IF stack = <<>> THEN {} ELSE Top.ask

LEMMA StateFields ==
  /\ State.windows = windows /\ State.tabs = tabs /\ State.file = file
  /\ State.modified = modified /\ State.stack = stack /\ State.running = running
  /\ State.in_try_quit = in_try_quit
  /\ State.saved_session_in_try_quit = saved_session_in_try_quit
  /\ State.session = session /\ State.sessionFile = sessionFile /\ State.outcome = outcome
  BY DEF State

LEMMA NextStateFields ==
  /\ State'.windows = windows' /\ State'.tabs = tabs' /\ State'.file = file'
  /\ State'.modified = modified' /\ State'.stack = stack' /\ State'.running = running'
  /\ State'.in_try_quit = in_try_quit'
  /\ State'.saved_session_in_try_quit = saved_session_in_try_quit'
  /\ State'.session = session' /\ State'.sessionFile = sessionFile' /\ State'.outcome = outcome'
  BY DEF State

\* A proper step keeps the invariant and the action properties.
LEMMA ProperKept ==
  ASSUME Inv, outcome = "none", NEW t, Proper(State, t, Named), Becomes(t)
  PROVE  Inv' /\ Kept
  <1>1. State \in ProgramStates /\ Going(State) /\ t \in ProgramStates
    BY StateFields DEF Inv, Sound, Proper
  <1>2. CASE t.outcome = "closed_twice"
    <2>1. State' = Gone(t, "closed_twice")
      BY <1>1, <1>2, BecomesState
    <2>2. Sound(State') /\ State'.outcome = "closed_twice" /\ Listed(State') = {}
      BY <1>1, <2>1, GoneSound DEF Outcomes
    <2>3. outcome' = "closed_twice" /\ Listed(State)' = {}
      BY <2>2, NextStateFields
    <2> QED
      BY <2>2, <2>3 DEF Inv, Kept
  <1>3. CASE t.outcome # "closed_twice"
    <2>1. State' = t
      BY <1>1, <1>3, BecomesState
    <2>2. /\ Sound(State')
          /\ \A d \in modified :
               file'[d] = Closed /\ outcome' \in (IF running THEN {"none", "quit"} ELSE {"none"})
                 => d \in Named
          /\ \A w \in Listed(State) \cap Listed(State') : tabs[w] # {} => tabs'[w] # {}
          /\ outcome' = "quit" => IF running THEN OpenFiles(State) \subseteq SessionFiles(sessionFile')
                                  ELSE sessionFile' = session
      BY <1>3, <2>1, StateFields, NextStateFields DEF Proper
    <2>3. ~running => stack # <<>> /\ Top.held \subseteq SessionFiles(session)
      <3> SUFFICES ASSUME ~running PROVE stack # <<>> /\ Top.held \subseteq SessionFiles(session)
        OBVIOUS
      <3>1. stack \in Seq(Handler)
        BY <1>1, StateFields DEF ProgramStates
      <3>2. \E i \in 1 .. Len(stack) : IsDo(stack[i])
        BY <1>1, StateFields DEF Going, Flags
      <3>3. Len(stack) # 0 /\ Len(stack) \in Nat
        BY <3>1, <3>2, LenProperties
      <3>4. stack # <<>> /\ Len(stack) \in 1 .. Len(stack) /\ Top = stack[Len(stack)]
        BY <3>1, <3>3 DEF Top, Last
      <3>5. \A i \in 1 .. Len(stack) : stack[i].held \subseteq SessionFiles(session)
        BY <1>1, StateFields DEF Going, Remembered
      <3> QED
        BY <3>4, <3>5
    <2>4. Listed(State)' = Listed(State')
      OBVIOUS
    <2> QED
      BY <2>2, <2>3, <2>4 DEF Inv, Kept, Named
  <1> QED
    BY <1>2, <1>3

\* The state in which the user or the outside asks for something.
LEMMA Ready ==
  ASSUME Inv, outcome = "none"
  PROVE  /\ Sound(State) /\ State.outcome = "none" /\ State \in ProgramStates /\ Going(State)
         /\ windows \in Seq(Wins) /\ tabs \in [Wins -> SUBSET Docs]
         /\ file \in [Docs -> Names \cup {Closed}] /\ modified \in SUBSET Docs
         /\ stack \in Seq(Handler) /\ House(State) /\ Listed(State) \subseteq Wins
         /\ Waiting => MayCall(State)
         /\ stack # <<>> => Top = Last(State.stack) /\ Top \in Handler /\ Named = Top.ask
  <1>1. Sound(State) /\ State.outcome = "none" /\ State \in ProgramStates /\ Going(State)
    BY StateFields DEF Inv, Sound
  <1>2. /\ windows \in Seq(Wins) /\ tabs \in [Wins -> SUBSET Docs]
        /\ file \in [Docs -> Names \cup {Closed}] /\ modified \in SUBSET Docs
        /\ stack \in Seq(Handler) /\ House(State)
    BY <1>1, StateFields DEF ProgramStates, Going
  <1>3. Listed(State) \subseteq Wins
    BY <1>2, StateFields, Lists DEF Listed
  <1>4. Waiting => MayCall(State)
    BY StateFields DEF Waiting, MayCall, Top
  <1>5. stack # <<>> => Top = Last(State.stack) /\ Top \in Handler /\ Named = Top.ask
    BY <1>2, StateFields, LastAndFront DEF Top, Named
  <1> QED
    BY <1>1, <1>2, <1>3, <1>4, <1>5

\* No question is about a window the user can use.
LEMMA UsableWindow ==
  ASSUME Inv, NEW w \in Usable
  PROVE  /\ outcome = "none" /\ Waiting /\ w \in Listed(State) /\ w \in Wins
         /\ \A i \in 1 .. Len(State.stack) : /\ State.stack[i].win # w
                                             /\ State.stack[i].docs \cap tabs[w] = {}
  <1>1. outcome = "none" /\ Waiting /\ w \in Listed(State) /\ ~Blocked(w)
    BY DEF Usable
  <1>2. Going(State) /\ stack \in Seq(Handler) /\ w \in Wins /\ House(State)
    BY <1>1, Ready
  <1>3. ToSet(stack) = {stack[i] : i \in 1 .. Len(stack)}
    BY <1>2, Lists
  <1>4. \A i \in 1 .. Len(stack) : stack[i].win # w
    BY <1>1, <1>3 DEF Blocked
  <1>5. ASSUME NEW i \in 1 .. Len(stack) PROVE stack[i].docs \cap tabs[w] = {}
    <2>1. HandlerOK(State, stack[i])
      BY <1>2, StateFields DEF Going, Waits
    <2>2. stack[i] \in Handler
      BY <1>2, ElementOfSeq
    <2>3. CASE stack[i].proc = "close_all"
      BY <2>1, <2>3 DEF HandlerOK
    <2>4. CASE stack[i].proc # "close_all"
      <3>1. /\ stack[i].win \in Wins /\ stack[i].win # w
            /\ \A d \in stack[i].docs : file[d] = Closed \/ d \in tabs[stack[i].win]
        BY <1>4, <2>1, <2>4, StateFields DEF HandlerOK
      <3>2. tabs[stack[i].win] \cap tabs[w] = {} /\ \A d \in tabs[w] : file[d] # Closed
        BY <1>2, <3>1, StateFields DEF House
      <3> QED
        BY <3>1, <3>2
    <2> QED
      BY <2>3, <2>4
  <1> QED
    BY <1>1, <1>2, <1>4, <1>5, StateFields

LEMMA CloseAllStepKept ==
  ASSUME Inv, CloseAllStep PROVE Inv' /\ Kept
  <1>1. outcome = "none" /\ stack # <<>> /\ Top.proc = "close_all"
    BY DEF CloseAllStep, Waiting
  <1>2. /\ Sound(State) /\ State.outcome = "none" /\ Top = Last(State.stack) /\ Top \in Handler
        /\ State.stack = stack
    BY <1>1, Ready, StateFields
  <1>3. CASE Top.rest = <<>>
    <2>1. Becomes(CloseAllReturns(State, TRUE))
      BY <1>3 DEF CloseAllStep
    <2>2. Proper(State, CloseAllReturns(State, TRUE), Named)
      BY <1>1, <1>2, AllReturnedProper
    <2> QED
      BY <1>1, <2>1, <2>2, ProperKept
  <1>4. CASE Top.rest # <<>>
    <2> DEFINE w == Head(Top.rest)
               t == CloseWindow(State, w, Top.held)
    <2>1. Becomes(t)
      BY <1>4 DEF CloseAllStep
    <2>2. MayCall(State)
      BY <1>2, <1>4 DEF MayCall
    <2>3. CASE w \in Listed(State)
      <3>1. t = Begin(State, "close_window", w, State.tabs[w], Top.held)
        BY <2>3 DEF CloseWindow
      <3>2. Top.held \in SUBSET Files
        BY <1>2 DEF Handler
      <3> HIDE DEF t, w
      <3>3. Proper(State, t, Named)
        BY <1>1, <1>2, <2>2, <2>3, <3>1, <3>2, BeginProper
      <3> QED
        BY <1>1, <2>1, <3>3, ProperKept
    <2>4. CASE w \notin Listed(State)
      <3>1. t = Return(State, TRUE)
        BY <2>4 DEF CloseWindow
      <3> HIDE DEF t, w
      <3>2. /\ Sound(t) /\ SameHouse(State, t) /\ t.outcome = "none"
        BY <1>2, <2>2, <3>1, OneLess
      <3>3. Proper(State, t, Named)
        BY <1>2, <3>2, SameProper
      <3> QED
        BY <1>1, <2>1, <3>3, ProperKept
    <2> QED
      BY <2>3, <2>4
  <1> QED
    BY <1>3, <1>4

LEMMA DiscardKept ==
  ASSUME Inv, Discard PROVE Inv' /\ Kept
  <1>1. outcome = "none" /\ stack # <<>> /\ Top.proc # "close_all" /\ Becomes(Proceed(State))
    BY DEF Discard, Asking
  <1>2. Proper(State, Proceed(State), Named)
    BY <1>1, Ready, StateFields, ProceedProper
  <1> QED
    BY <1>1, <1>2, ProperKept

LEMMA CancelCloseKept ==
  ASSUME Inv, CancelClose PROVE Inv' /\ Kept
  <1>1. outcome = "none" /\ stack # <<>> /\ Top.proc # "close_all" /\ Becomes(Return(Pop(State), FALSE))
    BY DEF CancelClose, Asking
  <1>2. Proper(State, Return(Pop(State), FALSE), Named)
    BY <1>1, Ready, StateFields, ReturnedProper
  <1> QED
    BY <1>1, <1>2, ProperKept

\* The documents to save are some of those the question named.
LEMMA SavingTop ==
  ASSUME Inv, Saving
  PROVE  /\ outcome = "none" /\ stack # <<>> /\ Top \in Handler /\ Top.proc # "close_all"
         /\ Top.saving \subseteq Top.ask /\ HandlerOK(State, Top) /\ Top.saving # {}
  <1>1. outcome = "none" /\ stack # <<>> /\ Top.saving # {}
    BY DEF Saving
  <1>2. Going(State) /\ stack \in Seq(Handler)
    BY <1>1, Ready
  <1>3. Top \in Handler /\ Top = stack[Len(stack)] /\ Len(stack) \in Nat \ {0}
    BY <1>1, <1>2, LastAndFront DEF Top
  <1>4. Len(stack) \in 1 .. Len(stack)
    BY <1>3
  <1>5. HandlerOK(State, Top)
    BY <1>2, <1>3, <1>4, StateFields DEF Going, Waits
  <1> QED
    BY <1>1, <1>3, <1>5 DEF HandlerOK

\* The handler on top is told which documents to save.
WithSaving(D) == [State EXCEPT !.stack[Len(stack)].saving = D]

LEMMA SavingSet ==
  ASSUME Inv, outcome = "none", stack # <<>>, Top.proc # "close_all", NEW D, D \subseteq Top.ask,
         NEW t, t = WithSaving(D)
  PROVE  /\ Sound(t) /\ t.outcome = "none" /\ SameHouse(State, t) /\ SameFlags(State, t)
         /\ SameSession(State, t)
         /\ t.stack # <<>> /\ Last(t.stack).saving = D /\ Last(t.stack).ask = Top.ask
         /\ Last(t.stack).proc = Top.proc
  <1> DEFINE n == Len(stack)
             h == [Top EXCEPT !.saving = D]
             stk == [stack EXCEPT ![n] = h]
  <1>1. /\ Sound(State) /\ State.outcome = "none" /\ State \in ProgramStates /\ Going(State)
        /\ stack \in Seq(Handler) /\ Top = Last(State.stack) /\ Top \in Handler
    BY Ready
  <1>2. Top = stack[n] /\ n \in Nat \ {0}
    BY <1>1, LastAndFront DEF Top
  <1>3. n \in 1 .. n
    BY <1>2
  <1>4. Top.ask \in SUBSET Docs
    BY <1>1 DEF Handler
  <1>5. /\ h \in Handler /\ h.proc = Top.proc /\ h.win = Top.win /\ h.docs = Top.docs
        /\ h.ask = Top.ask /\ h.saving = D /\ h.why = Top.why /\ h.held = Top.held
    BY <1>1, <1>4 DEF Handler
  <1>6. HandlerOK(State, Top)
    BY <1>1, <1>2, <1>3, StateFields DEF Going, Waits
  <1>7. t = [State EXCEPT !.stack = stk]
    BY <1>1, <1>2, StateFields DEF ProgramStates, WithSaving
  <1> HIDE DEF h
  <1>8. HandlerOK(State, h)
    BY <1>5, <1>6 DEF HandlerOK
  <1>9. stk \in Seq(Handler)
    BY <1>1, <1>3, <1>5, ExceptSeq
  <1>10. stk = [State.stack EXCEPT ![Len(State.stack)] = h]
    BY StateFields
  <1> HIDE DEF stk, n
  <1>11. /\ t \in ProgramStates /\ t.stack = stk
         /\ t.windows = State.windows /\ t.tabs = State.tabs /\ t.file = State.file
         /\ t.modified = State.modified
         /\ t.running = State.running /\ t.in_try_quit = State.in_try_quit
         /\ t.saved_session_in_try_quit = State.saved_session_in_try_quit
         /\ t.session = State.session /\ t.sessionFile = State.sessionFile
         /\ t.outcome = "none"
    BY <1>1, <1>7, <1>9 DEF ProgramStates
  <1>12. SameHouse(State, t) /\ SameFlags(State, t) /\ SameSession(State, t)
    BY <1>11 DEF SameHouse, SameFlags, SameSession
  <1>13. /\ h.proc = Last(State.stack).proc /\ h.why = Last(State.stack).why
         /\ h.docs = Last(State.stack).docs /\ h.held = Last(State.stack).held
         /\ State.stack # <<>> /\ t.session = State.session
         /\ t.stack = [State.stack EXCEPT ![Len(State.stack)] = h]
    BY <1>1, <1>5, <1>10, <1>11, StateFields
  <1>14. Sound(t) /\ t.stack # <<>> /\ Last(t.stack) = h
    BY <1>1, <1>5, <1>8, <1>11, <1>12, <1>13, TopChanged
  <1> QED
    BY <1>5, <1>11, <1>12, <1>14

LEMMA SaveSelectedKept ==
  ASSUME Inv, SaveSelected PROVE Inv' /\ Kept
  <1>1. outcome = "none" /\ stack # <<>> /\ Top.proc # "close_all"
    BY DEF SaveSelected, Asking
  <1>2. PICK D \in SUBSET Top.ask : Becomes(WithSaving(D))
    BY DEF SaveSelected, WithSaving
  <1> DEFINE t == WithSaving(D)
  <1>3. Sound(t) /\ t.outcome = "none" /\ SameHouse(State, t)
    BY <1>1, SavingSet
  <1> HIDE DEF t
  <1>4. Proper(State, t, Named)
    BY <1>1, <1>3, Ready, SameProper
  <1> QED
    BY <1>1, <1>2, <1>4, ProperKept DEF t

\* moo_editor_save of a document.
LEMMA SavedSound ==
  ASSUME NEW s, Sound(s), s.outcome = "none", NEW d \in Docs, s.file[d] # Closed,
         NEW f \in (IF s.file[d] = Untitled THEN Files ELSE {s.file[d]}),
         NEW t, t = Saved(s, d, f)
  PROVE  /\ Sound(t) /\ t.outcome = "none" /\ t.stack = s.stack
         /\ t.windows = s.windows /\ t.tabs = s.tabs /\ t.modified = s.modified \ {d}
         /\ SameFlags(s, t) /\ SameSession(s, t)
         /\ \A e \in Docs : t.file[e] = Closed => s.file[e] = Closed
         /\ OpenFiles(s) \subseteq OpenFiles(t)
  <1>1. s.file \in [Docs -> Names \cup {Closed}] /\ s.modified \in SUBSET Docs
    BY DEF Sound, ProgramStates
  <1>2. f \in Names
    BY <1>1 DEF Names
  <1> DEFINE M == s.modified \ {d}
  <1>3. t = Renaming(s, d, f, M)
    BY DEF Saved, Renaming
  <1>4. M \in SUBSET s.modified
    OBVIOUS
  <1> HIDE DEF M
  <1>5. /\ Sound(t) /\ t.outcome = "none" /\ t.stack = s.stack
        /\ t.windows = s.windows /\ t.tabs = s.tabs /\ t.modified = M
        /\ t.file = [s.file EXCEPT ![d] = f]
        /\ SameFlags(s, t) /\ SameSession(s, t)
    BY <1>2, <1>3, <1>4, Renamed
  <1>6. \A e \in Docs : t.file[e] = IF e = d THEN f ELSE s.file[e]
    BY <1>1, <1>5
  <1>7. \A e \in Docs : t.file[e] = Closed => s.file[e] = Closed
    BY <1>2, <1>6 DEF Names
  <1>8. \A e \in Docs : s.file[e] \in Files => t.file[e] = s.file[e]
    BY <1>6
  <1>9. OpenFiles(s) \subseteq OpenFiles(t)
    BY <1>8 DEF OpenFiles
  <1> QED
    BY <1>5, <1>7, <1>9 DEF M

LEMMA SaveOneKept ==
  ASSUME Inv, SaveOne PROVE Inv' /\ Kept
  <1>1. /\ outcome = "none" /\ stack # <<>> /\ Top \in Handler /\ Top.proc # "close_all"
        /\ Top.saving \subseteq Top.ask
    BY SavingTop DEF SaveOne
  <1>0. PICK d \in Top.saving : \E f \in NamesFor(d) :
          LET s == Saved([State EXCEPT !.stack[Len(stack)].saving = @ \ {d}], d, f)
          IN Becomes(IF Last(s.stack).saving = {} THEN Proceed(s) ELSE s)
    BY DEF SaveOne
  <1>2. PICK f \in NamesFor(d) :
          LET s == Saved([State EXCEPT !.stack[Len(stack)].saving = @ \ {d}], d, f)
          IN Becomes(IF Last(s.stack).saving = {} THEN Proceed(s) ELSE s)
    BY <1>0
  <1> DEFINE D == Top.saving \ {d}
             u == WithSaving(D)
             s == Saved(u, d, f)
             t == IF Last(s.stack).saving = {} THEN Proceed(s) ELSE s
  <1>3. [State EXCEPT !.stack[Len(stack)].saving = @ \ {d}] = u
    <2>1. stack[Len(stack)] = Top /\ State.stack = stack
      BY StateFields DEF Top, Last
    <2> QED
      BY <2>1 DEF WithSaving
  <1>4. Becomes(t)
    BY <1>2, <1>3
  <1>5. D \subseteq Top.ask /\ d \in Top.ask /\ d \in Docs
    BY <1>1 DEF Handler
  <1>6. /\ Sound(u) /\ u.outcome = "none" /\ SameHouse(State, u) /\ SameFlags(State, u)
        /\ SameSession(State, u)
        /\ u.stack # <<>> /\ Last(u.stack).ask = Top.ask /\ Last(u.stack).proc = Top.proc
    BY <1>1, <1>5, SavingSet
  <1> HIDE DEF u
  <1>7. /\ Sound(s) /\ s.outcome = "none" /\ s.stack = u.stack
        /\ s.windows = u.windows /\ s.tabs = u.tabs /\ u.modified \subseteq s.modified \cup {d}
        /\ SameFlags(u, s) /\ SameSession(u, s)
        /\ \A e \in Docs : s.file[e] = Closed => u.file[e] = Closed
        /\ OpenFiles(u) \subseteq OpenFiles(s)
    <2>1. CASE u.file[d] = Closed
      <3>1. s = u
        BY <2>1 DEF Saved
      <3> QED
        BY <1>6, <3>1 DEF SameFlags, SameSession
    <2>2. CASE u.file[d] # Closed
      <3>1. f \in (IF u.file[d] = Untitled THEN Files ELSE {u.file[d]})
        BY <1>6, StateFields DEF NamesFor, SameHouse
      <3> HIDE DEF s
      <3>2. s = Saved(u, d, f)
        BY DEF s
      <3> QED
        BY <1>5, <1>6, <2>2, <3>1, <3>2, SavedSound
    <2> QED
      BY <2>1, <2>2
  <1> HIDE DEF s
  <1>8. Proper(s, t, Top.ask)
    <2>1. CASE Last(s.stack).saving = {}
      BY <1>1, <1>6, <1>7, <2>1, ProceedProper
    <2>2. CASE Last(s.stack).saving # {}
      <3>1. t = s /\ SameHouse(s, s)
        BY <2>2 DEF SameHouse
      <3> QED
        BY <1>7, <3>1, SameProper
    <2> QED
      BY <2>1, <2>2
  <1> HIDE DEF t
  <1>9. Proper(State, t, Top.ask)
    <2>1. /\ Listed(s) = Listed(State) /\ s.tabs = State.tabs
          /\ s.running = State.running /\ s.session = State.session
          /\ OpenFiles(State) \subseteq OpenFiles(s)
          /\ State.modified \subseteq s.modified \cup {d}
      BY <1>6, <1>7, SameHouseOK DEF SameHouse, SameFlags, SameSession, Listed
    <2> QED
      BY <1>5, <1>8, <2>1 DEF Proper
  <1>10. Named = Top.ask
    BY <1>1, Ready
  <1> QED
    BY <1>1, <1>4, <1>9, <1>10, ProperKept

LEMMA SaveFailsKept ==
  ASSUME Inv, SaveFails PROVE Inv' /\ Kept
  <1>1. outcome = "none" /\ stack # <<>> /\ Top.proc # "close_all" /\ Becomes(Return(Pop(State), FALSE))
    BY SavingTop DEF SaveFails
  <1>2. Proper(State, Return(Pop(State), FALSE), Named)
    BY <1>1, Ready, StateFields, ReturnedProper
  <1> QED
    BY <1>1, <1>2, ProperKept

\* A step that closes no document with changes and empties no tab.
LEMMA QuietProper ==
  ASSUME NEW s, Sound(s), NEW t, Sound(t), t.outcome = "none",
         \A d \in s.modified : t.file[d] = Closed => s.file[d] = Closed,
         \A w \in Wins : w \in Listed(t) /\ s.tabs[w] # {} => t.tabs[w] # {},
         s.outcome = "none", NEW ask
  PROVE  Proper(s, t, ask)
  <1>1. s \in ProgramStates /\ t \in ProgramStates /\ House(s)
    BY DEF Sound, Going
  <1>2. Listed(s) \subseteq Wins
    BY <1>1, Lists DEF ProgramStates, Listed
  <1>3. \A d \in s.modified : t.file[d] # Closed
    BY <1>1 DEF House
  <1> QED
    BY <1>1, <1>2, <1>3 DEF Proper

LEMMA TypeKept ==
  ASSUME Inv, Type PROVE Inv' /\ Kept
  <1>0. PICK w \in Usable : \E d \in tabs[w] : Becomes([State EXCEPT !.modified = @ \cup {d}])
    BY DEF Type
  <1>1. PICK d \in tabs[w] : Becomes([State EXCEPT !.modified = @ \cup {d}])
    BY <1>0
  <1> DEFINE t == [State EXCEPT !.modified = State.modified \cup {d}]
  <1>2. /\ outcome = "none" /\ w \in Wins /\ d \in State.tabs[w]
        /\ \A i \in 1 .. Len(State.stack) : State.stack[i].win # w
    BY UsableWindow, StateFields
  <1>3. Becomes(t) /\ t = [State EXCEPT !.modified = State.modified \cup {d}]
    BY <1>1
  <1> HIDE DEF t
  <1>4. Sound(State) /\ State.outcome = "none"
    BY <1>2, Ready
  <1>5. /\ Sound(t) /\ t.outcome = "none" /\ t.windows = State.windows /\ t.tabs = State.tabs
        /\ t.file = State.file
    BY <1>2, <1>3, <1>4, Typed
  <1>6. Proper(State, t, Named)
    BY <1>4, <1>5, QuietProper
  <1> QED
    BY <1>2, <1>3, <1>6, ProperKept

LEMMA SaveCommandKept ==
  ASSUME Inv, SaveCommand PROVE Inv' /\ Kept
  <1>0. PICK w \in Usable : \E d \in tabs[w] : \E f \in NamesFor(d) : Becomes(Saved(State, d, f))
    BY DEF SaveCommand
  <1>1. PICK d \in tabs[w], f \in UNION {NamesFor(e) : e \in tabs[w]} :
          f \in NamesFor(d) /\ Becomes(Saved(State, d, f))
    BY <1>0
  <1> DEFINE t == Saved(State, d, f)
  <1>2. outcome = "none" /\ w \in Wins
    BY UsableWindow
  <1>3. Sound(State) /\ State.outcome = "none" /\ House(State) /\ tabs \in [Wins -> SUBSET Docs]
        /\ modified \in SUBSET Docs
    BY <1>2, Ready
  <1>4. d \in Docs /\ State.file[d] # Closed
    BY <1>2, <1>3, StateFields DEF House
  <1>5. f \in (IF State.file[d] = Untitled THEN Files ELSE {State.file[d]})
    BY <1>1, StateFields DEF NamesFor
  <1>6. Becomes(t) /\ t = Saved(State, d, f)
    BY <1>1
  <1> HIDE DEF t
  <1>7. /\ Sound(t) /\ t.outcome = "none" /\ t.tabs = State.tabs
        /\ \A e \in Docs : t.file[e] = Closed => State.file[e] = Closed
    BY <1>3, <1>4, <1>5, <1>6, SavedSound
  <1>8. Proper(State, t, Named)
    BY <1>3, <1>7, QuietProper, StateFields
  <1> QED
    BY <1>2, <1>6, <1>8, ProperKept

\* A new document in a window that is listed, or in a new one.
LEMMA InsertProper ==
  ASSUME NEW s, Sound(s), s.outcome = "none", NEW w \in Listed(s), NEW d \in FreeDocs(s),
         NEW name \in Names, NEW t, t = InsertDoc(s, w, d, name), NEW ask
  PROVE  Proper(s, t, ask) /\ t.outcome = "none"
  <1>1. /\ Sound(t) /\ t.outcome = "none"
        /\ t.tabs = [s.tabs EXCEPT ![w] = s.tabs[w] \cup {d}]
        /\ t.file = [s.file EXCEPT ![d] = name]
        /\ d \in Docs /\ w \in Wins
    BY DocInserted
  <1>2. /\ s.tabs \in [Wins -> SUBSET Docs] /\ s.file \in [Docs -> Names \cup {Closed}]
        /\ s.modified \in SUBSET Docs
    BY DEF Sound, ProgramStates
  <1>3. \A v \in Wins : s.tabs[v] \subseteq t.tabs[v]
    BY <1>1, <1>2
  <1>4. \A e \in Docs : t.file[e] = Closed => s.file[e] = Closed
    BY <1>1, <1>2 DEF Names
  <1> QED
    BY <1>1, <1>2, <1>3, <1>4, QuietProper

LEMMA InsertNewProper ==
  ASSUME NEW s, Sound(s), s.outcome = "none", NEW w \in FreeWins(s), NEW d \in FreeDocs(s),
         NEW name \in Names, NEW t, t = InsertDoc(CreateWindow(s, w), w, d, name), NEW ask
  PROVE  Proper(s, t, ask)
  <1> DEFINE u == CreateWindow(s, w)
  <1>1. /\ Sound(u) /\ u.outcome = "none" /\ u.tabs = s.tabs /\ u.file = s.file
        /\ u.modified = s.modified
        /\ w \in Listed(u) /\ Listed(s) \subseteq Listed(u) /\ w \in Wins /\ w \notin Listed(s)
        /\ d \in FreeDocs(u)
    BY WindowCreated
  <1>2. t = InsertDoc(u, w, d, name)
    OBVIOUS
  <1> HIDE DEF u
  <1>3. Proper(u, t, ask) /\ t.outcome = "none"
    BY <1>1, <1>2, InsertProper
  <1> QED
    BY <1>1, <1>3 DEF Proper

\* A document goes to another window, where empty documents E make room.
LEMMA MovedProper ==
  ASSUME NEW s, Sound(s), s.outcome = "none", NEW old \in Listed(s), NEW dest \in Listed(s),
         old # dest, NEW d \in s.tabs[old],
         Idle(s, old), Idle(s, dest),
         NEW ask
  PROVE  /\ Proper(s, MovedDoc(s, d, old, dest), ask)
         /\ \A E \in SUBSET Docs :
              E \subseteq s.tabs[dest] /\ E \cap s.modified = {} /\ d \notin E
                => Proper(s, DoCloseDocs(MovedDoc(s, d, old, dest), E), ask)
  <1> DEFINE u == MovedDoc(s, d, old, dest)
  <1>0. u = MovedDoc(s, d, old, dest)
    OBVIOUS
  <1> HIDE DEF u
  <1>1. Sound(u) /\ u.outcome = "none" /\ AfterMove(s, u, d, old, dest)
    BY <1>0, Moved
  <1>2. s \in ProgramStates /\ House(s) /\ dest \in Wins /\ s.modified \in SUBSET Docs
    <2>1. s \in ProgramStates /\ House(s)
      BY DEF Sound, Going
    <2> QED
      BY <2>1, Lists DEF ProgramStates, Listed
  <1>3. \A w \in Wins : w \in Listed(u) /\ s.tabs[w] # {} => u.tabs[w] # {}
    BY <1>1 DEF AfterMove
  <1>4. Proper(s, u, ask)
    BY <1>1, <1>3, QuietProper DEF AfterMove
  <1>5. ASSUME NEW E \in SUBSET Docs, E \subseteq s.tabs[dest], E \cap s.modified = {}, d \notin E
        PROVE  Proper(s, DoCloseDocs(u, E), ask)
    <2> DEFINE t == DoCloseDocs(u, E)
    <2>1. /\ t \in ProgramStates
          /\ t.windows = u.windows /\ t.tabs = [w \in Wins |-> u.tabs[w] \ E]
          /\ t.file = [e \in Docs |-> IF e \in E THEN Closed ELSE u.file[e]]
          /\ t.outcome \in {"none", "closed_twice"}
          /\ t.outcome = "none" => Sound(t)
      BY <1>1, DocsClosed
    <2> HIDE DEF t
    <2>2. CASE t.outcome = "closed_twice"
      BY <2>1, <2>2 DEF Proper, t
    <2>3. CASE t.outcome = "none"
      <3>1. \A e \in s.modified : t.file[e] = Closed => s.file[e] = Closed
        BY <1>1, <1>2, <1>5, <2>1 DEF AfterMove
      <3>2. ASSUME NEW w \in Wins, w \in Listed(t), s.tabs[w] # {} PROVE t.tabs[w] # {}
        <4>1. w \in Listed(u) /\ u.tabs[w] # {} /\ t.tabs[w] = u.tabs[w] \ E
          BY <1>3, <2>1, <3>2 DEF Listed
        <4>2. CASE w = dest
          BY <1>1, <1>5, <4>1, <4>2 DEF AfterMove
        <4>3. CASE w # dest
          <5>1. s.tabs[w] \cap s.tabs[dest] = {}
            BY <1>2, <4>3 DEF House
          <5>2. u.tabs[w] \subseteq s.tabs[w]
            BY <1>1, <4>3 DEF AfterMove
          <5> QED
            BY <1>5, <4>1, <5>1, <5>2
        <4> QED
          BY <4>2, <4>3
      <3>3. Proper(s, t, ask)
        BY <2>1, <2>3, <3>1, <3>2, QuietProper
      <3> QED
        BY <3>3 DEF t
    <2> QED
      BY <2>1, <2>2, <2>3
  <1> QED
    BY <1>4, <1>5 DEF u

LEMMA NewDocKept ==
  ASSUME Inv, NewDoc PROVE Inv' /\ Kept
  <1>1. PICK w \in Usable : Becomes(NewDocIn(State, w))
    BY DEF NewDoc
  <1> DEFINE t == NewDocIn(State, w)
  <1>2. outcome = "none" /\ w \in Listed(State)
    BY UsableWindow
  <1>3. Sound(State) /\ State.outcome = "none"
    BY <1>2, Ready
  <1>4. FreshDoc(State) \in FreeDocs(State)
    BY FreshIsFree DEF NewDoc, SpareDoc
  <1>5. t = InsertDoc(State, w, FreshDoc(State), Untitled) /\ Untitled \in Names
    BY DEF NewDocIn, Names
  <1>6. Becomes(t)
    BY <1>1
  <1> HIDE DEF t
  <1>7. Proper(State, t, Named)
    BY <1>2, <1>3, <1>4, <1>5, InsertProper
  <1> QED
    BY <1>2, <1>6, <1>7, ProperKept

LEMMA NewWindowKept ==
  ASSUME Inv, NewWindow PROVE Inv' /\ Kept
  <1>1. PICK w \in NextWin : Becomes(NewDocIn(CreateWindow(State, w), w))
    BY DEF NewWindow
  <1> DEFINE u == CreateWindow(State, w)
             t == NewDocIn(u, w)
  <1>2. outcome = "none" /\ w \in FreeWins(State)
    BY DEF NewWindow, Usable, NextWin
  <1>3. Sound(State) /\ State.outcome = "none"
    BY <1>2, Ready
  <1>4. FreeDocs(State) # {}
    BY DEF NewWindow, SpareDoc
  <1>5. FreeDocs(u) = FreeDocs(State)
    BY <1>2, <1>3, WindowCreated
  <1>6. FreshDoc(u) \in FreeDocs(State)
    BY <1>4, <1>5, FreshIsFree
  <1>7. t = InsertDoc(u, w, FreshDoc(u), Untitled) /\ Untitled \in Names /\ Becomes(t)
    BY <1>1 DEF NewDocIn, Names
  <1> HIDE DEF t
  <1>8. Proper(State, t, Named)
    BY <1>2, <1>3, <1>6, <1>7, InsertNewProper
  <1> QED
    BY <1>2, <1>7, <1>8, ProperKept

LEMMA CloseDocsCommandKept ==
  ASSUME Inv, CloseDocsCommand PROVE Inv' /\ Kept
  <1>0. PICK w \in Usable : \E D \in (SUBSET tabs[w]) \ {{}} : Becomes(CloseDocs(State, w, D))
    BY DEF CloseDocsCommand
  <1>1. PICK D \in (SUBSET tabs[w]) \ {{}} : Becomes(CloseDocs(State, w, D))
    BY <1>0
  <1>2. /\ outcome = "none" /\ Waiting /\ w \in Listed(State)
        /\ \A i \in 1 .. Len(State.stack) : State.stack[i].docs \cap tabs[w] = {}
    BY UsableWindow
  <1>3. Sound(State) /\ State.outcome = "none" /\ MayCall(State)
    BY <1>2, Ready
  <1>4. /\ D \subseteq State.tabs[w] /\ D # {}
        /\ \A i \in 1 .. Len(State.stack) : State.stack[i].docs \cap D = {}
    BY <1>2, StateFields
  <1>5. {} \in SUBSET Files
    OBVIOUS
  <1>6. Proper(State, Begin(State, "close_docs", w, D, {}), Named)
    BY <1>2, <1>3, <1>4, <1>5, BeginProper
  <1> QED
    BY <1>1, <1>2, <1>6, ProperKept DEF CloseDocs

LEMMA CloseWindowCommandKept ==
  ASSUME Inv, CloseWindowCommand PROVE Inv' /\ Kept
  <1>1. PICK w \in Usable : Becomes(CloseWindow(State, w, {}))
    BY DEF CloseWindowCommand
  <1>2. outcome = "none" /\ Waiting /\ w \in Listed(State)
    BY UsableWindow
  <1>3. Sound(State) /\ State.outcome = "none" /\ MayCall(State)
    BY <1>2, Ready
  <1>4. Becomes(Begin(State, "close_window", w, State.tabs[w], {}))
    BY <1>1, <1>2 DEF CloseWindow
  <1>5. {} \in SUBSET Files
    OBVIOUS
  <1>6. Proper(State, Begin(State, "close_window", w, State.tabs[w], {}), Named)
    BY <1>2, <1>3, <1>5, BeginProper
  <1> QED
    BY <1>2, <1>4, <1>6, ProperKept

LEMMA MoveDocKept ==
  ASSUME Inv, MoveDoc PROVE Inv' /\ Kept
  <1>0. PICK old \in Usable, dest \in Usable : \E d \in tabs[old], there \in tabs[dest] :
          /\ old # dest
          /\ LET s == MovedDoc(State, d, old, dest)
             IN Becomes(IF Empty(State, there) THEN DoCloseDocs(s, {there}) ELSE s)
    BY DEF MoveDoc
  <1>1. PICK d \in tabs[old], there \in tabs[dest] :
          /\ old # dest
          /\ LET s == MovedDoc(State, d, old, dest)
             IN Becomes(IF Empty(State, there) THEN DoCloseDocs(s, {there}) ELSE s)
    BY <1>0
  <1> DEFINE s == MovedDoc(State, d, old, dest)
             E == IF Empty(State, there) THEN {there} ELSE {}
             t == IF Empty(State, there) THEN DoCloseDocs(s, {there}) ELSE s
  <1>2. /\ outcome = "none" /\ old \in Listed(State) /\ dest \in Listed(State) /\ old # dest
        /\ old \in Wins /\ dest \in Wins
        /\ Idle(State, old) /\ Idle(State, dest)
    BY <1>1, UsableWindow DEF Idle
  <1>3. Sound(State) /\ State.outcome = "none" /\ House(State) /\ d \in State.tabs[old]
    BY <1>2, Ready, StateFields
  <1>4. there \in Docs /\ d # there
    <2>1. tabs \in [Wins -> SUBSET Docs] /\ tabs[old] \cap tabs[dest] = {}
      BY <1>2, <1>3, Ready, StateFields DEF House
    <2> QED
      BY <1>2, <2>1
  <1>5. Becomes(t)
    BY <1>1
  <1>6. MovedDoc(State, d, old, dest) = s
    OBVIOUS
  <1> HIDE DEF s
  <1>7. Proper(State, t, Named)
    <2>1. CASE ~Empty(State, there)
      <3>1. t = s
        BY <2>1
      <3> QED
        BY <1>2, <1>3, <1>6, <3>1, MovedProper
    <2>2. CASE Empty(State, there)
      <3>1. t = DoCloseDocs(s, {there}) /\ there \notin modified
        BY <2>2, StateFields DEF Empty
      <3>2. there \in tabs[dest]
        OBVIOUS
      <3> HIDE DEF t
      <3>3. {there} \subseteq State.tabs[dest] /\ {there} \cap State.modified = {} /\ d \notin {there}
            /\ {there} \in SUBSET Docs
        BY <1>4, <3>1, <3>2, StateFields
      <3> QED
        BY <1>2, <1>3, <1>6, <3>1, <3>3, MovedProper
    <2> QED
      BY <2>1, <2>2
  <1> QED
    BY <1>2, <1>5, <1>7, ProperKept

LEMMA DetachKept ==
  ASSUME Inv, Detach PROVE Inv' /\ Kept
  <1>0. PICK old \in Usable : \E d \in tabs[old] : \E dest \in NextWin :
          LET s == NewDocIn(CreateWindow(State, dest), dest)
              empty == s.tabs[dest]
          IN Becomes(DoCloseDocs(MovedDoc(s, d, old, dest), empty))
    BY DEF Detach
  <1>1. PICK d \in tabs[old], dest \in NextWin :
          LET s == NewDocIn(CreateWindow(State, dest), dest)
              empty == s.tabs[dest]
          IN Becomes(DoCloseDocs(MovedDoc(s, d, old, dest), empty))
    BY <1>0
  <1> DEFINE u == CreateWindow(State, dest)
             e == FreshDoc(u)
             s == NewDocIn(u, dest)
             E == s.tabs[dest]
             t == DoCloseDocs(MovedDoc(s, d, old, dest), E)
  <1>2. /\ outcome = "none" /\ old \in Listed(State) /\ old \in Wins /\ Idle(State, old)
        /\ dest \in FreeWins(State)
    BY UsableWindow DEF NextWin, Idle
  <1>3. /\ Sound(State) /\ State.outcome = "none" /\ House(State)
        /\ tabs \in [Wins -> SUBSET Docs] /\ file \in [Docs -> Names \cup {Closed}]
        /\ modified \in SUBSET Docs /\ stack \in Seq(Handler) /\ Listed(State) \subseteq Wins
    BY <1>2, Ready
  <1>4. /\ Sound(u) /\ u.outcome = "none" /\ u.stack = stack
        /\ u.tabs = tabs /\ u.file = file /\ u.modified = modified
        /\ SameFlags(State, u) /\ SameSession(State, u)
        /\ Listed(u) = Listed(State) \cup {dest} /\ dest \in Wins /\ dest \notin Listed(State)
        /\ tabs[dest] = {} /\ FreeDocs(u) = FreeDocs(State)
    BY <1>2, <1>3, StateFields, WindowCreated
  <1>5. FreeDocs(State) # {}
    BY DEF Detach
  <1>6. e \in FreeDocs(u)
    BY <1>4, <1>5, FreshIsFree
  <1>7. s = InsertDoc(u, dest, e, Untitled) /\ Untitled \in Names
    BY DEF NewDocIn, Names
  <1>8. Becomes(t)
    BY <1>1
  <1>9. t = DoCloseDocs(MovedDoc(s, d, old, dest), E)
    OBVIOUS
  <1> HIDE DEF s, u, e, t
  <1>10. /\ Sound(s) /\ s.outcome = "none" /\ s.stack = u.stack
         /\ s.windows = u.windows /\ s.modified = u.modified
         /\ s.tabs = [u.tabs EXCEPT ![dest] = u.tabs[dest] \cup {e}]
         /\ s.file = [u.file EXCEPT ![e] = Untitled]
         /\ SameFlags(u, s) /\ SameSession(u, s)
         /\ e \in Docs /\ u.file[e] = Closed
    <2>1. dest \in Listed(u)
      BY <1>4
    <2> QED
      BY <1>4, <1>6, <1>7, <2>1, DocInserted
  <1>11. /\ \A w \in Wins : s.tabs[w] = IF w = dest THEN {e} ELSE tabs[w]
         /\ \A c \in Docs : s.file[c] = IF c = e THEN Untitled ELSE file[c]
    BY <1>3, <1>4, <1>10
  <1>12. /\ Listed(s) = Listed(State) \cup {dest} /\ old # dest /\ E = {e}
         /\ d \in s.tabs[old] /\ s.modified = modified
    BY <1>2, <1>4, <1>10, <1>11 DEF Listed
  <1>13. e \notin modified /\ e # d
    BY <1>2, <1>3, <1>4, <1>10, StateFields DEF House
  <1>14. Idle(s, old) /\ Idle(s, dest)
    <2>1. ToSet(stack) = {stack[i] : i \in 1 .. Len(stack)}
      BY <1>3, Lists
    <2>2. \A i \in 1 .. Len(stack) : stack[i].win # dest
      BY <1>2, <2>1, StateFields DEF FreeWins
    <2> QED
      BY <1>2, <1>4, <1>10, <2>2, StateFields DEF Idle
  <1>15. Proper(s, t, Named)
    <2>1. /\ old \in Listed(s) /\ dest \in Listed(s)
          /\ E \in SUBSET Docs /\ E \subseteq s.tabs[dest] /\ E \cap s.modified = {} /\ d \notin E
      BY <1>2, <1>4, <1>10, <1>12, <1>13
    <2> HIDE DEF E
    <2> QED
      BY <1>9, <1>10, <1>12, <1>14, <2>1, MovedProper
  <1>16. /\ s.running = running /\ s.session = session
         /\ \A w \in Listed(State) : s.tabs[w] = tabs[w]
    BY <1>3, <1>4, <1>10, <1>11, StateFields DEF SameFlags, SameSession
  <1>17. OpenFiles(State) \subseteq OpenFiles(s)
    <2>1. \A c \in Docs : file[c] \in Files => s.file[c] = file[c]
      BY <1>4, <1>10, <1>11
    <2> QED
      BY <2>1, StateFields DEF OpenFiles
  <1>18. Proper(State, t, Named)
    BY <1>12, <1>15, <1>16, <1>17, StateFields DEF Proper
  <1> QED
    BY <1>2, <1>8, <1>18, ProperKept

LEMMA OpenFileKept ==
  ASSUME Inv, OpenFile PROVE Inv' /\ Kept
  <1>1. outcome = "none" /\ FreeDocs(State) # {}
    BY DEF OpenFile, SpareDoc
  <1>2. /\ Sound(State) /\ State.outcome = "none" /\ House(State)
        /\ tabs \in [Wins -> SUBSET Docs] /\ file \in [Docs -> Names \cup {Closed}]
        /\ Listed(State) \subseteq Wins /\ modified \in SUBSET Docs
    BY <1>1, Ready
  <1>3. PICK f \in Files :
          \/ \E w \in Listed(State) : \E d \in tabs[w] :
               Becomes(IF Empty(State, d) THEN [State EXCEPT !.file[d] = f]
                       ELSE InsertDoc(State, w, FreshDoc(State), f))
          \/ \E w \in NextWin :
               Becomes(InsertDoc(CreateWindow(State, w), w, FreshDoc(State), f))
    BY DEF OpenFile
  <1>4. FreshDoc(State) \in FreeDocs(State) /\ f \in Names
    BY <1>1, FreshIsFree DEF Names
  <1>5. ASSUME NEW w \in Listed(State), NEW d \in tabs[w], Becomes([State EXCEPT !.file[d] = f])
        PROVE  Inv' /\ Kept
    <2> DEFINE t == [State EXCEPT !.file[d] = f]
    <2>1. d \in Docs /\ State.file[d] # Closed
      BY <1>2, StateFields DEF House
    <2>2. t = Renaming(State, d, f, modified)
      BY StateFields DEF Renaming, State
    <2>3. Becomes(t)
      BY <1>5
    <2> HIDE DEF t
    <2>4. modified \in SUBSET State.modified
      BY StateFields
    <2>5. Sound(t) /\ t.outcome = "none" /\ t.tabs = State.tabs /\ t.file = [State.file EXCEPT ![d] = f]
      BY <1>2, <1>4, <2>1, <2>2, <2>4, Renamed
    <2>6. \A c \in Docs : t.file[c] = Closed => State.file[c] = Closed
      BY <1>2, <1>4, <2>1, <2>5, StateFields DEF Names
    <2>7. Proper(State, t, Named)
      BY <1>2, <2>5, <2>6, StateFields, QuietProper
    <2> QED
      BY <1>1, <2>3, <2>7, ProperKept
  <1>6. ASSUME NEW w \in Listed(State), Becomes(InsertDoc(State, w, FreshDoc(State), f))
        PROVE  Inv' /\ Kept
    <2> DEFINE t == InsertDoc(State, w, FreshDoc(State), f)
    <2>1. Proper(State, t, Named)
      BY <1>2, <1>4, InsertProper
    <2> QED
      BY <1>1, <1>6, <2>1, ProperKept
  <1>7. ASSUME NEW w \in NextWin, Becomes(InsertDoc(CreateWindow(State, w), w, FreshDoc(State), f))
        PROVE  Inv' /\ Kept
    <2>1. w \in FreeWins(State)
      BY DEF NextWin
    <2> DEFINE t == InsertDoc(CreateWindow(State, w), w, FreshDoc(State), f)
    <2>2. Proper(State, t, Named)
      BY <1>2, <1>4, <2>1, InsertNewProper
    <2> QED
      BY <1>1, <1>7, <2>2, ProperKept
  <1> QED
    BY <1>3, <1>5, <1>6, <1>7

LEMMA QuitKept ==
  ASSUME Inv, Quit PROVE Inv' /\ Kept
  <1>1. outcome = "none" /\ running /\ ~in_try_quit /\ Becomes(TryQuit(State))
    BY DEF Quit
  <1> DEFINE t == TryQuit(State)
  <1>2. Sound(State) /\ State.outcome = "none"
    BY <1>1, Ready
  <1>3. Sound(t) /\ t.outcome = "none" /\ SameHouse(State, t)
    BY <1>1, <1>2, StateFields, TryQuitBegun
  <1> HIDE DEF t
  <1>4. Proper(State, t, Named)
    BY <1>2, <1>3, SameProper
  <1> QED
    BY <1>1, <1>4, ProperKept DEF t

\* A step that ends the program regardless.
LEMMA GoneKept ==
  ASSUME Inv, NEW how \in {"signal", "killed", "freed"}, Becomes(Gone(State, how))
  PROVE  Inv' /\ (outcome = "none" \/ modified = {} => Kept)
  <1> DEFINE t == Gone(State, how)
  <1>1. State \in ProgramStates /\ how \in Outcomes \ {"none"}
    BY DEF Inv, Sound, Outcomes
  <1>2. Sound(t) /\ t \in ProgramStates /\ t.outcome = how /\ Listed(t) = {}
    BY <1>1, GoneSound
  <1>3. Becomes(t)
    OBVIOUS
  <1> HIDE DEF t
  <1>4. State' = t
    BY <1>2, <1>3, BecomesState
  <1>5. outcome' = how /\ Listed(State)' = {}
    BY <1>2, <1>4, NextStateFields
  <1> QED
    BY <1>2, <1>4, <1>5 DEF Inv, Kept

LEMMA CheckSignalKept ==
  ASSUME Inv, CheckSignal PROVE Inv' /\ Kept
  <1>1. outcome = "none" /\ Waiting
    BY DEF CheckSignal
  <1>2. Sound(State) /\ State.outcome = "none" /\ MayCall(State)
    BY <1>1, Ready
  <1>3. CASE running
    <2> DEFINE t == BeginDoQuit(State, "signal", {})
    <2>1. Becomes(t)
      BY <1>3 DEF CheckSignal
    <2>2. {} \in SUBSET Files /\ {} \subseteq SessionFiles(State.session)
      OBVIOUS
    <2>3. Sound(t) /\ t.outcome = "none" /\ SameHouse(State, t)
      BY <1>2, <2>2, DoQuitBegun
    <2> HIDE DEF t
    <2>4. Proper(State, t, Named)
      BY <1>2, <2>3, SameProper
    <2> QED
      BY <1>1, <2>1, <2>4, ProperKept
  <1>4. CASE ~running
    BY <1>1, <1>4, GoneKept DEF CheckSignal
  <1> QED
    BY <1>3, <1>4

LEMMA KillKept ==
  ASSUME Inv, Kill PROVE Inv' /\ Kept
  BY GoneKept DEF Kill

LEMMA ResumeFreedKept ==
  ASSUME Inv, ResumeFreed PROVE Inv' /\ Kept
  <1>1. outcome = "quit" /\ Becomes(Gone(State, "freed"))
    BY DEF ResumeFreed
  <1>2. modified = {}
    BY <1>1, StateFields DEF Inv, Sound, Ended
  <1> QED
    BY <1>1, <1>2, GoneKept

(***************************************************************************)
(* The program starts                                                      *)
(***************************************************************************)
\* Where documents of a session go: a window of the list, under a name in it.
LEMMA PlacesOfSession ==
  ASSUME NEW l \in Seq(SUBSET Names), NEW missing, NEW taken, NEW p \in Places(l, missing, taken)
  PROVE  p[1] \in DOMAIN l /\ p[2] \in Names
  <1>1. PICK i \in DOMAIN l : p \in {i} \X Restored(l, i, missing, taken)
    BY DEF Places
  <1>2. p[1] = i /\ p[2] \in Restored(l, i, missing, taken)
    BY <1>1
  <1>3. Restored(l, i, missing, taken) \subseteq l[i]
    BY DEF Restored
  <1>4. l[i] \in SUBSET Names
    BY ElementOfSeq, LenProperties
  <1> QED
    BY <1>2, <1>3, <1>4

\* A choice of windows and places for the session l.
Placing(l, ws, place) ==
  \E missing \in SUBSET Files, taken \in BOOLEAN :
    /\ ws \in [DOMAIN l -> Wins] /\ IsInjective(ws)
    /\ place \in [Docs -> Places(l, missing, taken) \cup {NoPlace}]

Loaded(ws, place) ==
  [LoadSession(State, ws, place) EXCEPT !.running = TRUE, !.outcome = "none"]

\* The windows and documents of the session.
LEMMA SessionLoaded ==
  ASSUME Inv, outcome # "none", stack = <<>>, NEW l \in Seq(SUBSET Names),
         NEW ws, NEW place, Placing(l, ws, place),
         NEW t, t = Loaded(ws, place)
  PROVE  Sound(t) /\ t.outcome = "none" /\ t.stack = <<>> /\ t.windows = ws
  <1> DEFINE tbs == [w \in Wins |-> {d \in Docs : \E i \in DOMAIN ws : ws[i] = w /\ place[d][1] = i}]
             fls == [d \in Docs |-> place[d][2]]
  <1>0. PICK missing \in SUBSET Files, taken \in BOOLEAN :
          /\ ws \in [DOMAIN l -> Wins] /\ IsInjective(ws)
          /\ place \in [Docs -> Places(l, missing, taken) \cup {NoPlace}]
    BY DEF Placing
  <1>1. /\ State \in ProgramStates /\ modified = {} /\ ~in_try_quit /\ ~saved_session_in_try_quit
    BY StateFields DEF Inv, Sound, Ended
  <1>2. DOMAIN l = 1 .. Len(l) /\ Len(l) \in Nat /\ DOMAIN ws = DOMAIN l
    BY <1>0, LenProperties
  <1>3. ws \in Seq(Wins)
    BY <1>0, <1>2, SeqDef
  <1>4. /\ NoPlace[1] = 0 /\ NoPlace[2] = Closed /\ 0 \notin DOMAIN l
        /\ \A d \in Docs : place[d] = NoPlace \/ (place[d][1] \in DOMAIN l /\ place[d][2] \in Names)
    BY <1>0, <1>2, PlacesOfSession DEF NoPlace
  <1>5. tbs \in [Wins -> SUBSET Docs] /\ fls \in [Docs -> Names \cup {Closed}]
    <2>1. \A d \in Docs : place[d][2] \in Names \cup {Closed}
      BY <1>4
    <2> QED
      BY <2>1
  <1>6. t = [State EXCEPT !.windows = ws, !.tabs = tbs, !.file = fls, !.running = TRUE,
                          !.outcome = "none"]
    BY <1>1 DEF Loaded, LoadSession, ProgramStates
  <1>7. /\ \A w \in Wins : \A d \in tbs[w] :
             d \in Docs /\ \E i \in DOMAIN ws : ws[i] = w /\ place[d][1] = i
        /\ \A d \in Docs : \A i \in DOMAIN ws :
             place[d][1] = i => ws[i] \in Wins /\ d \in tbs[ws[i]]
        /\ \A d \in Docs : fls[d] = place[d][2]
    BY <1>0, <1>2
  <1> HIDE DEF tbs, fls
  <1>8. /\ t \in ProgramStates /\ t.windows = ws /\ t.tabs = tbs /\ t.file = fls
        /\ t.modified = {} /\ t.stack = <<>> /\ t.running = TRUE /\ t.in_try_quit = in_try_quit
        /\ t.saved_session_in_try_quit = saved_session_in_try_quit
        /\ t.outcome = "none"
    BY <1>1, <1>3, <1>5, <1>6, StateFields DEF ProgramStates, Outcomes
  <1>9. \A d \in Docs : fls[d] # Closed <=> place[d] # NoPlace
    BY <1>4, <1>7 DEF Names
  <1>10. House(t)
    <2>1. Listed(t) = {ws[i] : i \in DOMAIN ws}
      BY <1>8 DEF Listed, ToSet
    <2>2. \A w \in Wins : \A d \in t.tabs[w] : w \in Listed(t) /\ t.file[d] # Closed
      BY <1>2, <1>4, <1>7, <1>8, <1>9, <2>1
    <2>3. \A d \in Docs : t.file[d] # Closed => \E w \in Wins : d \in t.tabs[w]
      BY <1>2, <1>4, <1>7, <1>8, <1>9
    <2>4. \A v, w \in Wins : v # w => t.tabs[v] \cap t.tabs[w] = {}
      BY <1>7, <1>8
    <2>5. \A i, j \in DOMAIN t.windows : t.windows[i] = t.windows[j] => i = j
      BY <1>0, <1>8 DEF IsInjective
    <2> QED
      BY <1>8, <2>2, <2>3, <2>4, <2>5 DEF House
  <1>11. 1 .. Len(t.stack) = {}
    BY <1>8
  <1>12. Waits(t) /\ Apart(t) /\ Remembered(t) /\ Flags(t)
    BY <1>1, <1>8, <1>11 DEF Waits, Apart, Remembered, Flags
  <1>13. Called(t)
    BY <1>8 DEF Called
  <1> QED
    BY <1>8, <1>10, <1>12, <1>13 DEF Sound, Going

LEMMA StartKept ==
  ASSUME Inv, Start PROVE Inv' /\ Kept
  <1> DEFINE l == IF sessionFile = NoSession THEN <<>> ELSE sessionFile
  <1>1. /\ outcome # "none" /\ stack = <<>>
        /\ \E missing \in SUBSET SessionFiles(sessionFile), taken \in BOOLEAN :
             LET places == Places(l, missing, taken)
             IN \E ws \in [DOMAIN l -> Wins], place \in [Docs -> places \cup {NoPlace}] :
                  /\ IsInjective(ws)
                  /\ Becomes(Started(LoadSession(State, ws, place)))
    BY DEF Start
  <1>2. l \in Seq(SUBSET Names)
    BY StateFields, EmptySeq DEF Inv, Sound, ProgramStates, Sessions
  <1> HIDE DEF l
  <1>3. \E ws, place : Placing(l, ws, place) /\ Becomes(Started(LoadSession(State, ws, place)))
    <2>1. PICK missing \in SUBSET SessionFiles(sessionFile), taken \in BOOLEAN :
            \E ws \in [DOMAIN l -> Wins], place \in [Docs -> Places(l, missing, taken) \cup {NoPlace}] :
              /\ IsInjective(ws)
              /\ Becomes(Started(LoadSession(State, ws, place)))
      BY <1>1
    <2>2. PICK ws \in [DOMAIN l -> Wins], place \in [Docs -> Places(l, missing, taken) \cup {NoPlace}] :
            /\ IsInjective(ws)
            /\ Becomes(Started(LoadSession(State, ws, place)))
      BY <2>1
    <2>3. SessionFiles(sessionFile) \subseteq Files
      BY DEF SessionFiles
    <2>4. Placing(l, ws, place)
      BY <2>2, <2>3 DEF Placing
    <2> QED
      BY <2>2, <2>4
  <1>4. PICK ws, place : Placing(l, ws, place) /\ Becomes(Started(LoadSession(State, ws, place)))
    BY <1>3
  <1> DEFINE u == Loaded(ws, place)
             s == Started(LoadSession(State, ws, place))
  <1>5. Sound(u) /\ u.outcome = "none" /\ u.stack = <<>> /\ u.windows = ws
    <2>1. outcome # "none" /\ stack = <<>>
      BY <1>1
    <2>2. Placing(l, ws, place)
      BY <1>4
    <2> HIDE DEF u
    <2>3. u = Loaded(ws, place)
      BY DEF u
    <2> QED
      BY <1>2, <2>1, <2>2, <2>3, SessionLoaded
  <1>6. s = IF u.windows = <<>> THEN NewDocIn(CreateWindow(u, FreshWin(u)), FreshWin(u)) ELSE u
    BY DEF Started, Loaded
  <1>7. Becomes(s)
    BY <1>4
  <1> HIDE DEF u, s
  <1>8. Sound(s) /\ s.outcome = "none"
    <2>1. CASE u.windows # <<>>
      BY <1>5, <1>6, <2>1
    <2>2. CASE u.windows = <<>>
      <3> DEFINE w == FreshWin(u)
                 c == CreateWindow(u, w)
      <3>1. House(u) /\ Listed(u) = {} /\ ToSet(u.stack) = {}
        BY <1>5, <2>2 DEF Sound, Going, Listed, ToSet
      <3>2. FreeWins(u) = Wins
        BY <3>1 DEF FreeWins
      <3>3. w \in FreeWins(u)
        BY <3>2 DEF FreshWin
      <3>4. s = NewDocIn(c, w)
        BY <1>6, <2>2
      <3> HIDE DEF w, c
      <3>5. c = CreateWindow(u, w)
        BY DEF c
      <3>6. FreeDocs(u) # {}
        <4>1. \A d \in Docs : u.file[d] = Closed
          BY <3>1 DEF House
        <4> QED
          BY <3>1, <4>1 DEF FreeDocs
      <3>7. /\ Sound(c) /\ c.outcome = "none" /\ w \in Listed(c) /\ FreeDocs(c) = FreeDocs(u)
        BY <1>5, <3>3, <3>5, WindowCreated
      <3>8. FreshDoc(c) \in FreeDocs(c) /\ Untitled \in Names
        BY <3>6, <3>7, FreshIsFree DEF Names
      <3>9. s = InsertDoc(c, w, FreshDoc(c), Untitled)
        BY <3>4 DEF NewDocIn
      <3>10. Proper(c, s, {}) /\ s.outcome = "none"
        BY <3>7, <3>8, <3>9, InsertProper
      <3> QED
        BY <3>10 DEF Proper
    <2> QED
      BY <2>1, <2>2
  <1>9. s \in ProgramStates
    BY <1>8 DEF Sound
  <1>10. State' = s
    BY <1>7, <1>8, <1>9, BecomesState
  <1>11. outcome' = "none"
    BY <1>8, <1>10, NextStateFields
  <1>12. modified = {} /\ Listed(State) = {}
    BY <1>1, StateFields DEF Inv, Sound, Ended, Listed, ToSet
  <1> QED
    BY <1>1, <1>8, <1>10, <1>12 DEF Inv, Kept

(***************************************************************************)
(* The invariant                                                           *)
(***************************************************************************)
LEMMA InitSound ==
  Init => Inv
  <1> SUFFICES ASSUME Init PROVE Inv
    OBVIOUS
  <1>1. /\ <<>> \in Seq(Wins) /\ <<>> \in Seq(Handler) /\ NoSession \in Sessions
        /\ [w \in Wins |-> {}] \in [Wins -> SUBSET Docs]
        /\ [d \in Docs |-> Closed] \in [Docs -> Names \cup {Closed}]
    BY EmptySeq DEF Sessions
  <1>2. State \in ProgramStates
    BY <1>1 DEF State, Init, ProgramStates, Outcomes
  <1>3. State.outcome # "none" /\ Ended(State)
    BY StateFields DEF Init, Ended
  <1> QED
    BY <1>2, <1>3 DEF Inv, Sound

LEMMA NextSound ==
  Inv /\ [Next]_vars => Inv' /\ [Kept]_vars
  <1> SUFFICES ASSUME Inv, [Next]_vars PROVE Inv' /\ [Kept]_vars
    OBVIOUS
  <1>1. CASE UNCHANGED vars
    <2>1. State' = State
      BY <1>1 DEF State, vars
    <2> QED
      BY <1>1, <2>1 DEF Inv
  <1>2. CASE CloseAllStep
    BY <1>2, CloseAllStepKept
  <1>3. CASE Discard
    BY <1>3, DiscardKept
  <1>4. CASE CancelClose
    BY <1>4, CancelCloseKept
  <1>5. CASE SaveSelected
    BY <1>5, SaveSelectedKept
  <1>6. CASE SaveOne
    BY <1>6, SaveOneKept
  <1>7. CASE SaveFails
    BY <1>7, SaveFailsKept
  <1>8. CASE ResumeFreed
    BY <1>8, ResumeFreedKept
  <1>9. CASE Type
    BY <1>9, TypeKept
  <1>10. CASE SaveCommand
    BY <1>10, SaveCommandKept
  <1>11. CASE NewDoc
    BY <1>11, NewDocKept
  <1>12. CASE NewWindow
    BY <1>12, NewWindowKept
  <1>13. CASE CloseDocsCommand
    BY <1>13, CloseDocsCommandKept
  <1>14. CASE CloseWindowCommand
    BY <1>14, CloseWindowCommandKept
  <1>15. CASE MoveDoc
    BY <1>15, MoveDocKept
  <1>16. CASE Detach
    BY <1>16, DetachKept
  <1>17. CASE OpenFile
    BY <1>17, OpenFileKept
  <1>18. CASE Quit
    BY <1>18, QuitKept
  <1>19. CASE CheckSignal
    BY <1>19, CheckSignalKept
  <1>20. CASE Kill
    BY <1>20, KillKept
  <1>21. CASE Start
    BY <1>21, StartKept
  <1> QED
    BY <1>1, <1>2, <1>3, <1>4, <1>5, <1>6, <1>7, <1>8, <1>9, <1>10, <1>11, <1>12, <1>13, <1>14,
       <1>15, <1>16, <1>17, <1>18, <1>19, <1>20, <1>21 DEF Next

\* Windows, tabs, documents and the handlers that wait fit each other,
\* whatever questions, quits and signals nest.
THEOREM WindowsSound == Spec => []Inv
  <1>1. Inv /\ [Next]_vars => Inv'
    BY NextSound
  <1> QED
    BY <1>1, InitSound, PTL DEF Spec

\* The flags of MooApp say what is under way: no quit, cancelled or overtaken,
\* leaves the program unable to quit or to save its session.
THEOREM FlagsAreTruthful == Spec => []FlagsTruthful
  <1>1. Inv => FlagsTruthful
    <2> SUFFICES ASSUME Inv, outcome = "none" PROVE FlagsTruthful
      BY DEF FlagsTruthful
    <2>1. Flags(State) /\ stack \in Seq(Handler)
      BY Ready DEF Going
    <2>2. ToSet(stack) = {stack[i] : i \in 1 .. Len(stack)}
      BY <2>1, Lists
    <2>3. /\ in_try_quit <=> \E h \in ToSet(stack) : IsTry(h)
          /\ saved_session_in_try_quit <=> in_try_quit
          /\ running <=> ~\E h \in ToSet(stack) : IsDo(h)
      BY <2>1, <2>2, StateFields DEF Flags
    <2> QED
      BY <2>3 DEF FlagsTruthful, IsTry, IsDo
  <1> QED
    BY <1>1, WindowsSound, PTL

\* Closing documents, windows or the program drops unsaved changes only with the
\* documents that the question just answered named.  The end of the program is
\* left out: a signal asks, but does not wait for leave, and a window that opened
\* under the questions of a quit goes at its end whatever its own question is
\* answered (moo_app_do_quit ignores what _moo_editor_close_all returns).
THEOREM ChangesAreAskedFor == Spec => AskedFirst
  <1>1. Inv /\ [Next]_vars =>
          [\A d \in modified :
             /\ file'[d] = Closed
             /\ outcome' \in (IF running THEN {"none", "quit"} ELSE {"none"})
             => stack # <<>> /\ d \in Top.ask]_vars
    BY NextSound DEF Kept
  <1> QED
    BY <1>1, WindowsSound, PTL DEF Spec, AskedFirst

\* A window that has a tab keeps one as long as it is listed.
THEOREM TabsStay == Spec => NeverEmptied
  <1>1. Inv /\ [Next]_vars =>
          [\A w \in Listed(State) :
             w \in Listed(State)' /\ tabs[w] # {} => tabs'[w] # {}]_vars
    BY NextSound DEF Kept
  <1> QED
    BY <1>1, WindowsSound, PTL DEF Spec, NeverEmptied

\* When the program ends on its own terms, the session file lists the files
\* that were open when it was told to quit.
THEOREM SessionIsKept == Spec => SessionKept
  <1>1. Inv /\ [Next]_vars =>
          [outcome = "none" /\ outcome' = "quit" =>
             (IF running THEN OpenFiles(State) ELSE Top.held)
               \subseteq SessionFiles(sessionFile')]_vars
    BY NextSound DEF Kept
  <1> QED
    BY <1>1, WindowsSound, PTL DEF Spec, SessionKept

================================================================================
