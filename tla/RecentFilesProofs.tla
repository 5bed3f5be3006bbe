-------------------------- MODULE RecentFilesProofs --------------------------
(***************************************************************************)
(* For any number of instances that start, end and crash as they like, and *)
(* messages in any order: a plain start finds a running instance, because  *)
(* whoever is not struck answers under the name of its pid; instances send *)
(* no more messages than their users' changes pay for; and once all is     *)
(* quiet the lists and the file are the same, because whoever lacks a      *)
(* change has the message about it in front of all else from its author.   *)
(***************************************************************************)
EXTENDS RecentFiles, SequenceTheorems, FiniteSetTheorems, TLAPS

\* An instance that has bound its pid, and one that listens at it.
Bound == {"listen_pid", "try_main", "unlink_main", "bind_main", "listen_main",
          "running", "leaving"}
Listening == Bound \ {"listen_pid"}

\* A name that an instance made is its own until somebody takes the instance for
\* dead, and those who do say so.  Sockets have the pid or "main" for a name.
Answers ==
  /\ owner \in [Names -> Procs \cup {Nobody}]
  /\ struck \subseteq Procs
  /\ at \in [Procs -> Starting \cup Gone \cup {"off", "running", "leaving"}]
  /\ sockets \in [Procs -> SUBSET Names]
  /\ \A p \in Procs :
       /\ sockets[p] \subseteq {p, Main}
       /\ at[p] \in Bound /\ p \notin struck => owner[p] = p
       /\ at[p] \in Listening /\ p \notin struck => p \in sockets[p]

\* The stations of a start come before an instance listens.
LEMMA Stations ==
  /\ Listening \subseteq Bound /\ Bound \subseteq Starting \cup {"running", "leaving"}
  /\ Bound \cap {"off", "init", "bind_pid", "handed_over", "ended", "crashed"} = {}
  /\ "listen_pid" \in Bound \ Listening
  BY DEF Bound, Listening, Starting

\* Names are removed, and those who lose theirs are struck.
LEMMA NamesRemoved ==
  ASSUME Answers, NEW names \in SUBSET Names, owner' = Unlinked(names), struck' = Struck(names),
         at' \in [Procs -> Starting \cup Gone \cup {"off", "running", "leaving"}],
         \A q \in Procs : /\ at'[q] \in Bound => at[q] \in Bound
                          /\ at'[q] \in Listening => at[q] \in Listening,
         UNCHANGED sockets
  PROVE  Answers'
  <1>1. owner' \in [Names -> Procs \cup {Nobody}] /\ struck' \subseteq Procs
    BY DEF Answers, Unlinked, Struck
  <1>2. ASSUME NEW q \in Procs
        PROVE  /\ sockets'[q] \subseteq {q, Main}
               /\ at'[q] \in Bound /\ q \notin struck' => owner'[q] = q
               /\ at'[q] \in Listening /\ q \notin struck' => q \in sockets'[q]
    <2>1. q \notin struck' => q \notin struck
      BY DEF Struck
    <2>2. at'[q] \in Bound /\ q \notin struck' => owner'[q] = q
      <3> SUFFICES ASSUME at'[q] \in Bound, q \notin struck' PROVE owner'[q] = q
        OBVIOUS
      <3>1. at[q] \in Bound /\ owner[q] = q
        BY <2>1 DEF Answers
      <3>2. Alive(q)
        BY <3>1, Stations DEF Alive
      <3>3. q \notin names
        BY <3>1, <3>2 DEF Struck
      <3> QED
        BY <3>1, <3>3 DEF Unlinked, Names
    <2> QED
      BY <2>1, <2>2 DEF Answers
  <1> QED
    BY <1>1, <1>2 DEF Answers

\* A broadcast removes the names nobody listens at.
LEMMA Broadcasted ==
  ASSUME Answers, NEW p \in Procs, NEW msgs, NEW waiting, Broadcast(p, msgs, waiting),
         UNCHANGED <<at, sockets>>
  PROVE  Answers'
  <1> DEFINE dead == {n \in {n \in Names : owner[n] # Nobody /\ n \notin sockets[p]} : ~Reaches(n)}
  <1>1. CASE msgs = <<>>
    BY <1>1 DEF Broadcast, Answers
  <1>2. CASE msgs # <<>>
    <2>1. owner' = Unlinked(dead) /\ struck' = Struck(dead) /\ dead \in SUBSET Names
      BY <1>2 DEF Broadcast
    <2> HIDE DEF dead
    <2>2. at' \in [Procs -> Starting \cup Gone \cup {"off", "running", "leaving"}]
      BY DEF Answers
    <2> QED
      BY <2>1, <2>2, NamesRemoved
  <1> QED
    BY <1>1, <1>2

\* An instance that bound nothing moves, or one that did goes on.
LEMMA Moved ==
  ASSUME Answers, NEW p \in Procs, NEW where, MoveTo(p, where),
         where \in Starting \cup Gone \cup {"off", "running", "leaving"},
         where \in Bound => at[p] \in Bound, where \in Listening => at[p] \in Listening
  PROVE  /\ at' \in [Procs -> Starting \cup Gone \cup {"off", "running", "leaving"}]
         /\ \A q \in Procs : /\ at'[q] \in Bound => at[q] \in Bound
                             /\ at'[q] \in Listening => at[q] \in Listening
  BY DEF Answers, MoveTo

\* Such a move, with no name touched.
LEMMA MovedOnly ==
  ASSUME Answers, NEW p \in Procs, NEW where, MoveTo(p, where),
         where \in Starting \cup Gone \cup {"off", "running", "leaving"},
         where \in Bound => at[p] \in Bound, where \in Listening => at[p] \in Listening,
         UNCHANGED <<owner, struck, sockets>>
  PROVE  Answers'
  BY Moved DEF Answers

\* An instance that is gone, whose name nobody asks for as its own.
LEMMA Left ==
  ASSUME Answers, NEW p \in Procs, Forgotten(p), struck' = struck \ {p},
         NEW where \in {"ended", "crashed"}, MoveTo(p, where),
         owner' \in {owner, Unlinked(sockets[p])}
  PROVE  Answers'
  <1>1. /\ at' \in [Procs -> Starting \cup Gone \cup {"off", "running", "leaving"}]
        /\ at'[p] \notin Bound /\ at'[p] \notin Listening
        /\ \A q \in Procs \ {p} : at'[q] = at[q]
    BY Stations DEF Answers, MoveTo, Gone
  <1>2. /\ sockets' \in [Procs -> SUBSET Names] /\ sockets'[p] = {}
        /\ \A q \in Procs \ {p} : sockets'[q] = sockets[q]
    BY DEF Answers, Forgotten
  <1>3. /\ owner' \in [Names -> Procs \cup {Nobody}]
        /\ \A q \in Procs \ {p} : owner'[q] = owner[q]
    BY RecentFilesAssumption DEF RecentFilesAssumption, Answers, Unlinked, Names
  <1> QED
    BY <1>1, <1>2, <1>3 DEF Answers

\* Every step keeps the names.
LEMMA NextAnswers ==
  ASSUME Answers, Next
  PROVE  Answers'
  <1>0. at \in [Procs -> Starting \cup Gone \cup {"off", "running", "leaving"}]
    BY DEF Answers
  <1> USE Stations DEF Gone, Starting
  <1>1. ASSUME NEW p \in Procs, PlainStart(p) PROVE Answers'
    <2>1. CASE UNCHANGED <<owner, struck, sockets>> /\ MoveTo(p, "handed_over")
      BY <2>1, MovedOnly
    <2>2. ASSUME NEW names \in SUBSET Names, owner' = Unlinked(names), struck' = Struck(names),
                 UNCHANGED sockets, NEW where \in {"init", "handed_over"}, MoveTo(p, where)
          PROVE  Answers'
      <3>1. /\ at' \in [Procs -> Starting \cup Gone \cup {"off", "running", "leaving"}]
            /\ \A q \in Procs : /\ at'[q] \in Bound => at[q] \in Bound
                                /\ at'[q] \in Listening => at[q] \in Listening
        BY <2>2, Moved
      <3> QED
        BY <2>2, <3>1, NamesRemoved
    <2>3. \A met \in SUBSET ({n \in Names : ~Reaches(n)} \ {Main}) : met \cup {Main} \in SUBSET Names
      BY DEF Names
    <2> QED
      BY <1>1, <2>1, <2>2, <2>3 DEF PlainStart, sharedVars
  <1>2. ASSUME NEW p \in Procs, NewStart(p) PROVE Answers'
    BY <1>2, MovedOnly DEF NewStart, sharedVars
  <1>3. ASSUME NEW p \in Procs, MakeDir(p) PROVE Answers'
    BY <1>3, MovedOnly DEF MakeDir
  <1>4. ASSUME NEW p \in Procs, BindPid(p) PROVE Answers'
    <2>1. at' \in [Procs -> Starting \cup Gone \cup {"off", "running", "leaving"}]
      BY <1>0, <1>4 DEF BindPid, MoveTo
    <2>2. CASE dir
      BY <1>4, <2>1, <2>2 DEF BindPid, MoveTo, Answers, Names
    <2>3. CASE ~dir
      BY <1>4, <2>1, <2>3 DEF BindPid, MoveTo, Answers, Names
    <2> QED
      BY <2>2, <2>3
  <1>5. ASSUME NEW p \in Procs, ListenPid(p) PROVE Answers'
    BY <1>0, <1>5 DEF ListenPid, MoveTo, Answers, Names, sharedVars, Bound, Listening
  <1>6. ASSUME NEW p \in Procs, TryMain(p) PROVE Answers'
    BY <1>6, MovedOnly DEF TryMain, Bound, Listening
  <1>7. ASSUME NEW p \in Procs, UnlinkMain(p) PROVE Answers'
    BY <1>0, <1>7, RecentFilesAssumption DEF RecentFilesAssumption, UnlinkMain, MoveTo,
       Unlinked, Answers, Names, Bound, Listening
  <1>8. ASSUME NEW p \in Procs, BindMain(p) PROVE Answers'
    BY <1>0, <1>8, RecentFilesAssumption DEF RecentFilesAssumption, BindMain, MoveTo,
       Answers, Names, Bound, Listening
  <1>9. ASSUME NEW p \in Procs, ListenMain(p) PROVE Answers'
    BY <1>0, <1>9 DEF ListenMain, MoveTo, Answers, Names, sharedVars, Bound, Listening
  <1>10. ASSUME NEW p \in Procs, UserChange(p) PROVE Answers'
    BY <1>10, Broadcasted DEF UserChange
  <1>11. ASSUME NEW p \in Procs, Look(p) PROVE Answers'
    BY <1>11 DEF Look, sharedVars, Answers
  <1>12. ASSUME NEW p \in Procs, Receive(p) PROVE Answers'
    <2>1. CASE UNCHANGED <<at, sockets, owner, struck>>
      BY <2>1 DEF Answers
    <2> QED
      BY <1>12, <2>1, Broadcasted DEF Receive, sharedVars
  <1>13. ASSUME NEW p \in Procs, Save(p) PROVE Answers'
    BY <1>13 DEF Save, sharedVars, Answers
  <1>14. ASSUME NEW p \in Procs, Quit(p) PROVE Answers'
    BY <1>14, MovedOnly DEF Quit, sharedVars, Bound, Listening
  <1>15. ASSUME NEW p \in Procs, Cleanup(p) PROVE Answers'
    BY <1>15, Left DEF Cleanup
  <1>16. ASSUME NEW p \in Procs, Crash(p) PROVE Answers'
    BY <1>16, Left DEF Crash
  <1> QED
    BY <1>1, <1>2, <1>3, <1>4, <1>5, <1>6, <1>7, <1>8, <1>9, <1>10, <1>11, <1>12, <1>13,
       <1>14, <1>15, <1>16 DEF Next

\* The invariant: a running instance that was not taken for dead can be reached.
THEOREM InstancesAnswer == Spec => []Answers
  <1>1. Init => Answers
    BY Stations DEF Init, Answers, Names
  <1>2. Answers /\ UNCHANGED vars => Answers'
    BY DEF vars, sharedVars, Answers
  <1> QED
    BY <1>1, <1>2, NextAnswers, PTL DEF Spec

\* A plain start becomes an instance of its own only when every running one has
\* lost its name: the first name that answers gets the files.
THEOREM FilesAreHandedOver == Spec => HandsOver
  <1>1. ASSUME Answers, [Next]_vars
        PROVE  [\A p, q \in Procs :
                  PlainStart(p) /\ at'[p] = "init" /\ at[q] = "running" => q \in struck]_vars
    <2> SUFFICES ASSUME NEW p \in Procs, NEW q \in Procs, PlainStart(p), at'[p] = "init",
                        at[q] = "running", q \notin struck
                 PROVE  FALSE
      OBVIOUS
    <2>1. ~(\E n \in Procs : Reaches(n))
      BY <1>1 DEF PlainStart, MoveTo, Answers
    <2>2. owner[q] = q /\ q \in sockets[q]
      BY <1>1 DEF Answers, Bound, Listening
    <2> QED
      BY <2>1, <2>2, RecentFilesAssumption DEF RecentFilesAssumption, Reaches
  <1> QED
    BY <1>1, InstancesAnswer, PTL DEF Spec, HandsOver

-----------------------------------------------------------------------------
(***************************************************************************)
(* Lists: what moo_history_mgr_*_real makes of one.                        *)
(***************************************************************************)

\* A list holds an item for a uri at most once.
Uniques == {l \in Seq(Items) : \A i, j \in DOMAIN l : l[i].uri = l[j].uri => i = j}
\* What mgr->priv->files may hold, and what is sent.
Lists == {l \in Uniques : Len(l) <= MaxItemNumber}
Messages == [type : {"add", "update", "remove"}, item : Items]

\* Indices and elements of a list.
LEMMA Listed ==
  ASSUME NEW S, NEW s \in Seq(S)
  PROVE  /\ Len(s) \in Nat /\ DOMAIN s = 1 .. Len(s)
         /\ \A i \in 1 .. Len(s) : s[i] \in S
         /\ s = <<>> <=> Len(s) = 0
  BY LenProperties, ElementOfSeq, EmptySeq

\* A list without its element number i.
LEMMA TakenOut ==
  ASSUME NEW S, NEW s \in Seq(S), NEW i \in 1 .. Len(s)
  PROVE  LET t == RemoveAt(s, i)
         IN /\ t \in Seq(S) /\ Len(t) = Len(s) - 1
            /\ \A j \in 1 .. Len(s) - 1 : t[j] = IF j < i THEN s[j] ELSE s[j + 1]
  <1> DEFINE n == Len(s)
             a == SubSeq(s, 1, i - 1)
             b == SubSeq(s, i + 1, n)
             t == a \o b
  <1>1. n \in Nat /\ i \in 1 .. n /\ \A j \in 1 .. n : s[j] \in S
    BY Listed
  <1> HIDE DEF n
  <1>2. a \in Seq(S) /\ Len(a) = i - 1 /\ \A j \in 1 .. i - 1 : a[j] = s[j]
    <2>1. /\ a \in Seq(S)
          /\ Len(a) = IF 1 <= i - 1 THEN (i - 1) - 1 + 1 ELSE 0
          /\ \A j \in 1 .. (i - 1) - 1 + 1 : a[j] = s[1 + j - 1]
      BY <1>1, SubSeqProperties
    <2> QED
      BY <1>1, <2>1
  <1>3. b \in Seq(S) /\ Len(b) = n - i /\ \A j \in 1 .. n - i : b[j] = s[i + j]
    <2>1. /\ b \in Seq(S)
          /\ Len(b) = IF i + 1 <= n THEN n - (i + 1) + 1 ELSE 0
          /\ \A j \in 1 .. n - (i + 1) + 1 : b[j] = s[(i + 1) + j - 1]
      BY <1>1, SubSeqProperties
    <2> QED
      BY <1>1, <2>1
  <1> HIDE DEF a, b
  <1>4. /\ t \in Seq(S) /\ Len(t) = Len(a) + Len(b)
        /\ \A j \in 1 .. Len(a) + Len(b) : t[j] = IF j <= Len(a) THEN a[j] ELSE b[j - Len(a)]
    BY <1>2, <1>3, ConcatProperties
  <1> HIDE DEF t
  <1>5. Len(t) = n - 1
    BY <1>1, <1>2, <1>3, <1>4
  <1>6. ASSUME NEW j \in 1 .. n - 1 PROVE t[j] = IF j < i THEN s[j] ELSE s[j + 1]
    <2>1. CASE j < i
      BY <1>1, <1>2, <1>3, <1>4, <2>1
    <2>2. CASE ~(j < i)
      <3>1. j - (i - 1) \in 1 .. n - i /\ i + (j - (i - 1)) = j + 1 /\ ~(j <= i - 1)
        BY <1>1, <2>2
      <3>2. j \in 1 .. Len(a) + Len(b)
        BY <1>1, <1>2, <1>3
      <3>3. t[j] = b[j - (i - 1)]
        BY <1>2, <1>4, <3>1, <3>2
      <3> QED
        BY <1>3, <2>2, <3>1, <3>3
    <2> QED
      BY <2>1, <2>2
  <1> QED
    BY <1>4, <1>5, <1>6 DEF RemoveAt, t, a, b, n

\* Two lists of the same length with the same elements.
LEMMA SameList ==
  ASSUME NEW S, NEW s \in Seq(S), NEW t \in Seq(S), Len(s) = Len(t),
         \A i \in 1 .. Len(s) : s[i] = t[i]
  PROVE  s = t
  BY SeqEqual

\* A list without its last element.
LEMMA FrontOf ==
  ASSUME NEW S, NEW s \in Seq(S), s # <<>>
  PROVE  /\ Len(s) \in Nat \ {0} /\ Last(s) = s[Len(s)]
         /\ Front(s) \in Seq(S) /\ Len(Front(s)) = Len(s) - 1
         /\ \A i \in 1 .. Len(s) - 1 : Front(s)[i] = s[i]
  <1> DEFINE n == Len(s)
             t == SubSeq(s, 1, n - 1)
  <1>1. n \in Nat \ {0} /\ \A i \in 1 .. n : s[i] \in S
    BY Listed
  <1>2. /\ t \in Seq(S)
        /\ Len(t) = IF 1 <= n - 1 THEN (n - 1) - 1 + 1 ELSE 0
        /\ \A i \in 1 .. (n - 1) - 1 + 1 : t[i] = s[1 + i - 1]
    BY <1>1, SubSeqProperties
  <1> HIDE DEF t, n
  <1>3. t \in Seq(S) /\ Len(t) = n - 1 /\ \A i \in 1 .. n - 1 : t[i] = s[i]
    BY <1>1, <1>2
  <1> QED
    BY <1>1, <1>3 DEF Front, Last, t, n

\* What Without takes out.
LEMMA Without1 ==
  ASSUME NEW l \in Uniques, NEW u, Has(l, u)
  PROVE  \E i \in 1 .. Len(l) : l[i].uri = u /\ Without(l, u) = RemoveAt(l, i)
  BY Listed DEF Without, Has, Uniques

\* The item of a uri is taken out, and no other.
LEMMA WithoutUri ==
  ASSUME NEW l \in Uniques, NEW u
  PROVE  LET t == Without(l, u)
         IN /\ t \in Uniques /\ ~Has(t, u)
            /\ Len(t) = IF Has(l, u) THEN Len(l) - 1 ELSE Len(l)
            /\ ~Has(l, u) => t = l
            /\ \A v : Has(t, v) => Has(l, v)
  <1>1. CASE ~Has(l, u)
    BY <1>1 DEF Without
  <1>2. CASE Has(l, u)
    <2> DEFINE t == Without(l, u)
    <2>1. PICK i \in 1 .. Len(l) : l[i].uri = u /\ t = RemoveAt(l, i)
      BY <1>2, Without1
    <2>2. l \in Seq(Items) /\ Len(l) \in Nat /\ DOMAIN l = 1 .. Len(l)
      BY Listed DEF Uniques
    <2>3. /\ t \in Seq(Items) /\ Len(t) = Len(l) - 1
          /\ \A j \in 1 .. Len(l) - 1 : t[j] = IF j < i THEN l[j] ELSE l[j + 1]
      BY <2>1, <2>2, TakenOut
    <2> HIDE DEF t
    <2>4. DOMAIN t = 1 .. Len(l) - 1
      BY <2>3, Listed
    <2>5. ASSUME NEW j \in DOMAIN t
          PROVE  \E k \in DOMAIN l : k # i /\ t[j] = l[k] /\ (IF j < i THEN k = j ELSE k = j + 1)
      <3>1. CASE j < i
        BY <2>1, <2>2, <2>3, <2>4, <3>1
      <3>2. CASE ~(j < i)
        <4>1. j + 1 \in DOMAIN l /\ j + 1 # i
          BY <2>1, <2>2, <2>4, <3>2
        <4> QED
          BY <2>3, <2>4, <3>2, <4>1
      <3> QED
        BY <3>1, <3>2
    <2>6. \A j, k \in DOMAIN t : t[j].uri = t[k].uri => j = k
      <3> SUFFICES ASSUME NEW j \in DOMAIN t, NEW k \in DOMAIN t, t[j].uri = t[k].uri PROVE j = k
        OBVIOUS
      <3>1. PICK jj \in DOMAIN l : t[j] = l[jj] /\ (IF j < i THEN jj = j ELSE jj = j + 1)
        BY <2>5
      <3>2. PICK kk \in DOMAIN l : t[k] = l[kk] /\ (IF k < i THEN kk = k ELSE kk = k + 1)
        BY <2>5
      <3>3. jj = kk
        BY <3>1, <3>2 DEF Uniques
      <3> QED
        BY <2>1, <2>2, <2>4, <3>1, <3>2, <3>3
    <2>7. ~Has(t, u)
      <3> SUFFICES ASSUME NEW j \in DOMAIN t, t[j].uri = u PROVE FALSE
        BY DEF Has
      <3>1. PICK k \in DOMAIN l : k # i /\ t[j] = l[k]
        BY <2>5
      <3> QED
        BY <2>1, <2>2, <3>1 DEF Uniques
    <2>8. \A v : Has(t, v) => Has(l, v)
      BY <2>5 DEF Has
    <2> QED
      BY <1>2, <2>3, <2>6, <2>7, <2>8 DEF Uniques, t
  <1> QED
    BY <1>1, <1>2

\* The item at the end is taken out.
LEMMA WithoutLast ==
  ASSUME NEW l \in Uniques, l # <<>>
  PROVE  /\ Has(l, Last(l).uri) /\ Last(l) \in Items
         /\ Without(l, Last(l).uri) = Front(l)
  <1>1. /\ l \in Seq(Items) /\ Len(l) \in Nat \ {0} /\ DOMAIN l = 1 .. Len(l)
        /\ \A i \in 1 .. Len(l) : l[i] \in Items
    BY Listed DEF Uniques
  <1>2. /\ Last(l) = l[Len(l)] /\ Front(l) \in Seq(Items) /\ Len(Front(l)) = Len(l) - 1
        /\ \A i \in 1 .. Len(l) - 1 : Front(l)[i] = l[i]
    BY <1>1, FrontOf
  <1>3. Has(l, Last(l).uri)
    BY <1>1, <1>2 DEF Has
  <1>4. PICK i \in 1 .. Len(l) : l[i].uri = Last(l).uri /\ Without(l, Last(l).uri) = RemoveAt(l, i)
    BY <1>3, Without1
  <1>5. i = Len(l)
    <2>1. Len(l) \in 1 .. Len(l) /\ l[i].uri = l[Len(l)].uri
      BY <1>1, <1>2, <1>4
    <2> QED
      BY <1>1, <2>1 DEF Uniques
  <1> DEFINE t == RemoveAt(l, Len(l))
  <1>6. /\ t \in Seq(Items) /\ Len(t) = Len(l) - 1
        /\ \A j \in 1 .. Len(l) - 1 : t[j] = IF j < Len(l) THEN l[j] ELSE l[j + 1]
    <2>1. Len(l) \in 1 .. Len(l)
      BY <1>1
    <2> QED
      BY <1>1, <2>1, TakenOut
  <1>7. t = Front(l)
    <2> HIDE DEF t
    <2>1. \A j \in 1 .. Len(t) : t[j] = Front(l)[j]
      BY <1>1, <1>2, <1>6
    <2> QED
      BY <1>2, <1>6, <2>1, SameList
  <1> QED
    BY <1>1, <1>2, <1>3, <1>4, <1>5, <1>7

\* An item is put in front.
LEMMA PutInFront ==
  ASSUME NEW l \in Uniques, NEW it \in Items, ~Has(l, it.uri)
  PROVE  LET t == <<it>> \o l
         IN /\ t \in Uniques /\ t # <<>> /\ Len(t) = Len(l) + 1 /\ Head(t) = it
            /\ l # <<>> => Last(t) = Last(l) /\ Front(t) = <<it>> \o Front(l)
  <1> DEFINE t == <<it>> \o l
  <1>1. l \in Seq(Items) /\ Len(l) \in Nat /\ DOMAIN l = 1 .. Len(l)
    BY Listed DEF Uniques
  <1>2. <<it>> \in Seq(Items) /\ Len(<<it>>) = 1 /\ <<it>>[1] = it
    OBVIOUS
  <1>3. /\ t \in Seq(Items) /\ Len(t) = 1 + Len(l)
        /\ \A i \in 1 .. 1 + Len(l) : t[i] = IF i <= 1 THEN <<it>>[i] ELSE l[i - 1]
    BY <1>1, <1>2, ConcatProperties
  <1>4. DOMAIN t = 1 .. 1 + Len(l) /\ t # <<>>
    BY <1>1, <1>3, Listed
  <1>5. t[1] = it /\ \A i \in 1 .. Len(l) : t[i + 1] = l[i]
    BY <1>1, <1>2, <1>3
  <1>6. \A i \in DOMAIN t : i = 1 \/ (i - 1 \in DOMAIN l /\ t[i] = l[i - 1])
    BY <1>1, <1>3, <1>4
  <1> HIDE DEF t
  <1>7. Head(t) = it
    BY <1>3, <1>4, <1>5, HeadTailProperties
  <1>8. \A i, j \in DOMAIN t : t[i].uri = t[j].uri => i = j
    <2> SUFFICES ASSUME NEW i \in DOMAIN t, NEW j \in DOMAIN t, t[i].uri = t[j].uri PROVE i = j
      OBVIOUS
    <2>1. CASE i = 1 \/ j = 1
      BY <1>5, <1>6, <2>1 DEF Has
    <2>2. CASE i # 1 /\ j # 1
      <3>1. i - 1 = j - 1
        BY <1>6, <2>2 DEF Uniques
      <3> QED
        BY <1>1, <1>4, <3>1
    <2> QED
      BY <2>1, <2>2
  <1>9. ASSUME l # <<>> PROVE Last(t) = Last(l) /\ Front(t) = <<it>> \o Front(l)
    <2>1. /\ Len(l) \in Nat \ {0} /\ Last(l) = l[Len(l)]
          /\ Front(l) \in Seq(Items) /\ Len(Front(l)) = Len(l) - 1
          /\ \A i \in 1 .. Len(l) - 1 : Front(l)[i] = l[i]
      BY <1>1, <1>9, FrontOf
    <2>2. /\ Last(t) = t[Len(t)] /\ Front(t) \in Seq(Items) /\ Len(Front(t)) = Len(l)
          /\ \A i \in 1 .. Len(l) : Front(t)[i] = t[i]
      <3>1. /\ Last(t) = t[Len(t)] /\ Front(t) \in Seq(Items) /\ Len(Front(t)) = Len(t) - 1
            /\ \A i \in 1 .. Len(t) - 1 : Front(t)[i] = t[i]
        BY <1>3, <1>4, FrontOf
      <3>2. Len(t) - 1 = Len(l)
        BY <1>1, <1>3
      <3> QED
        BY <3>1, <3>2
    <2>3. Last(t) = Last(l)
      BY <1>1, <1>3, <1>5, <2>1, <2>2
    <2> DEFINE f == <<it>> \o Front(l)
    <2>4. /\ f \in Seq(Items) /\ Len(f) = 1 + Len(Front(l))
          /\ \A i \in 1 .. 1 + Len(Front(l)) : f[i] = IF i <= 1 THEN <<it>>[i] ELSE Front(l)[i - 1]
      BY <1>2, <2>1, ConcatProperties
    <2> HIDE DEF f
    <2>5. ASSUME NEW i \in 1 .. Len(l) PROVE Front(t)[i] = f[i]
      <3>1. CASE i = 1
        BY <1>2, <1>5, <2>1, <2>2, <2>4, <3>1, SMTT(30)
      <3>2. CASE i # 1
        <4>1. i - 1 \in 1 .. Len(l) - 1 /\ i \in 1 .. 1 + Len(Front(l)) /\ ~(i <= 1)
          BY <1>1, <2>1, <3>2
        <4>2. t[i] = l[i - 1]
          BY <1>1, <1>3, <4>1
        <4> QED
          BY <2>1, <2>2, <2>4, <4>1, <4>2
      <3> QED
        BY <3>1, <3>2
    <2>6. Len(f) = Len(l)
      BY <2>1, <2>4
    <2>7. Front(t) = f
      BY <2>2, <2>4, <2>5, <2>6, SameList
    <2> QED
      BY <2>3, <2>7 DEF f
  <1>10. t \in Uniques /\ Len(t) = Len(l) + 1
    BY <1>1, <1>3, <1>8 DEF Uniques
  <1> QED
    BY <1>4, <1>7, <1>9, <1>10 DEF t

\* What is sent at once.
None == <<>>
One(a) == <<a>>
Two(a, b) == <<a, b>>

\* The fields of a result.
LEMMA ResultFields ==
  ASSUME NEW l, NEW sent
  PROVE  Result(l, sent).list = l /\ Result(l, sent).sent = sent
  BY DEF Result

\* The fields of a message.
LEMMA MessageOf ==
  ASSUME NEW it \in Items, NEW type \in {"add", "update", "remove"}
  PROVE  Msg(type, it) \in Messages /\ Msg(type, it).type = type /\ Msg(type, it).item = it
  BY DEF Msg, Messages

\* Lists of at most two elements.
LEMMA ShortLists ==
  ASSUME NEW a \in Messages, NEW b \in Messages
  PROVE  /\ <<>> \in Seq(Messages) /\ Len(<<>>) = 0 /\ DOMAIN <<>> = {}
         /\ <<a>> # <<>> /\ <<a, b>> # <<>>
         /\ <<a>> \in Seq(Messages) /\ Len(<<a>>) = 1 /\ <<a>>[1] = a /\ DOMAIN <<a>> = {1}
         /\ <<a>> \o <<b>> = <<a, b>> /\ <<>> \o <<a>> = <<a>>
         /\ <<a, b>> \in Seq(Messages) /\ Len(<<a, b>>) = 2 /\ <<a, b>>[1] = a
         /\ <<a, b>>[2] = b /\ DOMAIN <<a, b>> = {1, 2}
         /\ ToSet(<<a>>) = {a} /\ ToSet(<<>>) = {}
         /\ Tail(<<a>>) = <<>> /\ Tail(<<a, b>>) = <<b>>
  <1>1. /\ <<>> \in Seq(Messages) /\ Len(<<>>) = 0 /\ DOMAIN <<>> = {}
        /\ <<a>> \in Seq(Messages) /\ Len(<<a>>) = 1 /\ <<a>>[1] = a /\ DOMAIN <<a>> = {1}
    OBVIOUS
  <1>2. /\ <<a, b>> \in Seq(Messages) /\ Len(<<a, b>>) = 2 /\ <<a, b>>[1] = a
        /\ <<a, b>>[2] = b /\ DOMAIN <<a, b>> = {1, 2}
    OBVIOUS
  <1>3. <<a>> \o <<b>> = <<a, b>> /\ <<>> \o <<a>> = <<a>>
    <2> DEFINE s == <<a>> \o <<b>>
               t == <<a, b>>
               u == <<>> \o <<a>>
               v == <<a>>
    <2>1. /\ <<a>> \in Seq(Messages) /\ Len(<<a>>) = 1 /\ <<a>>[1] = a
          /\ <<b>> \in Seq(Messages) /\ Len(<<b>>) = 1 /\ <<b>>[1] = b
      OBVIOUS
    <2>2. /\ s \in Seq(Messages) /\ Len(s) = 1 + 1
          /\ \A i \in 1 .. 1 + 1 : s[i] = IF i <= 1 THEN <<a>>[i] ELSE <<b>>[i - 1]
      BY <2>1, ConcatProperties
    <2>3. s[1] = a /\ s[2] = b /\ Len(s) = 2
      BY <2>1, <2>2
    <2>4. /\ u \in Seq(Messages) /\ Len(u) = 0 + 1
          /\ \A i \in 1 .. 0 + 1 : u[i] = IF i <= 0 THEN <<>>[i] ELSE <<a>>[i - 0]
      BY <1>1, ConcatProperties
    <2>5. u[1] = a /\ Len(u) = 1
      BY <1>1, <2>4
    <2>6. t \in Seq(Messages) /\ v \in Seq(Messages) /\ Len(t) = 2 /\ Len(v) = 1
          /\ t[1] = a /\ t[2] = b /\ v[1] = a
      BY <1>1, <1>2
    <2> HIDE DEF s, t, u, v
    <2>7. s = t
      <3>1. \A i \in 1 .. Len(s) : s[i] = t[i]
        BY <2>3, <2>6
      <3> QED
        BY <2>2, <2>3, <2>6, <3>1, SameList
    <2>8. u = v
      <3>1. \A i \in 1 .. Len(u) : u[i] = v[i]
        BY <2>5, <2>6
      <3> QED
        BY <2>4, <2>5, <2>6, <3>1, SameList
    <2> QED
      BY <2>7, <2>8 DEF s, t, u, v
  <1>4. Tail(<<a>>) = <<>> /\ Tail(<<a, b>>) = <<b>>
    OBVIOUS
  <1>5. ToSet(<<a>>) = {a} /\ ToSet(<<>>) = {}
    BY <1>1 DEF ToSet
  <1>6. <<a>> # <<>> /\ <<a, b>> # <<>>
    BY <1>1, <1>2
  <1> QED
    BY <1>1, <1>2, <1>3, <1>4, <1>5, <1>6

\* What the handlers do with a message sent for it, and without.
Adds(l, it) == Added(l, it, TRUE)
AddsQuietly(l, it) == Added(l, it, FALSE)
Updates(l, it) == Updated(l, it, TRUE)
UpdatesQuietly(l, it) == Updated(l, it, FALSE)
Removes(l, it) == Removed(l, it, TRUE)
RemovesQuietly(l, it) == Removed(l, it, FALSE)
Told(m, l) == Applied(m, l, TRUE)
Heard(m, l) == Applied(m, l, FALSE)

\* What is sent at once: nothing, one message, or an addition and a removal.
Brief(sent) ==
  /\ sent \in Seq(Messages) /\ Len(sent) <= 2
  /\ \A i \in DOMAIN sent : /\ sent[i].type # "remove" => i = 1
                            /\ sent[i].type = "update" => Len(sent) = 1

NoUpdates(sent) == \A i \in DOMAIN sent : sent[i].type # "update"
Removals(sent) == Len(sent) <= 1 /\ \A i \in DOMAIN sent : sent[i].type = "remove"

\* The three things a handler may send.
LEMMA ShortSends ==
  ASSUME NEW a \in Messages, NEW b \in Messages, b.type = "remove"
  PROVE  /\ Brief(None) /\ NoUpdates(None) /\ Removals(None)
         /\ Brief(One(a)) /\ (a.type # "update" => NoUpdates(One(a)))
         /\ Removals(One(b)) /\ NoUpdates(One(b))
         /\ a.type # "update" => Brief(Two(a, b)) /\ NoUpdates(Two(a, b))
         /\ One(a) # None /\ Two(a, b) # None
         /\ ToSet(None) = {} /\ ToSet(One(a)) = {a} /\ ToSet(Two(a, b)) = {a, b}
         /\ One(a)[1] = a /\ Two(a, b)[1] = a /\ Len(One(a)) = 1 /\ Len(Two(a, b)) = 2
  <1>1. ToSet(<<a, b>>) = {a, b}
    BY ShortLists DEF ToSet
  <1> QED
    BY <1>1, ShortLists DEF Brief, NoUpdates, Removals, None, One, Two

\* What Added does: nothing when the item is the first; else it goes to the
\* front, and the last item of a full list goes.
First(l, it) == l # <<>> /\ Head(l) = it

\* An item that is in front already is not added.
LEMMA AddedFirst ==
  ASSUME NEW l \in Lists, NEW it \in Items, First(l, it)
  PROVE  Adds(l, it) = Result(l, None) /\ AddsQuietly(l, it) = Result(l, None)
  <1>1. ~(Len(l) > MaxItemNumber)
    BY RecentFilesAssumption, Listed DEF RecentFilesAssumption, Lists, Uniques
  <1> QED
    BY <1>1 DEF Adds, AddsQuietly, Added, Result, First, None

\* The list with the item in front.
InFront(l, it) == <<it>> \o Without(l, it.uri)
Fits(l, it) == Len(InFront(l, it)) <= MaxItemNumber

\* An item comes to the front once.
LEMMA InFrontOf ==
  ASSUME NEW l \in Lists, NEW it \in Items
  PROVE  /\ InFront(l, it) \in Uniques /\ First(InFront(l, it), it)
         /\ Len(InFront(l, it)) = IF Has(l, it.uri) THEN Len(l) ELSE Len(l) + 1
  <1> DEFINE w == Without(l, it.uri)
  <1>1. /\ w \in Uniques /\ ~Has(w, it.uri)
        /\ Len(w) = IF Has(l, it.uri) THEN Len(l) - 1 ELSE Len(l)
    BY WithoutUri DEF Lists
  <1>2. Len(l) \in Nat
    BY Listed DEF Lists, Uniques
  <1> HIDE DEF w
  <1>3. LET t == <<it>> \o w
        IN t \in Uniques /\ t # <<>> /\ Len(t) = Len(w) + 1 /\ Head(t) = it
    BY <1>1, PutInFront
  <1> QED
    BY <1>1, <1>2, <1>3 DEF InFront, First, w

\* An addition that pushes nothing out.
LEMMA AddedFits ==
  ASSUME NEW l \in Lists, NEW it \in Items, ~First(l, it), Fits(l, it)
  PROVE  /\ InFront(l, it) \in Lists
         /\ Adds(l, it) = Result(InFront(l, it), One(Msg("add", it)))
         /\ AddsQuietly(l, it) = Result(InFront(l, it), None)
  <1>1. InFront(l, it) \in Uniques /\ Len(InFront(l, it)) \in Nat
    BY InFrontOf, Listed DEF Uniques
  <1>2. ~(Len(InFront(l, it)) > MaxItemNumber)
    BY RecentFilesAssumption, <1>1 DEF RecentFilesAssumption, Fits
  <1>3. /\ Adds(l, it) = Result(InFront(l, it), One(Msg("add", it)))
        /\ AddsQuietly(l, it) = Result(InFront(l, it), None)
    BY <1>2 DEF Adds, AddsQuietly, Added, InFront, Result, First, One, None
  <1> QED
    BY <1>1, <1>3 DEF Lists, Fits

\* A full list, and what it is with the item in front and the last one gone.
Rolled(l, it) == <<it>> \o Front(l)
Lost(l) == Msg("remove", Last(l))

\* An item that does not fit pushes out the last one, by Removed.
LEMMA FullList ==
  ASSUME NEW l \in Lists, NEW it \in Items, ~Fits(l, it)
  PROVE  /\ l # <<>> /\ ~Has(l, it.uri) /\ Last(l) \in Items /\ InFront(l, it) = <<it>> \o l
         /\ Has(l, Last(l).uri) /\ Without(l, Last(l).uri) = Front(l)
         /\ Rolled(l, it) \in Lists /\ First(Rolled(l, it), it) /\ ~Has(Rolled(l, it), Last(l).uri)
         /\ Front(l) \in Lists /\ ~Has(Front(l), Last(l).uri) /\ ~Has(Front(l), it.uri)
         /\ Len(Front(l)) + 1 = Len(l)
         /\ Len(InFront(l, it)) > MaxItemNumber
         /\ Removed(InFront(l, it), Last(InFront(l, it)), TRUE) = Result(Rolled(l, it), One(Lost(l)))
  <1> DEFINE f == InFront(l, it)
             lost == Last(l)
             new == Rolled(l, it)
  <1>1. l \in Uniques /\ Len(l) \in Nat /\ Len(l) <= MaxItemNumber
    BY Listed DEF Lists, Uniques
  <1>2. /\ f \in Uniques /\ f # <<>> /\ Len(f) = IF Has(l, it.uri) THEN Len(l) ELSE Len(l) + 1
    BY InFrontOf DEF First
  <1>3. ~Has(l, it.uri) /\ Len(f) = Len(l) + 1 /\ Len(l) = MaxItemNumber /\ l # <<>>
    BY RecentFilesAssumption, <1>1, <1>2 DEF RecentFilesAssumption, Fits
  <1>4. f = <<it>> \o l
    BY <1>1, <1>3, WithoutUri DEF InFront
  <1>5. Last(f) = lost /\ Front(f) = new /\ Head(f) = it
    BY <1>1, <1>3, <1>4, PutInFront DEF Rolled
  <1> HIDE DEF f
  <1>6. Has(f, lost.uri) /\ lost \in Items /\ Without(f, lost.uri) = new
    BY <1>2, <1>5, WithoutLast
  <1>7. new \in Uniques /\ ~Has(new, lost.uri) /\ Len(new) = Len(f) - 1
    <2>1. LET t == Without(f, lost.uri)
          IN t \in Uniques /\ ~Has(t, lost.uri) /\ Len(t) = Len(f) - 1
      BY <1>2, <1>6, WithoutUri
    <2> QED
      BY <1>6, <2>1
  <1>8. Has(l, lost.uri) /\ Without(l, lost.uri) = Front(l)
    BY <1>1, <1>3, WithoutLast
  <1>9. /\ Front(l) \in Uniques /\ ~Has(Front(l), lost.uri) /\ Len(Front(l)) = Len(l) - 1
        /\ ~Has(Front(l), it.uri)
    BY <1>1, <1>3, <1>8, WithoutUri
  <1>10. new # <<>> /\ Head(new) = it
    BY <1>9, PutInFront DEF Rolled
  <1>11. Front(l) \in Lists /\ new \in Lists
    BY <1>1, <1>3, <1>7, <1>9 DEF Lists
  <1>12. Len(f) > MaxItemNumber
    BY <1>1, <1>3
  <1>13. Removed(f, Last(f), TRUE) = Result(new, <<Msg("remove", lost)>>)
    BY <1>5, <1>6 DEF Removed
  <1>14. Len(Front(l)) + 1 = Len(l)
    BY <1>1, <1>9
  <1> HIDE DEF new, lost
  <1> QED
    BY <1>3, <1>4, <1>6, <1>7, <1>8, <1>9, <1>10, <1>11, <1>12, <1>13, <1>14
       DEF new, lost, f, Lost, One, First

\* An addition to a full list, which sends the removal always.
LEMMA AddedFull ==
  ASSUME NEW l \in Lists, NEW it \in Items, ~First(l, it), ~Fits(l, it)
  PROVE  /\ Adds(l, it) = Result(Rolled(l, it), Two(Msg("add", it), Lost(l)))
         /\ AddsQuietly(l, it) = Result(Rolled(l, it), One(Lost(l)))
  <1> DEFINE f == InFront(l, it)
             new == Rolled(l, it)
             a == Msg("add", it)
             b == Lost(l)
             over == Removed(f, Last(f), TRUE)
             x == Adds(l, it)
             y == AddsQuietly(l, it)
  <1>1. Last(l) \in Items /\ Len(f) > MaxItemNumber /\ over = Result(new, One(b))
    BY FullList
  <1>2. f = IF l = <<>> \/ Head(l) # it THEN <<it>> \o Without(l, it.uri) ELSE l
    BY DEF InFront, First
  <1>3. a \in Messages /\ b \in Messages
    BY <1>1, MessageOf DEF Lost
  <1> HIDE DEF f, new, a, b
  <1>5. x = Result(over.list, <<a>> \o over.sent) /\ y = Result(over.list, <<>> \o over.sent)
    BY <1>1, <1>2 DEF Adds, AddsQuietly, Added, over, a, First
  <1> HIDE DEF over
  <1>4. over.list = new /\ over.sent = One(b)
    BY <1>1, ResultFields
  <1>6. <<a>> \o One(b) = Two(a, b) /\ <<>> \o One(b) = One(b)
    BY <1>3, ShortLists DEF One, Two
  <1> HIDE DEF x, y
  <1>7. x = Result(new, Two(a, b)) /\ y = Result(new, One(b))
    BY <1>4, <1>5, <1>6
  <1> QED
    BY <1>7 DEF new, a, b, x, y

\* The item of a uri is replaced.
Replaced(l, it) == [i \in DOMAIN l |-> IF l[i].uri = it.uri THEN it ELSE l[i]]
Holds(l, it) == \E i \in DOMAIN l : l[i] = it

\* An update leaves one item for each uri.
LEMMA ReplacedIn ==
  ASSUME NEW l \in Lists, NEW it \in Items, Has(l, it.uri)
  PROVE  /\ Replaced(l, it) \in Lists /\ Has(Replaced(l, it), it.uri) /\ Holds(Replaced(l, it), it)
  <1> DEFINE t == Replaced(l, it)
  <1>1. /\ l \in Seq(Items) /\ Len(l) \in Nat /\ DOMAIN l = 1 .. Len(l)
        /\ \A i \in 1 .. Len(l) : l[i] \in Items
    BY Listed DEF Lists, Uniques
  <1>2. t \in [1 .. Len(l) -> Items]
    BY <1>1 DEF Replaced
  <1>3. t \in Seq(Items) /\ Len(t) = Len(l) /\ DOMAIN t = 1 .. Len(l)
    BY <1>1, <1>2, IsASeq, Listed
  <1>4. \A i \in DOMAIN t : t[i].uri = l[i].uri
    BY <1>1, <1>3 DEF Replaced
  <1>5. \A i, j \in DOMAIN t : t[i].uri = t[j].uri => i = j
    BY <1>1, <1>3, <1>4 DEF Lists, Uniques
  <1>6. PICK i \in DOMAIN l : l[i].uri = it.uri
    BY DEF Has
  <1>7. t[i] = it /\ i \in DOMAIN t
    BY <1>1, <1>3, <1>6 DEF Replaced
  <1> HIDE DEF t
  <1>8. Has(t, it.uri) /\ Holds(t, it)
    BY <1>7 DEF Has, Holds
  <1>9. t \in Lists
    BY <1>3, <1>5 DEF Lists, Uniques
  <1> QED
    BY <1>8, <1>9 DEF t

\* What Updated does; when the item is missing it adds with a message, always.
LEMMA UpdatedFacts ==
  ASSUME NEW l \in Lists, NEW it \in Items
  PROVE  /\ ~Has(l, it.uri) => /\ Updates(l, it) = Adds(l, it)
                               /\ UpdatesQuietly(l, it) = Adds(l, it)
         /\ Has(l, it.uri) /\ Holds(l, it) =>
              /\ Updates(l, it) = Result(l, None)
              /\ UpdatesQuietly(l, it) = Result(l, None)
         /\ Has(l, it.uri) /\ ~Holds(l, it) =>
              /\ Updates(l, it) = Result(Replaced(l, it), One(Msg("update", it)))
              /\ UpdatesQuietly(l, it) = Result(Replaced(l, it), None)
  BY DEF Updates, UpdatesQuietly, Adds, Updated, Replaced, Holds, None, One

\* What Removed does.
LEMMA RemovedFacts ==
  ASSUME NEW l \in Lists, NEW it \in Items
  PROVE  /\ ~Has(l, it.uri) => /\ Removes(l, it) = Result(l, None)
                               /\ RemovesQuietly(l, it) = Result(l, None)
         /\ Has(l, it.uri) =>
              /\ Removes(l, it) = Result(Without(l, it.uri), One(Msg("remove", it)))
              /\ RemovesQuietly(l, it) = Result(Without(l, it.uri), None)
         /\ Without(l, it.uri) \in Lists /\ ~Has(Without(l, it.uri), it.uri)
         /\ ~Has(l, it.uri) => Without(l, it.uri) = l
  <1>1. l \in Uniques /\ Len(l) \in Nat /\ Len(l) <= MaxItemNumber
    BY Listed DEF Lists, Uniques
  <1>2. /\ Without(l, it.uri) \in Uniques /\ ~Has(Without(l, it.uri), it.uri)
        /\ Len(Without(l, it.uri)) = IF Has(l, it.uri) THEN Len(l) - 1 ELSE Len(l)
        /\ ~Has(l, it.uri) => Without(l, it.uri) = l
    BY <1>1, WithoutUri
  <1>3. Without(l, it.uri) \in Lists
    <2>1. Len(Without(l, it.uri)) <= MaxItemNumber
      BY RecentFilesAssumption, <1>1, <1>2 DEF RecentFilesAssumption
    <2> QED
      BY <1>2, <2>1 DEF Lists
  <1> QED
    BY <1>2, <1>3 DEF Removes, RemovesQuietly, Removed, None, One

\* What a message does is one of the three.
LEMMA AppliedCases ==
  ASSUME NEW m \in Messages, NEW l
  PROVE  /\ m.type = "add" => /\ Told(m, l) = Adds(l, m.item)
                              /\ Heard(m, l) = AddsQuietly(l, m.item)
         /\ m.type = "update" => /\ Told(m, l) = Updates(l, m.item)
                                 /\ Heard(m, l) = UpdatesQuietly(l, m.item)
         /\ m.type = "remove" => /\ Told(m, l) = Removes(l, m.item)
                                 /\ Heard(m, l) = RemovesQuietly(l, m.item)
         /\ m.type \in {"add", "update", "remove"} /\ m.item \in Items
         /\ m = Msg(m.type, m.item)
  BY DEF Told, Heard, Adds, AddsQuietly, Updates, UpdatesQuietly, Removes,
         RemovesQuietly, Applied, Messages, Msg

\* An addition by the user, or for an update that misses its item, sends one
\* itself, and a removal when an item is pushed out.
LEMMA AddedTold ==
  ASSUME NEW l \in Lists, NEW it \in Items
  PROVE  \E new \in Lists : \E sent :
           Adds(l, it) = Result(new, sent) /\ Brief(sent) /\ NoUpdates(sent)
  <1> DEFINE a == Msg("add", it)
             b == Lost(l)
  <1>0. a \in Messages /\ a.type # "update"
    BY MessageOf
  <1>1. CASE First(l, it)
    <2>1. Adds(l, it) = Result(l, None)
      BY <1>1, AddedFirst
    <2>2. Msg("remove", it) \in Messages /\ Msg("remove", it).type = "remove"
      BY MessageOf
    <2>3. Brief(None) /\ NoUpdates(None)
      BY <2>2, ShortSends
    <2> QED
      BY <2>1, <2>3
  <1>2. CASE ~First(l, it) /\ Fits(l, it)
    <2>1. Adds(l, it) = Result(InFront(l, it), One(a)) /\ InFront(l, it) \in Lists
      BY <1>2, AddedFits
    <2>2. Msg("remove", it) \in Messages /\ Msg("remove", it).type = "remove"
      BY MessageOf
    <2> HIDE DEF a
    <2>3. Brief(One(a)) /\ NoUpdates(One(a))
      BY <1>0, <2>2, ShortSends
    <2> QED
      BY <2>1, <2>3
  <1>3. CASE ~First(l, it) /\ ~Fits(l, it)
    <2>1. /\ Adds(l, it) = Result(Rolled(l, it), Two(a, b))
          /\ Last(l) \in Items /\ Rolled(l, it) \in Lists
      BY <1>3, FullList, AddedFull
    <2>2. b \in Messages /\ b.type = "remove"
      BY <2>1, MessageOf DEF Lost
    <2> HIDE DEF a, b
    <2>3. Brief(Two(a, b)) /\ NoUpdates(Two(a, b))
      BY <1>0, <2>2, ShortSends
    <2> QED
      BY <2>1, <2>3
  <1> QED
    BY <1>1, <1>2, <1>3

\* One that came with a message sends a removal at most.
LEMMA AddedHeard ==
  ASSUME NEW l \in Lists, NEW it \in Items
  PROVE  \E new \in Lists : \E sent :
           AddsQuietly(l, it) = Result(new, sent) /\ Brief(sent) /\ NoUpdates(sent) /\ Removals(sent)
  <1> DEFINE c == Msg("remove", it)
             b == Lost(l)
  <1>0. c \in Messages /\ c.type = "remove"
    BY MessageOf
  <1>4. Brief(None) /\ NoUpdates(None) /\ Removals(None)
    <2> HIDE DEF c
    <2> QED
      BY <1>0, ShortSends
  <1>1. CASE First(l, it)
    BY <1>1, <1>4, AddedFirst
  <1>2. CASE ~First(l, it) /\ Fits(l, it)
    BY <1>2, <1>4, AddedFits
  <1>3. CASE ~First(l, it) /\ ~Fits(l, it)
    <2>1. /\ AddsQuietly(l, it) = Result(Rolled(l, it), One(b))
          /\ Last(l) \in Items /\ Rolled(l, it) \in Lists
      BY <1>3, FullList, AddedFull
    <2>2. b \in Messages /\ b.type = "remove"
      BY <2>1, MessageOf DEF Lost
    <2> HIDE DEF b
    <2>3. Brief(One(b)) /\ NoUpdates(One(b)) /\ Removals(One(b))
      BY <2>2, ShortSends
    <2> QED
      BY <2>1, <2>3
  <1> QED
    BY <1>1, <1>2, <1>3

\* What a change of the user does.
LEMMA AppliedTold ==
  ASSUME NEW l \in Lists, NEW m \in Messages
  PROVE  \E new \in Lists : \E sent : Told(m, l) = Result(new, sent) /\ Brief(sent)
  <1> DEFINE it == m.item
  <1>0. it \in Items
    BY AppliedCases
  <1>4. Brief(None) /\ Brief(One(m))
    BY ShortLists DEF Brief, None, One
  <1>1. CASE m.type = "add"
    BY <1>0, <1>1, AppliedCases, AddedTold
  <1>2. CASE m.type = "remove"
    <2>1. Told(m, l) = Removes(l, it) /\ m = Msg("remove", it)
      BY <1>2, AppliedCases
    <2> HIDE DEF it
    <2> QED
      BY <1>0, <1>4, <2>1, RemovedFacts
  <1>3. CASE m.type = "update"
    <2>1. Told(m, l) = Updates(l, it) /\ m = Msg("update", it)
      BY <1>3, AppliedCases
    <2> HIDE DEF it
    <2>2. CASE ~Has(l, it.uri)
      BY <1>0, <2>1, <2>2, UpdatedFacts, AddedTold
    <2>3. CASE Has(l, it.uri)
      BY <1>0, <1>4, <2>1, <2>3, UpdatedFacts, ReplacedIn
    <2> QED
      BY <2>2, <2>3
  <1> QED
    BY <1>1, <1>2, <1>3, AppliedCases

\* What a message does.
LEMMA AppliedHeard ==
  ASSUME NEW l \in Lists, NEW m \in Messages
  PROVE  \E new \in Lists : \E sent :
           /\ Heard(m, l) = Result(new, sent) /\ Brief(sent) /\ NoUpdates(sent)
           /\ m.type = "add" => Removals(sent)
           /\ m.type = "remove" => sent = None
  <1> DEFINE it == m.item
  <1>0. it \in Items
    BY AppliedCases
  <1>4. Brief(None) /\ NoUpdates(None)
    BY ShortLists DEF Brief, None, NoUpdates
  <1>1. CASE m.type = "add"
    BY <1>0, <1>1, AppliedCases, AddedHeard
  <1>2. CASE m.type = "remove"
    <2>1. Heard(m, l) = RemovesQuietly(l, it)
      BY <1>2, AppliedCases
    <2> HIDE DEF it
    <2> QED
      BY <1>0, <1>2, <1>4, <2>1, RemovedFacts
  <1>3. CASE m.type = "update"
    <2>1. Heard(m, l) = UpdatesQuietly(l, it)
      BY <1>3, AppliedCases
    <2> HIDE DEF it
    <2>2. CASE ~Has(l, it.uri)
      BY <1>0, <1>3, <2>1, <2>2, UpdatedFacts, AddedTold
    <2>3. CASE Has(l, it.uri)
      BY <1>0, <1>3, <1>4, <2>1, <2>3, UpdatedFacts, ReplacedIn
    <2> QED
      BY <2>2, <2>3
  <1> QED
    BY <1>1, <1>2, <1>3, AppliedCases

\* A change took the lists from old to new, by one of the messages M, perhaps by
\* way of mid when a removal in R, which M brings about, is there first.
Good(old, mid, new, M, R) ==
  /\ \A m \in M : \A l \in {old, mid} :
       \E sent : Heard(m, l) = Result(new, sent) /\ ToSet(sent) \subseteq R
  /\ \A m \in M \cup R : Heard(m, new) = Result(new, None)
  /\ \A m \in R : \A l \in {old, mid} : Heard(m, l) = Result(mid, None)

\* A change that sends nothing leaves the list alone.
LEMMA NothingSent ==
  ASSUME NEW l \in Lists, NEW m \in Messages, m.type = "remove" => m.item \in ToSet(l),
         Told(m, l).sent = None
  PROVE  Told(m, l) = Result(l, None)
  <1> DEFINE it == m.item
  <1>0. it \in Items /\ Msg("add", it) \in Messages
    BY AppliedCases, MessageOf
  <1>5. \A a, b : One(a) # None /\ Two(a, b) # None
    <2> SUFFICES ASSUME NEW a, NEW b PROVE One(a) # None /\ Two(a, b) # None
      OBVIOUS
    <2>1. Len(<<a>>) = 1 /\ Len(<<a, b>>) = 2 /\ Len(<<>>) = 0
      OBVIOUS
    <2> QED
      BY <2>1 DEF One, Two, None
  <1>1. ASSUME Adds(l, it).sent = None PROVE Adds(l, it) = Result(l, None)
    <2> HIDE DEF it
    <2>2. CASE ~First(l, it) /\ Fits(l, it)
      <3>1. Adds(l, it).sent = One(Msg("add", it))
        BY <1>0, <2>2, AddedFits, ResultFields
      <3> QED
        BY <1>1, <1>5, <3>1
    <2>3. CASE ~First(l, it) /\ ~Fits(l, it)
      <3>1. Adds(l, it).sent = Two(Msg("add", it), Lost(l))
        BY <1>0, <2>3, AddedFull, ResultFields
      <3> QED
        BY <1>1, <1>5, <3>1
    <2> QED
      BY <1>0, <2>2, <2>3, AddedFirst
  <1>2. CASE m.type = "add"
    <2>1. Told(m, l) = Adds(l, it)
      BY <1>2, AppliedCases
    <2> QED
      BY <1>1, <2>1
  <1>3. CASE m.type = "remove"
    <2>1. Has(l, it.uri)
      BY <1>3 DEF Has, ToSet
    <2>2. Told(m, l) = Result(Without(l, it.uri), One(Msg("remove", it)))
      BY <1>0, <1>3, <2>1, AppliedCases, RemovedFacts
    <2> HIDE DEF it
    <2> QED
      BY <1>5, <2>2, ResultFields
  <1>4. CASE m.type = "update"
    <2>1. Told(m, l) = Updates(l, it)
      BY <1>4, AppliedCases
    <2>2. CASE ~Has(l, it.uri)
      <3>1. Updates(l, it) = Adds(l, it)
        BY <1>0, <2>2, UpdatedFacts
      <3> QED
        BY <1>1, <2>1, <3>1
    <2>3. CASE Has(l, it.uri) /\ Holds(l, it)
      BY <1>0, <2>1, <2>3, UpdatedFacts
    <2>4. CASE Has(l, it.uri) /\ ~Holds(l, it)
      <3>1. Updates(l, it) = Result(Replaced(l, it), One(Msg("update", it)))
        BY <1>0, <2>4, UpdatedFacts
      <3> HIDE DEF it
      <3> QED
        BY <1>5, <2>1, <3>1, ResultFields
    <2> QED
      BY <2>2, <2>3, <2>4
  <1> QED
    BY <1>2, <1>3, <1>4, AppliedCases

\* An addition that the list takes, and what others make of it.
LEMMA AdditionGood ==
  ASSUME NEW l \in Lists, NEW it \in Items, ~First(l, it)
  PROVE  \E new, mid \in Lists : \E sent, R :
           /\ Adds(l, it) = Result(new, sent) /\ Brief(sent) /\ sent # None
           /\ ToSet(sent) = {sent[1]} \cup R /\ R \subseteq Messages /\ sent[1] \in Messages
           /\ Good(l, mid, new, {sent[1]}, R)
  <1> DEFINE a == Msg("add", it)
             b == Lost(l)
             c == Msg("remove", it)
  <1>0. /\ a \in Messages /\ a.type = "add" /\ a.item = it
        /\ c \in Messages /\ c.type = "remove"
    BY MessageOf
  <1> HIDE DEF a, b, c
  <1>1. \A k : Heard(a, k) = AddsQuietly(k, it)
    BY <1>0, AppliedCases
  <1>2. CASE Fits(l, it)
    <2> DEFINE new == InFront(l, it)
    <2>1. new \in Lists /\ Adds(l, it) = Result(new, One(a)) /\ AddsQuietly(l, it) = Result(new, None)
      BY <1>2, AddedFits DEF a
    <2>2. First(new, it)
      BY InFrontOf
    <2> HIDE DEF new
    <2>3. AddsQuietly(new, it) = Result(new, None)
      BY <2>1, <2>2, AddedFirst
    <2>4. Brief(One(a)) /\ One(a) # None /\ ToSet(One(a)) = {a} /\ One(a)[1] = a /\ ToSet(None) = {}
      BY <1>0, ShortSends
    <2>5. Good(l, l, new, {a}, {})
      BY <1>1, <2>1, <2>3, <2>4 DEF Good
    <2> QED
      BY <1>0, <2>1, <2>4, <2>5
  <1>3. CASE ~Fits(l, it)
    <2> DEFINE new == Rolled(l, it)
               mid == Front(l)
    <2>1. /\ new \in Lists /\ Adds(l, it) = Result(new, Two(a, b))
          /\ AddsQuietly(l, it) = Result(new, One(b))
      BY <1>3, FullList, AddedFull DEF a, b
    <2>2. /\ First(new, it) /\ ~Has(new, Last(l).uri) /\ mid \in Lists /\ ~Has(mid, it.uri)
          /\ ~Has(mid, Last(l).uri) /\ Last(l) \in Items /\ Has(l, Last(l).uri)
          /\ Without(l, Last(l).uri) = mid
      BY <1>3, FullList
    <2>3. AddsQuietly(mid, it) = Result(new, None)
      <3>1. ~First(mid, it)
        <4> SUFFICES ASSUME mid # <<>>, Head(mid) = it PROVE FALSE
          BY DEF First
        <4> HIDE DEF mid
        <4>1. 1 \in DOMAIN mid /\ Head(mid) = mid[1]
          BY <2>2, Listed, HeadTailProperties DEF Lists, Uniques
        <4> QED
          BY <2>2, <4>1 DEF Has
      <3>2. InFront(mid, it) = new
        BY <2>2, RemovedFacts DEF InFront, Rolled
      <3>3. Fits(mid, it)
        BY <2>1, <3>2 DEF Fits, Lists
      <3> HIDE DEF mid, new
      <3> QED
        BY <2>2, <3>1, <3>2, <3>3, AddedFits
    <2>4. b \in Messages /\ b.type = "remove" /\ b.item = Last(l)
      BY <2>2, MessageOf DEF b, Lost
    <2>5. \A k : Heard(b, k) = RemovesQuietly(k, Last(l))
      BY <2>4, AppliedCases
    <2>6. /\ RemovesQuietly(l, Last(l)) = Result(mid, None)
          /\ RemovesQuietly(mid, Last(l)) = Result(mid, None)
          /\ RemovesQuietly(new, Last(l)) = Result(new, None)
      <3> DEFINE z == Last(l)
      <3> HIDE DEF mid, new, z
      <3>1. z \in Items /\ Without(l, z.uri) = mid /\ ~Has(mid, z.uri) /\ ~Has(new, z.uri) /\ Has(l, z.uri)
        BY <2>2 DEF z
      <3>2. /\ RemovesQuietly(l, z) = Result(mid, None)
            /\ RemovesQuietly(mid, z) = Result(mid, None)
            /\ RemovesQuietly(new, z) = Result(new, None)
        BY <2>1, <2>2, <3>1, RemovedFacts
      <3> QED
        BY <3>2 DEF z
    <2> HIDE DEF new, mid
    <2>7. AddsQuietly(new, it) = Result(new, None)
      BY <2>1, <2>2, AddedFirst
    <2>8. /\ Brief(Two(a, b)) /\ Two(a, b) # None /\ ToSet(Two(a, b)) = {a, b} /\ Two(a, b)[1] = a
          /\ ToSet(None) = {} /\ ToSet(One(b)) = {b}
      BY <1>0, <2>4, ShortSends
    <2>9. Good(l, mid, new, {a}, {b})
      BY <1>1, <2>1, <2>3, <2>5, <2>6, <2>7, <2>8 DEF Good
    <2> QED
      BY <1>0, <2>1, <2>2, <2>4, <2>8, <2>9
  <1> QED
    BY <1>2, <1>3

\* A change that sends something, and what others make of it.
LEMMA ChangeGood ==
  ASSUME NEW l \in Lists, NEW m \in Messages, m.type = "remove" => m.item \in ToSet(l),
         Told(m, l).sent # None
  PROVE  \E new, mid \in Lists : \E sent, R :
           /\ Told(m, l) = Result(new, sent) /\ Brief(sent) /\ sent # None
           /\ ToSet(sent) = {sent[1]} \cup R /\ R \subseteq Messages /\ sent[1] \in Messages
           /\ Good(l, mid, new, {sent[1]}, R)
  <1> DEFINE it == m.item
  <1>0. it \in Items /\ Msg("add", it) \in Messages
    BY AppliedCases, MessageOf
  <1>1. ASSUME Told(m, l) = Adds(l, it)
        PROVE  \E new, mid \in Lists : \E sent, R :
                 /\ Told(m, l) = Result(new, sent) /\ Brief(sent) /\ sent # None
                 /\ ToSet(sent) = {sent[1]} \cup R /\ R \subseteq Messages /\ sent[1] \in Messages
                 /\ Good(l, mid, new, {sent[1]}, R)
    <2> HIDE DEF it
    <2>1. ~First(l, it)
      BY <1>0, <1>1, AddedFirst, ResultFields
    <2> QED
      BY <1>0, <1>1, <2>1, AdditionGood
  <1>2. CASE m.type = "add"
    BY <1>1, <1>2, AppliedCases
  <1>5. ASSUME NEW new \in Lists, Told(m, l) = Result(new, One(m)), Good(l, l, new, {m}, {})
        PROVE  \E new1, mid \in Lists : \E sent, R :
                 /\ Told(m, l) = Result(new1, sent) /\ Brief(sent) /\ sent # None
                 /\ ToSet(sent) = {sent[1]} \cup R /\ R \subseteq Messages /\ sent[1] \in Messages
                 /\ Good(l, mid, new1, {sent[1]}, R)
    <2>1. One(m) # None /\ ToSet(One(m)) = {m} /\ One(m)[1] = m /\ Brief(One(m))
      BY ShortLists DEF One, None, Brief
    <2> QED
      BY <1>5, <2>1
  <1>6. ToSet(None) = {}
    BY <1>0, ShortLists DEF None
  <1>3. CASE m.type = "remove"
    <2>1. Has(l, it.uri)
      BY <1>3 DEF Has, ToSet
    <2> DEFINE new == Without(l, it.uri)
    <2>2. m = Msg("remove", it) /\ Told(m, l) = Removes(l, it) /\ \A k : Heard(m, k) = RemovesQuietly(k, it)
      BY <1>3, AppliedCases
    <2> HIDE DEF it
    <2>3. new \in Lists /\ Told(m, l) = Result(new, One(m)) /\ Heard(m, l) = Result(new, None)
          /\ ~Has(new, it.uri)
      BY <1>0, <2>1, <2>2, RemovedFacts
    <2> HIDE DEF new
    <2>4. Heard(m, new) = Result(new, None)
      BY <1>0, <2>2, <2>3, RemovedFacts
    <2>5. Good(l, l, new, {m}, {})
      BY <1>6, <2>3, <2>4 DEF Good
    <2> QED
      BY <1>5, <2>3, <2>5
  <1>4. CASE m.type = "update"
    <2>1. m = Msg("update", it) /\ Told(m, l) = Updates(l, it) /\ \A k : Heard(m, k) = UpdatesQuietly(k, it)
      BY <1>4, AppliedCases
    <2>2. CASE ~Has(l, it.uri)
      BY <1>0, <1>1, <2>1, <2>2, UpdatedFacts
    <2>3. CASE Has(l, it.uri) /\ Holds(l, it)
      BY <1>0, <2>1, <2>3, UpdatedFacts, ResultFields
    <2>4. CASE Has(l, it.uri) /\ ~Holds(l, it)
      <3> DEFINE new == Replaced(l, it)
      <3> HIDE DEF it
      <3>1. new \in Lists /\ Told(m, l) = Result(new, One(m)) /\ Heard(m, l) = Result(new, None)
            /\ Has(new, it.uri) /\ Holds(new, it)
        BY <1>0, <2>1, <2>4, UpdatedFacts, ReplacedIn
      <3> HIDE DEF new
      <3>2. Heard(m, new) = Result(new, None)
        BY <1>0, <2>1, <3>1, UpdatedFacts
      <3>3. Good(l, l, new, {m}, {})
        BY <1>6, <3>1, <3>2 DEF Good
      <3> QED
        BY <1>5, <3>1, <3>3
    <2> QED
      BY <2>2, <2>3, <2>4
  <1> QED
    BY <1>2, <1>3, <1>4, AppliedCases

-----------------------------------------------------------------------------
(***************************************************************************)
(* Queues and messages: types, and where packets come from.                *)
(***************************************************************************)

\* What a socket holds.
Packets == [from : Procs, stamp : Nat, msg : Messages]

\* What the sockets of p hold, when they hold q.
Waiting(q, p) == ToSet(q[p][p]) \cup ToSet(q[p][Main])

\* A packet queue for each socket of each instance.
Queues(q) ==
  /\ q = [p \in Procs |-> [n \in {p, Main} |-> q[p][n]]]
  /\ \A p \in Procs : \A n \in {p, Main} : q[p][n] \in Seq(Packets)

\* The types.
Typed ==
  /\ stamp \in [Procs -> Nat] /\ seen \in [Procs -> [Procs -> Nat]]
  /\ Queues(queue)
  /\ list \in [Procs -> Lists] /\ file \in Lists
  /\ loaded \subseteq Procs /\ pending \subseteq Procs
  /\ changes \in Nat

\* The packets that carry msgs.
Stamped(p, msgs) ==
  [i \in DOMAIN msgs |-> [from |-> p, stamp |-> stamp[p] + i, msg |-> msgs[i]]]

\* The packets are numbered on from stamp[p].
LEMMA StampedFacts ==
  ASSUME NEW p \in Procs, stamp \in [Procs -> Nat], NEW msgs, Brief(msgs)
  PROVE  /\ Len(msgs) \in 0 .. 2 /\ DOMAIN msgs = 1 .. Len(msgs)
         /\ Stamped(p, msgs) \in Seq(Packets) /\ Len(Stamped(p, msgs)) = Len(msgs)
         /\ \A i \in 1 .. Len(msgs) : /\ msgs[i] \in Messages
                                      /\ Stamped(p, msgs)[i].from = p
                                      /\ Stamped(p, msgs)[i].stamp = stamp[p] + i
                                      /\ Stamped(p, msgs)[i].msg = msgs[i]
  <1> DEFINE s == Stamped(p, msgs)
  <1>1. /\ Len(msgs) \in Nat /\ Len(msgs) <= 2 /\ DOMAIN msgs = 1 .. Len(msgs)
        /\ \A i \in 1 .. Len(msgs) : msgs[i] \in Messages
    BY Listed DEF Brief
  <1>2. s \in [1 .. Len(msgs) -> Packets]
    BY <1>1 DEF Stamped, Packets
  <1>3. s \in Seq(Packets) /\ Len(s) = Len(msgs)
    BY <1>1, <1>2, IsASeq, Listed
  <1> QED
    BY <1>1, <1>3 DEF Stamped

\* Two queues, one behind the other.
LEMMA Joined ==
  ASSUME NEW S, NEW s \in Seq(S), NEW t \in Seq(S)
  PROVE  /\ s \o t \in Seq(S) /\ Len(s \o t) = Len(s) + Len(t)
         /\ DOMAIN (s \o t) = 1 .. Len(s) + Len(t)
         /\ \A i \in 1 .. Len(s) + Len(t) : (s \o t)[i] = IF i <= Len(s) THEN s[i] ELSE t[i - Len(s)]
         /\ ToSet(s \o t) = ToSet(s) \cup ToSet(t)
  <1> DEFINE u == s \o t
  <1>1. /\ u \in Seq(S) /\ Len(u) = Len(s) + Len(t)
        /\ \A i \in 1 .. Len(s) + Len(t) : u[i] = IF i <= Len(s) THEN s[i] ELSE t[i - Len(s)]
    BY ConcatProperties
  <1>2. /\ Len(s) \in Nat /\ DOMAIN s = 1 .. Len(s)
        /\ Len(t) \in Nat /\ DOMAIN t = 1 .. Len(t)
    BY Listed
  <1> HIDE DEF u
  <1>3. DOMAIN u = 1 .. Len(s) + Len(t)
    BY <1>1, Listed
  <1>4. ASSUME NEW i \in DOMAIN s PROVE s[i] \in ToSet(u)
    BY <1>1, <1>2, <1>3 DEF ToSet
  <1>5. ASSUME NEW i \in DOMAIN t PROVE t[i] \in ToSet(u)
    <2>1. Len(s) + i \in DOMAIN u /\ ~(Len(s) + i <= Len(s)) /\ (Len(s) + i) - Len(s) = i
      BY <1>2, <1>3
    <2>2. u[Len(s) + i] = t[i]
      BY <1>1, <1>3, <2>1
    <2> QED
      BY <2>1, <2>2 DEF ToSet
  <1>6. ASSUME NEW i \in DOMAIN u PROVE u[i] \in ToSet(s) \cup ToSet(t)
    <2>1. CASE i <= Len(s)
      BY <1>1, <1>2, <1>3, <2>1 DEF ToSet
    <2>2. CASE ~(i <= Len(s))
      <3>1. i - Len(s) \in DOMAIN t
        BY <1>2, <1>3, <2>2
      <3> QED
        BY <1>1, <1>3, <2>2, <3>1 DEF ToSet
    <2> QED
      BY <2>1, <2>2
  <1>7. ToSet(u) = ToSet(s) \cup ToSet(t)
    <2>1. \A x : x \in ToSet(u) <=> \E i \in DOMAIN u : x = u[i]
      BY DEF ToSet
    <2>2. \A x : x \in ToSet(s) <=> \E i \in DOMAIN s : x = s[i]
      BY DEF ToSet
    <2>3. \A x : x \in ToSet(t) <=> \E i \in DOMAIN t : x = t[i]
      BY DEF ToSet
    <2> QED
      BY <1>4, <1>5, <1>6, <2>1, <2>2, <2>3
  <1> QED
    BY <1>1, <1>3, <1>7 DEF u

\* What a broadcast does to the queues: nothing, or the packets come behind the
\* rest, at sockets that others than p listen at.
Sends(p, msgs, w) ==
  /\ stamp' = [stamp EXCEPT ![p] = @ + Len(msgs)] /\ stamp' \in [Procs -> Nat]
  /\ Queues(queue')
  /\ \A q \in Procs : \A n \in {q, Main} :
       \/ queue'[q][n] = w[q][n]
       \/ /\ queue'[q][n] = w[q][n] \o Stamped(p, msgs)
          /\ q # p /\ n \in sockets[q]
  /\ \A q \in Procs \ {p} : owner[q] = q /\ q \in sockets[q] =>
       queue'[q][q] = w[q][q] \o Stamped(p, msgs)
  /\ msgs = None => queue' = w

\* A broadcast does that.
LEMMA BroadcastSends ==
  ASSUME Answers, NEW p \in Procs, stamp \in [Procs -> Nat], NEW msgs, Brief(msgs), NEW w, Queues(w),
         Broadcast(p, msgs, w)
  PROVE  Sends(p, msgs, w)
  <1> DEFINE others == {n \in Names : owner[n] # Nobody /\ n \notin sockets[p]}
             dead == {n \in others : ~Reaches(n)}
             s == Stamped(p, msgs)
  <1>1. /\ Len(msgs) \in 0 .. 2 /\ s \in Seq(Packets) /\ Len(s) = Len(msgs)
    BY StampedFacts
  <1>2. stamp' = [stamp EXCEPT ![p] = @ + Len(msgs)]
    BY DEF Broadcast
  <1>3. queue' = [q \in Procs |-> [n \in {q, Main} |->
                    IF n \in others \ dead /\ owner[n] = q THEN w[q][n] \o s ELSE w[q][n]]]
    BY DEF Broadcast, Stamped
  <1>4. stamp' \in [Procs -> Nat]
    <2>1. stamp[p] + Len(msgs) \in Nat
      BY <1>1
    <2> QED
      BY <1>2, <2>1
  <1> HIDE DEF s
  <1>5. ASSUME NEW q \in Procs, NEW n \in {q, Main}
        PROVE  /\ w[q][n] \in Seq(Packets) /\ w[q][n] \o s \in Seq(Packets)
               /\ queue'[q][n] = IF n \in others \ dead /\ owner[n] = q THEN w[q][n] \o s ELSE w[q][n]
    BY <1>1, <1>3, Joined DEF Queues
  <1>6. ASSUME NEW q \in Procs, NEW n \in {q, Main}, n \in others \ dead, owner[n] = q
        PROVE  q # p /\ n \in sockets[q]
    BY <1>6 DEF Reaches
  <1>7. ASSUME NEW q \in Procs \ {p}, owner[q] = q, q \in sockets[q]
        PROVE  queue'[q][q] = w[q][q] \o s
    <2>1. q \in others \ dead
      BY RecentFilesAssumption, <1>7 DEF RecentFilesAssumption, Reaches, Answers, Names
    <2> QED
      BY <1>5, <1>7, <2>1
  <1>8. Queues(queue')
    <2>1. queue' = [q \in Procs |-> [n \in {q, Main} |-> queue'[q][n]]]
      BY <1>3, Zenon
    <2> HIDE DEF others, dead
    <2>2. \A q \in Procs : \A n \in {q, Main} : queue'[q][n] \in Seq(Packets)
      BY <1>5
    <2> QED
      BY <2>1, <2>2 DEF Queues
  <1>9. ASSUME msgs = None PROVE queue' = w
    <2>1. Len(s) = 0
      BY <1>1, <1>9 DEF None
    <2>2. s = <<>>
      BY <1>1, <2>1, Listed
    <2>3. \A q \in Procs : \A n \in {q, Main} : queue'[q][n] = w[q][n]
      <3> SUFFICES ASSUME NEW q \in Procs, NEW n \in {q, Main} PROVE queue'[q][n] = w[q][n]
        OBVIOUS
      <3>1. w[q][n] \o s = w[q][n]
        BY <1>5, <2>2, ConcatEmptySeq
      <3> QED
        BY <1>5, <3>1
    <2>4. w = [q \in Procs |-> [n \in {q, Main} |-> w[q][n]]]
      BY DEF Queues
    <2>5. queue' = [q \in Procs |-> [n \in {q, Main} |-> queue'[q][n]]]
      BY <1>8 DEF Queues
    <2> QED
      BY <2>3, <2>4, <2>5
  <1> QED
    BY <1>2, <1>4, <1>5, <1>6, <1>7, <1>8, <1>9 DEF s, Sends

\* The list an instance works on.
LEMMA LoadedList ==
  ASSUME Typed, NEW p \in Procs
  PROVE  Loaded(p) \in Lists
  BY DEF Typed, Loaded

\* The effect of a change on the lists, when it sends what it says.
Changed(p, new, sent) ==
  /\ list' = [list EXCEPT ![p] = new]
  /\ loaded' = loaded \cup {p}
  /\ pending' = IF sent = None THEN pending ELSE pending \cup {p}
  /\ file' = file

\* Change has that effect.
LEMMA ChangeIs ==
  ASSUME NEW p, NEW new, NEW sent, Change(p, Result(new, sent))
  PROVE  Changed(p, new, sent)
  BY DEF Change, Changed, Result, None

\* A change of the user, in these terms.
LEMMA UserChangeIs ==
  ASSUME Typed, NEW p \in Procs, UserChange(p)
  PROVE  /\ UNCHANGED <<at, sockets, seen>> /\ changes' = changes + 1
         /\ \E m \in Messages, new \in Lists : \E sent :
              /\ m.type = "remove" => m.item \in ToSet(Loaded(p))
              /\ Told(m, Loaded(p)) = Result(new, sent) /\ Brief(sent)
              /\ Changed(p, new, sent)
              /\ Broadcast(p, sent, queue)
  <1>1. PICK m \in Messages :
          /\ m.type = "remove" => m.item \in ToSet(Loaded(p))
          /\ Change(p, Told(m, Loaded(p)))
          /\ Broadcast(p, Told(m, Loaded(p)).sent, queue)
    BY DEF UserChange, Messages, Told
  <1>2. PICK new, sent : new \in Lists /\ Told(m, Loaded(p)) = Result(new, sent) /\ Brief(sent)
    BY LoadedList, AppliedTold
  <1>3. Changed(p, new, sent) /\ Broadcast(p, sent, queue)
    BY <1>1, <1>2, ChangeIs, ResultFields
  <1> QED
    BY <1>1, <1>2, <1>3 DEF UserChange

\* The first packet of a socket is taken, and w is left.
Takes(p, n, packet, w) ==
  /\ queue[p][n] # <<>> /\ packet = Head(queue[p][n])
  /\ w = [queue EXCEPT ![p][n] = Tail(@)]

\* It is a new message, which changes the list.
Heeds(p, packet, w) ==
  /\ packet.stamp > seen[p][packet.from]
  /\ seen' = [seen EXCEPT ![p][packet.from] = packet.stamp]
  /\ \E new \in Lists : \E sent :
       /\ Heard(packet.msg, Loaded(p)) = Result(new, sent)
       /\ Brief(sent) /\ NoUpdates(sent)
       /\ packet.msg.type = "add" => Removals(sent)
       /\ packet.msg.type = "remove" => sent = None
       /\ Changed(p, new, sent)
       /\ Broadcast(p, sent, w)

\* It is an old one.
Ignores(p, packet, w) ==
  /\ ~(packet.stamp > seen[p][packet.from])
  /\ queue' = w
  /\ UNCHANGED <<stamp, seen, sharedVars, list, loaded, pending, file>>

\* What is left in the queues when a packet is taken.
LEMMA HeadTaken ==
  ASSUME Queues(queue), NEW p \in Procs, NEW n \in {p, Main}, NEW packet, NEW w,
         Takes(p, n, packet, w)
  PROVE  /\ Queues(w) /\ packet \in Packets /\ packet \in Waiting(queue, p)
         /\ Len(queue[p][n]) \in Nat \ {0} /\ packet = queue[p][n][1]
         /\ Len(w[p][n]) = Len(queue[p][n]) - 1
         /\ DOMAIN queue[p][n] = 1 .. Len(queue[p][n]) /\ DOMAIN w[p][n] = 1 .. Len(w[p][n])
         /\ \A i \in 1 .. Len(w[p][n]) : w[p][n][i] = queue[p][n][i + 1]
         /\ \A p1 \in Procs : \A n1 \in {p1, Main} : p1 # p \/ n1 # n => w[p1][n1] = queue[p1][n1]
         /\ \A p1 \in Procs : Waiting(w, p1) \subseteq Waiting(queue, p1)
  <1> DEFINE q == queue
  <1>0. q[p][n] # <<>> /\ packet = Head(q[p][n]) /\ w = [q EXCEPT ![p][n] = Tail(@)] /\ Queues(q)
    BY DEF Takes
  <1> HIDE DEF q
  <1>1. q = [p1 \in Procs |-> [n1 \in {p1, Main} |-> q[p1][n1]]]
    BY <1>0 DEF Queues
  <1>2. q[p] = [n1 \in {p, Main} |-> q[p][n1]]
    BY <1>1, Zenon
  <1>3. w[p] = [n1 \in {p, Main} |-> IF n1 = n THEN Tail(q[p][n]) ELSE q[p][n1]]
    BY <1>0, <1>1, <1>2
  <1>4. \A p1 \in Procs : p1 # p => w[p1] = q[p1]
    BY <1>0, <1>1
  <1>5. w = [p1 \in Procs |-> w[p1]]
    BY <1>0, <1>1
  <1>6. /\ w[p][n] = Tail(q[p][n])
        /\ \A p1 \in Procs : \A n1 \in {p1, Main} : p1 # p \/ n1 # n => w[p1][n1] = q[p1][n1]
    BY <1>3, <1>4
  <1>7. q[p][n] \in Seq(Packets)
    BY <1>0 DEF Queues
  <1>8. /\ Head(q[p][n]) = q[p][n][1] /\ Head(q[p][n]) \in Packets /\ Tail(q[p][n]) \in Seq(Packets)
        /\ Len(Tail(q[p][n])) = Len(q[p][n]) - 1
        /\ \A i \in 1 .. Len(Tail(q[p][n])) : Tail(q[p][n])[i] = q[p][n][i + 1]
    BY <1>0, <1>7, HeadTailProperties
  <1>9. /\ Len(q[p][n]) \in Nat \ {0} /\ DOMAIN q[p][n] = 1 .. Len(q[p][n])
        /\ DOMAIN Tail(q[p][n]) = 1 .. Len(Tail(q[p][n]))
    BY <1>0, <1>7, <1>8, Listed
  <1>10. Queues(w)
    <2>1. \A p1 \in Procs : w[p1] = [n1 \in {p1, Main} |-> w[p1][n1]]
      <3> SUFFICES ASSUME NEW p1 \in Procs PROVE w[p1] = [n1 \in {p1, Main} |-> w[p1][n1]]
        OBVIOUS
      <3>1. CASE p1 = p
        BY <1>3, <3>1
      <3>2. CASE p1 # p
        <4>1. q[p1] = [n1 \in {p1, Main} |-> q[p1][n1]]
          BY <1>1, Zenon
        <4> QED
          BY <1>4, <3>2, <4>1
      <3> QED
        BY <3>1, <3>2
    <2>2. w = [p1 \in Procs |-> [n1 \in {p1, Main} |-> w[p1][n1]]]
      BY <1>5, <2>1
    <2>3. \A p1 \in Procs : \A n1 \in {p1, Main} : w[p1][n1] \in Seq(Packets)
      BY <1>0, <1>6, <1>8 DEF Queues
    <2> QED
      BY <2>2, <2>3 DEF Queues
  <1>11. Head(q[p][n]) \in ToSet(q[p][n])
    BY <1>8, <1>9 DEF ToSet
  <1>12. ToSet(w[p][n]) \subseteq ToSet(q[p][n])
    <2> SUFFICES ASSUME NEW i \in 1 .. Len(Tail(q[p][n])) PROVE Tail(q[p][n])[i] \in ToSet(q[p][n])
      BY <1>6, <1>9 DEF ToSet
    <2>1. i + 1 \in DOMAIN q[p][n] /\ Tail(q[p][n])[i] = q[p][n][i + 1]
      BY <1>8, <1>9
    <2> QED
      BY <2>1 DEF ToSet
  <1>13. \A p1 \in Procs : Waiting(w, p1) \subseteq Waiting(q, p1)
    BY <1>6, <1>12 DEF Waiting
  <1> QED
    BY <1>0, <1>6, <1>8, <1>9, <1>10, <1>11, <1>13 DEF Waiting, q

\* A receipt, in these terms.
LEMMA ReceiveIs ==
  ASSUME Typed, NEW p \in Procs, Receive(p)
  PROVE  /\ UNCHANGED <<at, sockets, changes, disturbed>> /\ at[p] = "running"
         /\ \E n \in {p, Main}, packet \in Packets : \E w :
              Takes(p, n, packet, w) /\ (Heeds(p, packet, w) \/ Ignores(p, packet, w))
  <1>1. DOMAIN queue[p] = {p, Main} /\ Queues(queue)
    <2>1. queue[p] = [n1 \in {p, Main} |-> queue[p][n1]]
      BY DEF Typed, Queues
    <2> QED
      BY <2>1 DEF Typed
  <1>2. PICK n \in {p, Main} :
          /\ queue[p][n] # <<>>
          /\ LET packet == Head(queue[p][n])
                 result == Heard(packet.msg, Loaded(p))
                 rest == [queue EXCEPT ![p][n] = Tail(@)]
             IN  IF packet.stamp > seen[p][packet.from]
                 THEN /\ seen' = [seen EXCEPT ![p][packet.from] = packet.stamp]
                      /\ Change(p, result)
                      /\ Broadcast(p, result.sent, rest)
                 ELSE /\ queue' = rest
                      /\ UNCHANGED <<stamp, seen, sharedVars, list, loaded, pending, file>>
    BY <1>1 DEF Receive, IsNew, Heard
  <1> DEFINE packet == Head(queue[p][n])
             w == [queue EXCEPT ![p][n] = Tail(@)]
  <1>3. Takes(p, n, packet, w)
    BY <1>2 DEF Takes
  <1>4. \/ /\ packet.stamp > seen[p][packet.from]
           /\ seen' = [seen EXCEPT ![p][packet.from] = packet.stamp]
           /\ Change(p, Heard(packet.msg, Loaded(p)))
           /\ Broadcast(p, Heard(packet.msg, Loaded(p)).sent, w)
        \/ Ignores(p, packet, w)
    BY <1>2 DEF Ignores
  <1> HIDE DEF packet, w
  <1>5. packet \in Packets /\ packet.msg \in Messages
    BY <1>1, <1>3, HeadTaken DEF Packets
  <1>6. PICK new, sent :
          /\ new \in Lists
          /\ Heard(packet.msg, Loaded(p)) = Result(new, sent) /\ Brief(sent) /\ NoUpdates(sent)
          /\ packet.msg.type = "add" => Removals(sent)
          /\ packet.msg.type = "remove" => sent = None
    BY <1>5, LoadedList, AppliedHeard
  <1>7. ASSUME /\ packet.stamp > seen[p][packet.from]
               /\ seen' = [seen EXCEPT ![p][packet.from] = packet.stamp]
               /\ Change(p, Heard(packet.msg, Loaded(p)))
               /\ Broadcast(p, Heard(packet.msg, Loaded(p)).sent, w)
        PROVE  Heeds(p, packet, w)
    <2>1. Changed(p, new, sent) /\ Broadcast(p, sent, w)
      BY <1>6, <1>7, ChangeIs, ResultFields
    <2> QED
      BY <1>6, <1>7, <2>1 DEF Heeds
  <1>8. UNCHANGED <<at, sockets, changes, disturbed>> /\ at[p] = "running"
    BY DEF Receive
  <1> QED
    BY <1>3, <1>4, <1>5, <1>7, <1>8

\* Messages come from others that sent them, to instances that have started.
Posted ==
  /\ \A p \in Procs : \A pk \in Waiting(queue, p) :
       pk \in Packets /\ pk.from # p /\ pk.stamp \in 1 .. stamp[pk.from]
  /\ \A p, q \in Procs : seen[p][q] <= stamp[q]
  /\ \A p \in Procs : at[p] = "off" => sockets[p] = {}

\* What a broadcast brings to an instance.
LEMMA SendsWaiting ==
  ASSUME NEW p \in Procs, stamp \in [Procs -> Nat], NEW msgs, Brief(msgs), NEW w, Queues(w),
         Sends(p, msgs, w), NEW q \in Procs, NEW pk \in Waiting(queue', q)
  PROVE  \/ pk \in Waiting(w, q)
         \/ /\ q # p /\ sockets[q] # {} /\ pk \in Packets
            /\ \E i \in 1 .. Len(msgs) : pk.from = p /\ pk.stamp = stamp[p] + i /\ pk.msg = msgs[i]
  <1> DEFINE s == Stamped(p, msgs)
  <1>1. PICK n \in {q, Main} : pk \in ToSet(queue'[q][n])
    BY DEF Waiting
  <1>2. /\ s \in Seq(Packets) /\ Len(s) = Len(msgs)
        /\ \A i \in 1 .. Len(msgs) : s[i].from = p /\ s[i].stamp = stamp[p] + i /\ s[i].msg = msgs[i]
    BY StampedFacts
  <1>3. w[q][n] \in Seq(Packets)
    BY DEF Queues
  <1>4. \/ queue'[q][n] = w[q][n]
        \/ queue'[q][n] = w[q][n] \o s /\ q # p /\ n \in sockets[q]
    BY DEF Sends
  <1> HIDE DEF s
  <1>5. CASE queue'[q][n] = w[q][n]
    BY <1>1, <1>5 DEF Waiting
  <1>6. CASE queue'[q][n] = w[q][n] \o s /\ q # p /\ n \in sockets[q]
    <2>1. pk \in ToSet(w[q][n]) \cup ToSet(s)
      BY <1>1, <1>2, <1>3, <1>6, Joined
    <2>2. CASE pk \in ToSet(w[q][n])
      BY <2>2 DEF Waiting
    <2>3. CASE pk \in ToSet(s)
      <3>1. PICK i \in DOMAIN s : pk = s[i]
        BY <2>3 DEF ToSet
      <3>2. i \in 1 .. Len(msgs) /\ pk \in Packets
        BY <1>2, <3>1, Listed
      <3> QED
        BY <1>2, <1>6, <3>1, <3>2
    <2> QED
      BY <2>1, <2>2, <2>3
  <1> QED
    BY <1>4, <1>5, <1>6

\* What else the actions do.
LEMMA QuietPosts ==
  ASSUME Typed, Posted, UNCHANGED <<ipcVars, listVars>>,
         \A q \in Procs : at'[q] = "off" => at[q] = "off" /\ sockets'[q] = sockets[q]
  PROVE  Typed' /\ Posted'
  <1>1. UNCHANGED <<queue, stamp, seen, list, loaded, pending, file, changes>>
    BY DEF ipcVars, listVars
  <1>2. Typed'
    BY <1>1 DEF Typed, Queues
  <1>3. \A p \in Procs : Waiting(queue', p) = Waiting(queue, p)
    BY <1>1
  <1>4. Posted'
    BY <1>1, <1>3 DEF Posted
  <1> QED
    BY <1>2, <1>4

\* Packets stay sound when some are sent.
LEMMA SendsSound ==
  ASSUME NEW p \in Procs, stamp \in [Procs -> Nat], NEW msgs, Brief(msgs), NEW w, Queues(w),
         Sends(p, msgs, w), NEW q \in Procs,
         \A pk \in Waiting(w, q) : pk \in Packets /\ pk.from # q /\ pk.stamp \in 1 .. stamp[pk.from]
  PROVE  \A pk \in Waiting(queue', q) :
           pk \in Packets /\ pk.from # q /\ pk.stamp \in 1 .. stamp'[pk.from]
  <1> SUFFICES ASSUME NEW pk \in Waiting(queue', q)
               PROVE  pk \in Packets /\ pk.from # q /\ pk.stamp \in 1 .. stamp'[pk.from]
    OBVIOUS
  <1>1. Len(msgs) \in 0 .. 2 /\ stamp' = [stamp EXCEPT ![p] = @ + Len(msgs)]
    BY StampedFacts DEF Sends
  <1>2. \A o \in Procs : stamp[o] \in Nat /\ stamp'[o] \in Nat /\ stamp[o] <= stamp'[o]
    BY <1>1
  <1>3. CASE pk \in Waiting(w, q)
    <2>1. pk \in Packets /\ pk.from # q /\ pk.stamp \in 1 .. stamp[pk.from] /\ pk.from \in Procs
      BY <1>3 DEF Packets
    <2> QED
      BY <1>2, <2>1
  <1>4. CASE ~(pk \in Waiting(w, q))
    <2>1. /\ q # p /\ pk \in Packets
          /\ \E i \in 1 .. Len(msgs) : pk.from = p /\ pk.stamp = stamp[p] + i
      BY <1>4, SendsWaiting
    <2> QED
      BY <1>1, <1>2, <2>1
  <1> QED
    BY <1>3, <1>4

\* A broadcast with the change of the list it comes from.
LEMMA SendingPosts ==
  ASSUME Typed, Posted, NEW p \in Procs, NEW new \in Lists, NEW sent, Brief(sent),
         Changed(p, new, sent), NEW w, Queues(w),
         \A q \in Procs : Waiting(w, q) \subseteq Waiting(queue, q),
         Sends(p, sent, w), UNCHANGED <<at, sockets>>, changes' \in Nat,
         seen' \in [Procs -> [Procs -> Nat]],
         \A q, o \in Procs : seen'[q][o] <= stamp[o]
  PROVE  Typed' /\ Posted'
  <1>0. stamp \in [Procs -> Nat]
    BY DEF Typed
  <1>1. /\ stamp \in [Procs -> Nat] /\ Len(sent) \in 0 .. 2
        /\ stamp' = [stamp EXCEPT ![p] = @ + Len(sent)] /\ stamp' \in [Procs -> Nat]
        /\ Queues(queue')
    BY StampedFacts DEF Typed, Sends
  <1>2. /\ list' \in [Procs -> Lists] /\ loaded' \subseteq Procs /\ pending' \subseteq Procs
        /\ file' \in Lists
    BY DEF Typed, Changed
  <1>3. Typed'
    BY <1>1, <1>2 DEF Typed
  <1>4. \A o \in Procs : stamp[o] \in Nat /\ stamp'[o] \in Nat /\ stamp[o] <= stamp'[o]
    BY <1>1
  <1>5. \A q \in Procs : \A pk \in Waiting(queue', q) :
          pk \in Packets /\ pk.from # q /\ pk.stamp \in 1 .. stamp'[pk.from]
    <2>1. \A q \in Procs : \A pk \in Waiting(w, q) :
            pk \in Packets /\ pk.from # q /\ pk.stamp \in 1 .. stamp[pk.from]
      BY DEF Posted
    <2> QED
      BY <1>0, <2>1, SendsSound
  <1>6. \A q, o \in Procs : seen'[q][o] <= stamp'[o]
    BY <1>4
  <1>7. Posted'
    BY <1>5, <1>6 DEF Posted
  <1> QED
    BY <1>3, <1>7

\* An instance that goes leaves the queues of the others alone.
LEMMA LeavingPosts ==
  ASSUME Typed, Posted, NEW p \in Procs, Forgotten(p), UNCHANGED <<stamp, file, changes>>,
         pending' \subseteq pending, at'[p] # "off", \A q \in Procs : q # p => at'[q] = at[q]
  PROVE  /\ Typed' /\ Posted'
         /\ Waiting(queue', p) = {}
         /\ \A q \in Procs : q # p => /\ \A n \in {q, Main} : queue'[q][n] = queue[q][n]
                                      /\ Waiting(queue', q) = Waiting(queue, q)
                                      /\ seen'[q] = seen[q]
  <1>1. queue' = [queue EXCEPT ![p] = [n \in {p, Main} |-> <<>>]]
    BY DEF Forgotten
  <1>2. queue = [q \in Procs |-> [n \in {q, Main} |-> queue[q][n]]]
    BY DEF Typed, Queues
  <1>3. queue'[p] = [n \in {p, Main} |-> <<>>]
    BY <1>1, <1>2
  <1>4. \A q \in Procs : q # p => queue'[q] = queue[q]
    BY <1>1, <1>2
  <1>5. queue'[p][p] = <<>> /\ queue'[p][Main] = <<>>
    BY <1>3
  <1>6. \A q \in Procs : queue'[q] = [n \in {q, Main} |-> queue'[q][n]]
    <2> SUFFICES ASSUME NEW q \in Procs PROVE queue'[q] = [n \in {q, Main} |-> queue'[q][n]]
      OBVIOUS
    <2>1. CASE q = p
      BY <1>3, <2>1
    <2>2. CASE q # p
      <3>1. queue[q] = [n \in {q, Main} |-> queue[q][n]]
        BY <1>2, Zenon
      <3> QED
        BY <1>4, <2>2, <3>1
    <2> QED
      BY <2>1, <2>2
  <1>7. Queues(queue')
    <2>1. queue' = [q \in Procs |-> queue'[q]]
      BY <1>1, <1>2
    <2>2. queue' = [q \in Procs |-> [n \in {q, Main} |-> queue'[q][n]]]
      BY <1>6, <2>1
    <2>3. \A q \in Procs : \A n \in {q, Main} : queue'[q][n] \in Seq(Packets)
      <3> SUFFICES ASSUME NEW q \in Procs, NEW n \in {q, Main} PROVE queue'[q][n] \in Seq(Packets)
        OBVIOUS
      <3>1. CASE q = p
        <4>1. queue'[q][n] = <<>>
          BY <1>5, <3>1
        <4> QED
          BY <4>1, EmptySeq
      <3>2. CASE q # p
        BY <1>4, <3>2 DEF Typed, Queues
      <3> QED
        BY <3>1, <3>2
    <2> QED
      BY <2>2, <2>3 DEF Queues
  <1>8. Waiting(queue', p) = {}
    BY <1>5 DEF Waiting, ToSet
  <1>9. \A q \in Procs : q # p => Waiting(queue', q) = Waiting(queue, q)
    BY <1>4 DEF Waiting
  <1>10. /\ seen' \in [Procs -> [Procs -> Nat]] /\ seen'[p] = [q \in Procs |-> 0]
         /\ \A q \in Procs : q # p => seen'[q] = seen[q]
    BY DEF Forgotten, Typed
  <1>11. <<>> \in Lists /\ list' = [list EXCEPT ![p] = <<>>] /\ loaded' = loaded \ {p}
    BY EmptySeq, RecentFilesAssumption DEF RecentFilesAssumption, Lists, Uniques, Forgotten
  <1>12. list' \in [Procs -> Lists]
    BY <1>11 DEF Typed
  <1>13. Typed'
    BY <1>7, <1>10, <1>11, <1>12 DEF Typed
  <1>14. \A q, o \in Procs : seen'[q][o] <= stamp'[o]
    BY <1>10 DEF Posted, Typed
  <1>15. \A q \in Procs : at'[q] = "off" => sockets'[q] = {}
    BY DEF Forgotten, Posted
  <1>16. Posted'
    BY <1>8, <1>9, <1>14, <1>15 DEF Posted
  <1> QED
    BY <1>4, <1>8, <1>9, <1>10, <1>13, <1>16

\* An instance moves on in its start.
LEMMA MovedOn ==
  ASSUME Answers, NEW p \in Procs, NEW where, MoveTo(p, where), where # "off",
         \A q \in Procs : q # p => sockets'[q] = sockets[q]
  PROVE  /\ at'[p] = where /\ \A q \in Procs : q # p => at'[q] = at[q]
         /\ \A q \in Procs : at'[q] = "off" => at[q] = "off" /\ sockets'[q] = sockets[q]
  BY DEF Answers, MoveTo

\* The actions that touch neither lists nor messages.
LEMMA StartsPost ==
  ASSUME Answers, Typed, Posted, NEW p \in Procs,
         \/ PlainStart(p) \/ NewStart(p) \/ MakeDir(p) \/ BindPid(p) \/ ListenPid(p)
         \/ TryMain(p) \/ UnlinkMain(p) \/ BindMain(p) \/ ListenMain(p)
  PROVE  /\ UNCHANGED <<ipcVars, listVars>>
         /\ \A q \in Procs : at'[q] = "off" => at[q] = "off" /\ sockets'[q] = sockets[q]
  <1>1. ASSUME NEW where, MoveTo(p, where), where # "off", UNCHANGED <<ipcVars, listVars>>,
               \A q \in Procs : q # p => sockets'[q] = sockets[q]
        PROVE  /\ UNCHANGED <<ipcVars, listVars>>
               /\ \A q \in Procs : at'[q] = "off" => at[q] = "off" /\ sockets'[q] = sockets[q]
    BY <1>1, MovedOn
  <1>2. CASE PlainStart(p)
    <2>1. PICK where \in {"handed_over", "init"} : MoveTo(p, where)
      BY <1>2 DEF PlainStart
    <2> QED
      BY <1>1, <1>2, <2>1 DEF PlainStart
  <1>3. CASE NewStart(p)
    BY <1>1, <1>3 DEF NewStart
  <1>4. CASE MakeDir(p)
    BY <1>1, <1>4 DEF MakeDir
  <1>5. CASE BindPid(p)
    <2>1. PICK where \in {"listen_pid", "try_main"} : MoveTo(p, where)
      BY <1>5 DEF BindPid
    <2> QED
      BY <1>1, <1>5, <2>1 DEF BindPid
  <1>6. CASE ListenPid(p)
    <2>1. \A q \in Procs : q # p => sockets'[q] = sockets[q]
      BY <1>6 DEF ListenPid, Answers
    <2> QED
      BY <1>1, <1>6, <2>1 DEF ListenPid
  <1>7. CASE TryMain(p)
    <2>1. PICK where \in {"running", "unlink_main"} : MoveTo(p, where)
      BY <1>7 DEF TryMain
    <2> QED
      BY <1>1, <1>7, <2>1 DEF TryMain
  <1>8. CASE UnlinkMain(p)
    BY <1>1, <1>8 DEF UnlinkMain
  <1>9. CASE BindMain(p)
    <2>1. PICK where \in {"listen_main", "running"} : MoveTo(p, where)
      BY <1>9 DEF BindMain
    <2> QED
      BY <1>1, <1>9, <2>1 DEF BindMain
  <1>10. CASE ListenMain(p)
    <2>1. \A q \in Procs : q # p => sockets'[q] = sockets[q]
      BY <1>10 DEF ListenMain, Answers
    <2> QED
      BY <1>1, <1>10, <2>1 DEF ListenMain
  <1> QED
    BY <1>2, <1>3, <1>4, <1>5, <1>6, <1>7, <1>8, <1>9, <1>10

\* A receipt keeps the types and the packets.
LEMMA ReceivePosts ==
  ASSUME Answers, Typed, Posted, NEW p \in Procs, Receive(p)
  PROVE  Typed' /\ Posted'
  <1>1. PICK n, packet, w :
          /\ n \in {p, Main} /\ packet \in Packets
          /\ Takes(p, n, packet, w) /\ (Heeds(p, packet, w) \/ Ignores(p, packet, w))
    BY ReceiveIs
  <1>2. UNCHANGED <<at, sockets, changes, disturbed>>
    BY ReceiveIs
  <1>3. Queues(queue) /\ stamp \in [Procs -> Nat]
    BY DEF Typed
  <1>4. /\ Queues(w) /\ \A q \in Procs : Waiting(w, q) \subseteq Waiting(queue, q)
        /\ packet \in Waiting(queue, p)
    BY <1>1, <1>3, HeadTaken
  <1>5. CASE Heeds(p, packet, w)
    <2>1. PICK new, sent : new \in Lists /\ Brief(sent) /\ Changed(p, new, sent) /\ Broadcast(p, sent, w)
      BY <1>5 DEF Heeds
    <2>2. Sends(p, sent, w)
      BY <1>3, <1>4, <2>1, BroadcastSends
    <2>3. /\ packet.from \in Procs /\ packet.stamp \in Nat /\ packet.stamp <= stamp[packet.from]
          /\ seen' = [seen EXCEPT ![p][packet.from] = packet.stamp]
      BY <1>1, <1>4, <1>5 DEF Packets, Posted, Heeds
    <2>4. /\ seen' \in [Procs -> [Procs -> Nat]]
          /\ \A q, o \in Procs : seen'[q][o] <= stamp[o]
      BY <2>3 DEF Typed, Posted
    <2>5. changes' \in Nat
      BY <1>2 DEF Typed
    <2> QED
      BY <1>2, <1>4, <2>1, <2>2, <2>4, <2>5, SendingPosts
  <1>6. CASE Ignores(p, packet, w)
    <2>1. queue' = w /\ UNCHANGED <<stamp, seen, list, loaded, pending, file, changes, at, sockets>>
      BY <1>2, <1>6 DEF Ignores
    <2>2. Typed'
      BY <1>4, <2>1 DEF Typed
    <2>3. Posted'
      BY <1>4, <2>1 DEF Posted
    <2> QED
      BY <2>2, <2>3
  <1> QED
    BY <1>1, <1>5, <1>6

\* Every step does.
LEMMA NextPosts ==
  ASSUME Answers, Typed, Posted, Next
  PROVE  Typed' /\ Posted'
  <1>1. PICK p \in Procs :
          \/ PlainStart(p) \/ NewStart(p) \/ MakeDir(p) \/ BindPid(p) \/ ListenPid(p)
          \/ TryMain(p) \/ UnlinkMain(p) \/ BindMain(p) \/ ListenMain(p)
          \/ UserChange(p) \/ Look(p) \/ Receive(p) \/ Save(p)
          \/ Quit(p) \/ Cleanup(p) \/ Crash(p)
    BY DEF Next
  <1>2. CASE \/ PlainStart(p) \/ NewStart(p) \/ MakeDir(p) \/ BindPid(p) \/ ListenPid(p)
             \/ TryMain(p) \/ UnlinkMain(p) \/ BindMain(p) \/ ListenMain(p)
    BY <1>2, StartsPost, QuietPosts
  <1>3. CASE UserChange(p)
    <2>1. PICK new, sent : new \in Lists /\ Brief(sent) /\ Changed(p, new, sent) /\ Broadcast(p, sent, queue)
      BY <1>3, UserChangeIs
    <2>2. UNCHANGED <<at, sockets, seen>> /\ changes' = changes + 1
      BY <1>3, UserChangeIs
    <2>3. Queues(queue) /\ stamp \in [Procs -> Nat]
      BY DEF Typed
    <2>4. Sends(p, sent, queue)
      BY <2>1, <2>3, BroadcastSends
    <2>5. changes' \in Nat /\ seen' \in [Procs -> [Procs -> Nat]]
          /\ \A q, o \in Procs : seen'[q][o] <= stamp[o]
      BY <2>2 DEF Typed, Posted
    <2> QED
      BY <2>1, <2>2, <2>3, <2>4, <2>5, SendingPosts
  <1>4. CASE Look(p)
    <2>1. /\ list' = [list EXCEPT ![p] = file] /\ loaded' = loaded \cup {p}
          /\ UNCHANGED <<pending, file, at, sockets, ipcVars, changes>>
      BY <1>4 DEF Look, Change, Result
    <2>2. Typed'
      BY <2>1 DEF Typed, Queues, ipcVars
    <2>3. Posted'
      BY <2>1 DEF Posted, Waiting, ipcVars
    <2> QED
      BY <2>2, <2>3
  <1>5. CASE Receive(p)
    BY <1>5, ReceivePosts
  <1>6. CASE Save(p)
    <2>1. /\ file' \in Lists /\ pending' \subseteq Procs
          /\ UNCHANGED <<at, sockets, ipcVars, list, loaded, changes>>
      BY <1>6 DEF Save, Typed
    <2>2. Typed'
      BY <2>1 DEF Typed, Queues, ipcVars
    <2>3. Posted'
      BY <2>1 DEF Posted, Waiting, ipcVars
    <2> QED
      BY <2>2, <2>3
  <1>7. CASE Quit(p)
    <2>1. /\ file' \in Lists /\ pending' \subseteq Procs
          /\ UNCHANGED <<sockets, ipcVars, list, loaded, changes>>
      BY <1>7 DEF Quit, Typed
    <2>2. \A q \in Procs : at'[q] = "off" => at[q] = "off"
      BY <1>7 DEF Quit, MoveTo, Answers
    <2>3. Typed'
      BY <2>1 DEF Typed, Queues, ipcVars
    <2>4. Posted'
      BY <2>1, <2>2 DEF Posted, Waiting, ipcVars
    <2> QED
      BY <2>3, <2>4
  <1>8. CASE Cleanup(p)
    <2>1. /\ Forgotten(p) /\ UNCHANGED <<stamp, file, changes>> /\ pending' \subseteq pending
          /\ at'[p] # "off" /\ \A q \in Procs : q # p => at'[q] = at[q]
      BY <1>8 DEF Cleanup, MoveTo, Answers
    <2> QED
      BY <2>1, LeavingPosts
  <1>9. CASE Crash(p)
    <2>1. /\ Forgotten(p) /\ UNCHANGED <<stamp, file, changes>> /\ pending' \subseteq pending
          /\ at'[p] # "off" /\ \A q \in Procs : q # p => at'[q] = at[q]
      BY <1>9 DEF Crash, MoveTo, Answers
    <2> QED
      BY <2>1, LeavingPosts
  <1> QED
    BY <1>1, <1>2, <1>3, <1>4, <1>5, <1>6, <1>7, <1>8, <1>9

-----------------------------------------------------------------------------
(***************************************************************************)
(* The messages are paid for: an addition that is due costs a removal at   *)
(* most, an update an addition and the removals it costs.                  *)
(***************************************************************************)

\* The messages of a type that were not received yet, each with its receiver.
Due(type) ==
  {d \in Procs \X Sent :
     /\ d[2][2] > seen[d[1]][d[2][1]]
     /\ \E pk \in Waiting(queue, d[1]) :
          pk.from = d[2][1] /\ pk.stamp = d[2][2] /\ pk.msg.type = type}

\* The elements of Sent, before and after a step.
LEMMA InSent == \A x : x \in Sent <=> \E o \in Procs : \E i \in 1 .. stamp[o] : x = <<o, i>>
  BY DEF Sent

LEMMA InSent1 == \A x : x \in Sent' <=> \E o \in Procs : \E i \in 1 .. stamp'[o] : x = <<o, i>>
  BY DEF Sent

\* One that is due to p, by its packet.
DueBy(p, pk, type) == /\ p \in Procs /\ pk \in Waiting(queue, p)
                      /\ pk.stamp > seen[p][pk.from] /\ pk.msg.type = type

\* The elements of Due, before and after a step.
LEMMA InDue ==
  ASSUME Posted, NEW type
  PROVE  \A d : d \in Due(type) <=>
           \E p \in Procs : \E pk \in Waiting(queue, p) :
             DueBy(p, pk, type) /\ d = <<p, <<pk.from, pk.stamp>>>>
  <1>1. ASSUME NEW d \in Due(type)
        PROVE  \E p \in Procs : \E pk \in Waiting(queue, p) :
                 DueBy(p, pk, type) /\ d = <<p, <<pk.from, pk.stamp>>>>
    <2>0. d \in Procs \X Sent
      BY DEF Due
    <2>5. PICK p \in Procs, x \in Sent : d = <<p, x>>
      BY <2>0
    <2>7. PICK o \in Procs : \E i \in 1 .. stamp[o] : x = <<o, i>>
      BY InSent
    <2>2. PICK i \in 1 .. stamp[o] : x = <<o, i>>
      BY <2>7
    <2>3. PICK pk \in Waiting(queue, p) : pk.from = o /\ pk.stamp = i /\ pk.msg.type = type
      BY <2>5, <2>2 DEF Due
    <2>4. i > seen[p][o]
      BY <2>5, <2>2 DEF Due
    <2> QED
      BY <2>5, <2>2, <2>3, <2>4 DEF DueBy
  <1>2. ASSUME NEW p \in Procs, NEW pk \in Waiting(queue, p), DueBy(p, pk, type)
        PROVE  <<p, <<pk.from, pk.stamp>>>> \in Due(type)
    <2>1. pk.from \in Procs /\ pk.stamp \in 1 .. stamp[pk.from]
      BY DEF Posted, Packets
    <2>2. <<pk.from, pk.stamp>> \in Sent
      BY <2>1, InSent
    <2> QED
      BY <1>2, <2>2 DEF Due, DueBy
  <1> QED
    BY <1>1, <1>2

LEMMA InDue1 ==
  ASSUME Posted', NEW type
  PROVE  \A d : d \in Due(type)' <=>
           \E p \in Procs : \E pk \in Waiting(queue', p) :
             DueBy(p, pk, type)' /\ d = <<p, <<pk.from, pk.stamp>>>>
  <1>1. ASSUME NEW d \in Due(type)'
        PROVE  \E p \in Procs : \E pk \in Waiting(queue', p) :
                 DueBy(p, pk, type)' /\ d = <<p, <<pk.from, pk.stamp>>>>
    <2>0. d \in Procs \X Sent'
      BY DEF Due
    <2>1. PICK p \in Procs, x \in Sent' : d = <<p, x>>
      BY <2>0
    <2>7. PICK o \in Procs : \E i \in 1 .. stamp'[o] : x = <<o, i>>
      BY InSent1
    <2>2. PICK i \in 1 .. stamp'[o] : x = <<o, i>>
      BY <2>7
    <2>3. PICK pk \in Waiting(queue', p) : pk.from = o /\ pk.stamp = i /\ pk.msg.type = type
      BY <2>1, <2>2 DEF Due
    <2>4. i > seen'[p][o]
      BY <2>1, <2>2 DEF Due
    <2> QED
      BY <2>1, <2>2, <2>3, <2>4 DEF DueBy
  <1>2. ASSUME NEW p \in Procs, NEW pk \in Waiting(queue', p), DueBy(p, pk, type)'
        PROVE  <<p, <<pk.from, pk.stamp>>>> \in Due(type)'
    <2>1. pk.from \in Procs /\ pk.stamp \in 1 .. stamp'[pk.from]
      BY DEF Posted, Packets
    <2>2. <<pk.from, pk.stamp>> \in Sent'
      BY <2>1, InSent1
    <2> QED
      BY <1>2, <2>2 DEF Due, DueBy
  <1> QED
    BY <1>1, <1>2

\* Nothing is due that was not, when nothing is sent.
LEMMA DueKept ==
  ASSUME Posted, Posted', NEW type,
         \A p \in Procs : \A pk \in Waiting(queue', p) :
           pk \in Waiting(queue, p) /\ seen'[p][pk.from] >= seen[p][pk.from]
           /\ seen'[p][pk.from] \in Nat /\ seen[p][pk.from] \in Nat
  PROVE  Due(type)' \subseteq Due(type)
  <1> SUFFICES ASSUME NEW p \in Procs, NEW pk \in Waiting(queue', p), DueBy(p, pk, type)'
               PROVE  DueBy(p, pk, type)
    BY InDue, InDue1 DEF DueBy
  <1>1. pk.stamp \in Nat
    BY DEF Posted, Packets
  <1> QED
    BY <1>1 DEF DueBy

\* What a broadcast makes due.
LEMMA DueSent ==
  ASSUME Typed, Posted, Posted', NEW p \in Procs, NEW sent, Brief(sent), NEW w, Queues(w),
         \A q \in Procs : Waiting(w, q) \subseteq Waiting(queue, q), Sends(p, sent, w),
         \A q, o \in Procs : seen'[q][o] \in Nat /\ seen'[q][o] >= seen[q][o],
         NEW type, type # "remove"
  PROVE  /\ Due(type)' \subseteq Due(type) \cup ((Started \ {p}) \X {<<p, stamp[p] + 1>>})
         /\ (\A i \in DOMAIN sent : sent[i].type # type) => Due(type)' \subseteq Due(type)
  <1>1. ASSUME NEW q \in Procs, NEW pk \in Waiting(queue', q), DueBy(q, pk, type)'
        PROVE  \/ <<q, <<pk.from, pk.stamp>>>> \in Due(type)
               \/ /\ q \in Started \ {p} /\ pk.from = p /\ pk.stamp = stamp[p] + 1
                  /\ ~ \A i \in DOMAIN sent : sent[i].type # type
    <2>0. stamp \in [Procs -> Nat]
      BY DEF Typed
    <2>1. \/ pk \in Waiting(w, q)
          \/ /\ q # p /\ sockets[q] # {} /\ pk \in Packets
             /\ \E i \in 1 .. Len(sent) : pk.from = p /\ pk.stamp = stamp[p] + i /\ pk.msg = sent[i]
      <3> HIDE <1>1
      <3> QED
        BY <2>0, SendsWaiting
    <2>2. CASE pk \in Waiting(w, q)
      <3>1. pk \in Waiting(queue, q) /\ pk.from \in Procs /\ pk.stamp \in Nat
        BY <2>2 DEF Posted, Packets
      <3>2. seen'[q][pk.from] \in Nat /\ seen'[q][pk.from] >= seen[q][pk.from] /\ seen[q][pk.from] \in Nat
        BY <3>1 DEF Typed
      <3>3. DueBy(q, pk, type)
        BY <1>1, <3>1, <3>2 DEF DueBy
      <3> QED
        BY <3>1, <3>3, InDue
    <2>3. CASE ~(pk \in Waiting(w, q))
      <3>1. PICK i \in 1 .. Len(sent) : pk.from = p /\ pk.stamp = stamp[p] + i /\ pk.msg = sent[i]
        BY <2>1, <2>3
      <3>2. q # p /\ q \in Started
        BY <2>1, <2>3 DEF Posted, Started
      <3>3. i \in DOMAIN sent
        BY <2>0, StampedFacts
      <3>4. sent[i].type = type
        BY <1>1, <3>1 DEF DueBy
      <3>5. i = 1
        BY <3>3, <3>4 DEF Brief
      <3> QED
        BY <3>1, <3>2, <3>3, <3>4, <3>5
    <2> QED
      BY <2>1, <2>2, <2>3
  <1>2. ASSUME NEW d \in Due(type)'
        PROVE  \/ d \in Due(type)
               \/ /\ d \in (Started \ {p}) \X {<<p, stamp[p] + 1>>}
                  /\ ~ \A i \in DOMAIN sent : sent[i].type # type
    <2>1. PICK q \in Procs : \E pk \in Waiting(queue', q) :
            DueBy(q, pk, type)' /\ d = <<q, <<pk.from, pk.stamp>>>>
      BY InDue1
    <2>2. PICK pk \in Waiting(queue', q) : DueBy(q, pk, type)' /\ d = <<q, <<pk.from, pk.stamp>>>>
      BY <2>1
    <2> QED
      BY <1>1, <2>2
  <1> QED
    BY <1>2

\* What a change may cost when there are so many others.
Cost(others) == Max({2 + others, 1 + others * (2 + others)})

\* Cost is the larger of the two.
LEMMA CostIs ==
  ASSUME NEW o \in Nat
  PROVE  /\ Cost(o) \in Nat /\ Cost(o) >= 2 + o /\ Cost(o) >= 1 + o * (2 + o) /\ Cost(o) >= 2
         /\ Cost(o) = 2 + o \/ Cost(o) = 1 + o * (2 + o)
  <1> DEFINE a == 2 + o
             b == 1 + o * (2 + o)
  <1>1. a \in Nat /\ b \in Nat
    OBVIOUS
  <1>4. a >= 2
    OBVIOUS
  <1> HIDE DEF a, b
  <1>2. \E x \in {a, b} : \A y \in {a, b} : x >= y
    BY <1>1
  <1>3. Max({a, b}) \in {a, b} /\ \A y \in {a, b} : Max({a, b}) >= y
    BY <1>2 DEF Max
  <1>5. LET c == Max({a, b}) IN c \in Nat /\ c >= a /\ c >= b /\ c >= 2 /\ (c = a \/ c = b)
    BY <1>1, <1>3, <1>4
  <1> QED
    BY <1>5 DEF Cost, a, b

\* It is a number before the first start, too.
LEMMA CostOfNone == Cost(-1) \in Nat
  <1>1. 2 + -1 = 1 /\ 1 + -1 * (2 + -1) = 0
    OBVIOUS
  <1>2. \E x \in {1, 0} : \A y \in {1, 0} : x >= y
    OBVIOUS
  <1>3. Max({1, 0}) \in {1, 0}
    BY <1>2 DEF Max
  <1> QED
    BY <1>1, <1>3 DEF Cost

\* With one more instance a change may cost more, by as many as there were.
LEMMA CostGrows ==
  ASSUME NEW o \in Nat
  PROVE  Cost(o) + o <= Cost(o + 1)
  <1>1. Cost(o + 1) >= 2 + (o + 1) /\ Cost(o + 1) >= 1 + (o + 1) * (2 + (o + 1))
    BY CostIs
  <1>2. Cost(o) = 2 + o \/ Cost(o) = 1 + o * (2 + o)
    BY CostIs
  <1>3. (o + 1) * (2 + (o + 1)) = o * o + 4 * o + 3
    OBVIOUS
  <1>4. o * (2 + o) = o * o + 2 * o
    OBVIOUS
  <1>5. o * o \in Nat
    OBVIOUS
  <1>6. Cost(o) \in Nat /\ Cost(o + 1) \in Nat
    BY CostIs
  <1> QED
    BY <1>1, <1>2, <1>3, <1>4, <1>5, <1>6

(***************************************************************************)
(* Sets.                                                                   *)
(***************************************************************************)
\* A set that grew by at most a copy of another.
LEMMA SomeMore ==
  ASSUME NEW S, IsFiniteSet(S), NEW A, IsFiniteSet(A), NEW x, NEW T, T \subseteq S \cup (A \X {x})
  PROVE  IsFiniteSet(T) /\ Cardinality(T) <= Cardinality(S) + Cardinality(A)
  <1> DEFINE B == A \X {x}
  <1>1. IsFiniteSet({x}) /\ Cardinality({x}) = 1
    BY FS_Singleton
  <1>2. IsFiniteSet(B) /\ Cardinality(B) = Cardinality(A) * 1
    BY <1>1, FS_Product
  <1>3. T \subseteq S \cup B
    OBVIOUS
  <1> HIDE DEF B
  <1>4. /\ IsFiniteSet(S \cup B)
        /\ Cardinality(S \cup B) = Cardinality(S) + Cardinality(B) - Cardinality(S \cap B)
        /\ IsFiniteSet(S \cap B)
    BY <1>2, FS_Union, FS_Intersection
  <1>5. IsFiniteSet(T) /\ Cardinality(T) <= Cardinality(S \cup B)
    BY <1>3, <1>4, FS_Subset
  <1>6. /\ Cardinality(S) \in Nat /\ Cardinality(B) \in Nat /\ Cardinality(S \cap B) \in Nat
        /\ Cardinality(T) \in Nat /\ Cardinality(A) \in Nat
    BY <1>2, <1>4, <1>5, FS_CardinalityType
  <1> QED
    BY <1>2, <1>4, <1>5, <1>6

\* What is sent, counted.
LEMMA SentMore ==
  ASSUME NEW p \in Procs, stamp \in [Procs -> Nat], NEW n \in 0 .. 2, IsFiniteSet(Sent),
         stamp' = [stamp EXCEPT ![p] = @ + n]
  PROVE  IsFiniteSet(Sent') /\ Cardinality(Sent') <= Cardinality(Sent) + n
  <1> DEFINE I == stamp[p] + 1 .. stamp[p] + n
             B == {p} \X I
  <1>1. stamp[p] \in Nat
    OBVIOUS
  <1>2. IsFiniteSet(I) /\ Cardinality(I) = n
    <2>1. stamp[p] + 1 \in Int /\ stamp[p] + n \in Int
      BY <1>1
    <2>2. /\ IsFiniteSet(I)
          /\ Cardinality(I) = IF stamp[p] + 1 > stamp[p] + n THEN 0 ELSE (stamp[p] + n) - (stamp[p] + 1) + 1
      BY <2>1, FS_Interval
    <2> QED
      BY <1>1, <2>2
  <1>3. IsFiniteSet(B) /\ Cardinality(B) = 1 * n
    <2>1. IsFiniteSet({p}) /\ Cardinality({p}) = 1
      BY FS_Singleton
    <2> HIDE DEF I
    <2> QED
      BY <1>2, <2>1, FS_Product
  <1>4. Sent' \subseteq Sent \cup B
    <2> SUFFICES ASSUME NEW o \in Procs, NEW i \in 1 .. stamp'[o], <<o, i>> \notin Sent
                 PROVE  <<o, i>> \in B
      BY InSent1
    <2>1. ~(i \in 1 .. stamp[o])
      BY InSent
    <2>2. o = p
      BY <2>1
    <2>3. i \in I
      BY <1>1, <2>1, <2>2
    <2> QED
      BY <2>2, <2>3
  <1> HIDE DEF B
  <1>5. /\ IsFiniteSet(Sent \cup B) /\ IsFiniteSet(Sent \cap B)
        /\ Cardinality(Sent \cup B) = Cardinality(Sent) + Cardinality(B) - Cardinality(Sent \cap B)
    BY <1>3, FS_Union, FS_Intersection
  <1>6. IsFiniteSet(Sent') /\ Cardinality(Sent') <= Cardinality(Sent \cup B)
    BY <1>4, <1>5, FS_Subset
  <1>7. /\ Cardinality(Sent) \in Nat /\ Cardinality(B) \in Nat /\ Cardinality(Sent \cap B) \in Nat
        /\ Cardinality(Sent') \in Nat
    BY <1>3, <1>5, <1>6, FS_CardinalityType
  <1> QED
    BY <1>3, <1>5, <1>6, <1>7

\* The sum: s messages were sent, a additions and u updates are due, after c changes
\* of n instances.
Covered(s, a, u, c, n) ==
  /\ s + a + (2 + (n - 1)) * u <= c * Cost(n - 1)
  /\ u <= c * (n - 1)

\* Less to cover.
LEMMA LessCovered ==
  ASSUME NEW s \in Nat, NEW a \in Nat, NEW u \in Nat, NEW c \in Nat, NEW n \in Nat,
         Covered(s, a, u, c, n),
         NEW s1 \in Nat, NEW a1 \in Nat, NEW u1 \in Nat, s1 <= s, a1 <= a, u1 <= u
  PROVE  Covered(s1, a1, u1, c, n)
  <1>1. Cost(n - 1) \in Nat
    <2>1. CASE n = 0
      <3>1. n - 1 = -1
        BY <2>1
      <3> QED
        BY <3>1, CostOfNone
    <2>2. CASE n # 0
      <3>1. n - 1 \in Nat
        BY <2>2
      <3> QED
        BY <3>1, CostIs
    <2> QED
      BY <2>1, <2>2
  <1> DEFINE k == 2 + (n - 1)
             x == c * Cost(n - 1)
             y == c * (n - 1)
  <1>2. k \in Nat /\ x \in Int /\ y \in Int
    BY <1>1
  <1>3. s + a + k * u <= x /\ u <= y
    BY DEF Covered
  <1> HIDE DEF k, x, y
  <1>4. k * u1 <= k * u /\ k * u \in Nat /\ k * u1 \in Nat
    BY <1>2
  <1>5. s1 + a1 + k * u1 <= x /\ u1 <= y
    BY <1>2, <1>3, <1>4
  <1> QED
    BY <1>5 DEF Covered, k, x, y

\* One more instance.
LEMMA MoreCovered ==
  ASSUME NEW s \in Nat, NEW a \in Nat, NEW u \in Nat, NEW c \in Nat, NEW n \in Nat,
         Covered(s, a, u, c, n)
  PROVE  Covered(s, a, u, c, n + 1)
  <1>1. n + 1 - 1 = n /\ 2 + n = (2 + (n - 1)) + 1
    OBVIOUS
  <1>2. CASE n = 0
    <2>1. n - 1 = -1 /\ 2 + (n - 1) = 1
      BY <1>2
    <2>2. u <= c * (-1)
      BY <2>1 DEF Covered
    <2>3. c * (-1) = -c
      OBVIOUS
    <2>4. c = 0 /\ u = 0
      BY <2>2, <2>3
    <2>5. c * Cost(n - 1) = 0
      BY <2>1, <2>4, CostOfNone
    <2>6. s + a + 1 * u <= 0
      BY <2>1, <2>5 DEF Covered
    <2>7. s = 0 /\ a = 0
      BY <2>4, <2>6
    <2>8. (2 + n) * u = 0 /\ c * Cost(n) = 0 /\ c * n = 0
      BY <2>4, CostIs
    <2> QED
      BY <1>1, <2>4, <2>7, <2>8 DEF Covered
  <1>3. CASE n # 0
    <2> DEFINE o == n - 1
    <2>1. o \in Nat /\ n = o + 1
      BY <1>3
    <2> HIDE DEF o
    <2>2. Cost(o) \in Nat /\ Cost(o + 1) \in Nat /\ Cost(o) + o <= Cost(o + 1)
      BY <2>1, CostIs, CostGrows
    <2>3. s + a + (2 + o) * u <= c * Cost(o) /\ u <= c * o
      BY DEF Covered, o
    <2> DEFINE k == Cost(o)
               l == Cost(o + 1)
    <2>4. k \in Nat /\ l \in Nat /\ k + o <= l
      BY <2>2
    <2>5. s + a + (2 + o) * u <= c * k /\ u <= c * o
      BY <2>3
    <2> HIDE DEF k, l
    <2>6. c * (k + o) = c * k + c * o
      BY <2>1, <2>4
    <2>7. c * (k + o) <= c * l
      BY <2>1, <2>4
    <2>8. (2 + (o + 1)) * u = (2 + o) * u + u
      BY <2>1
    <2>9. c * (o + 1) = c * o + c
      BY <2>1
    <2>10. (2 + o) * u \in Nat /\ c * k \in Nat /\ c * o \in Nat /\ c * l \in Nat
      BY <2>1, <2>4
    <2>11. s + a + (2 + (o + 1)) * u <= c * l /\ u <= c * (o + 1)
      BY <2>5, <2>6, <2>7, <2>8, <2>9, <2>10
    <2> QED
      BY <1>1, <2>1, <2>11 DEF Covered, l
  <1> QED
    BY <1>2, <1>3

\* One more change: an addition and the item it pushes out, or an update.
LEMMA ChangeCovered ==
  ASSUME NEW s \in Nat, NEW a \in Nat, NEW u \in Nat, NEW c \in Nat, NEW n \in Nat \ {0},
         Covered(s, a, u, c, n),
         NEW s1 \in Nat, NEW a1 \in Nat, NEW u1 \in Nat,
         \/ s1 <= s + 2 /\ a1 <= a + (n - 1) /\ u1 <= u
         \/ s1 <= s + 1 /\ a1 <= a /\ u1 <= u + (n - 1)
  PROVE  Covered(s1, a1, u1, c + 1, n)
  <1> DEFINE o == n - 1
             k == Cost(o)
  <1>1. o \in Nat
    OBVIOUS
  <1> HIDE DEF o
  <1>2. k \in Nat /\ k >= 2 + o /\ k >= 1 + o * (2 + o)
    BY <1>1, CostIs
  <1>3. s + a + (2 + o) * u <= c * k /\ u <= c * o
    BY DEF Covered, o
  <1> HIDE DEF k
  <1>4. (c + 1) * k = c * k + k /\ (c + 1) * o = c * o + o
    BY <1>1, <1>2
  <1>5. c * k \in Nat /\ c * o \in Nat /\ o * (2 + o) \in Nat /\ (2 + o) * u \in Nat /\ (2 + o) * u1 \in Nat
    BY <1>1, <1>2
  <1>6. CASE s1 <= s + 2 /\ a1 <= a + o /\ u1 <= u
    <2>1. (2 + o) * u1 <= (2 + o) * u
      BY <1>1, <1>6
    <2>2. s1 + a1 + (2 + o) * u1 <= (c + 1) * k /\ u1 <= (c + 1) * o
      BY <1>1, <1>2, <1>3, <1>4, <1>5, <1>6, <2>1
    <2> QED
      BY <2>2 DEF Covered, k, o
  <1>7. CASE s1 <= s + 1 /\ a1 <= a /\ u1 <= u + o
    <2>1. (2 + o) * u1 <= (2 + o) * (u + o)
      BY <1>1, <1>7
    <2>2. (2 + o) * (u + o) = (2 + o) * u + o * (2 + o)
      BY <1>1
    <2>3. s1 + a1 + (2 + o) * u1 <= (c + 1) * k /\ u1 <= (c + 1) * o
      BY <1>1, <1>2, <1>3, <1>4, <1>5, <1>7, <2>1, <2>2
    <2> QED
      BY <2>3 DEF Covered, k, o
  <1> QED
    BY <1>6, <1>7 DEF o

\* An update or an addition is received.
LEMMA ReceiptCovered ==
  ASSUME NEW s \in Nat, NEW a \in Nat, NEW u \in Nat, NEW c \in Nat, NEW n \in Nat \ {0},
         Covered(s, a, u, c, n),
         NEW s1 \in Nat, NEW a1 \in Nat, NEW u1 \in Nat,
         \/ s1 <= s + 2 /\ a1 <= a + (n - 1) /\ u1 <= u - 1
         \/ s1 <= s + 1 /\ a1 <= a - 1 /\ u1 <= u
  PROVE  Covered(s1, a1, u1, c, n)
  <1> DEFINE o == n - 1
             x == c * Cost(o)
             y == c * o
  <1>1. o \in Nat
    OBVIOUS
  <1> HIDE DEF o
  <1>2. x \in Nat /\ y \in Nat
    BY <1>1, CostIs
  <1>3. s + a + (2 + o) * u <= x /\ u <= y
    BY DEF Covered, o
  <1> HIDE DEF x, y
  <1>4. (2 + o) * u \in Nat /\ (2 + o) * u1 \in Nat
    BY <1>1
  <1>5. CASE s1 <= s + 2 /\ a1 <= a + o /\ u1 <= u - 1
    <2>1. (2 + o) * u1 <= (2 + o) * (u - 1)
      BY <1>1, <1>5
    <2>2. (2 + o) * (u - 1) = (2 + o) * u - (2 + o)
      BY <1>1
    <2>3. s1 + a1 + (2 + o) * u1 <= x /\ u1 <= y
      BY <1>1, <1>2, <1>3, <1>4, <1>5, <2>1, <2>2
    <2> QED
      BY <2>3 DEF Covered, x, y, o
  <1>6. CASE s1 <= s + 1 /\ a1 <= a - 1 /\ u1 <= u
    <2>1. (2 + o) * u1 <= (2 + o) * u
      BY <1>1, <1>6
    <2>2. s1 + a1 + (2 + o) * u1 <= x /\ u1 <= y
      BY <1>1, <1>2, <1>3, <1>4, <1>6, <2>1
    <2> QED
      BY <2>2 DEF Covered, x, y, o
  <1> QED
    BY <1>5, <1>6 DEF o

\* What was sent, and what is due, is covered by the changes.
Paid ==
  /\ IsFiniteSet(Sent)
  /\ Covered(Cardinality(Sent), Cardinality(Due("add")), Cardinality(Due("update")), changes,
             Cardinality(Started))

\* All these sets are finite, before and after a step.
LEMMA Finite ==
  ASSUME IsFiniteSet(Sent), NEW type
  PROVE  IsFiniteSet(Due(type)) /\ Cardinality(Due(type)) \in Nat /\ Cardinality(Sent) \in Nat
  <1>1. IsFiniteSet(Procs \X Sent)
    BY FS_Product, RecentFilesAssumption DEF RecentFilesAssumption
  <1>2. Due(type) \subseteq Procs \X Sent
    BY DEF Due
  <1> QED
    BY <1>1, <1>2, FS_Subset, FS_CardinalityType

LEMMA Finite1 ==
  ASSUME IsFiniteSet(Sent'), NEW type
  PROVE  IsFiniteSet(Due(type)') /\ Cardinality(Due(type)') \in Nat /\ Cardinality(Sent') \in Nat
  <1>1. IsFiniteSet(Procs \X Sent')
    BY FS_Product, RecentFilesAssumption DEF RecentFilesAssumption
  <1>2. Due(type)' \subseteq Procs \X Sent'
    BY DEF Due
  <1> QED
    BY <1>1, <1>2, FS_Subset, FS_CardinalityType

\* So are the instances.
LEMMA StartedFinite ==
  IsFiniteSet(Started) /\ Cardinality(Started) \in Nat
  <1>1. Started \subseteq Procs /\ IsFiniteSet(Procs)
    BY RecentFilesAssumption DEF RecentFilesAssumption, Started
  <1> QED
    BY <1>1, FS_Subset, FS_CardinalityType

\* Less is due, and no more are there.
LEMMA KeptPaid ==
  ASSUME Typed, Posted, Posted', Paid, UNCHANGED <<stamp, changes>>,
         Started' = Started \/ \E p \in Procs \ Started : Started' = Started \cup {p},
         \A p \in Procs : \A pk \in Waiting(queue', p) :
           pk \in Waiting(queue, p) /\ seen'[p] = seen[p]
  PROVE  Paid'
  <1> DEFINE s == Cardinality(Sent)
             a == Cardinality(Due("add"))
             u == Cardinality(Due("update"))
             n == Cardinality(Started)
             a1 == Cardinality(Due("add")')
             u1 == Cardinality(Due("update")')
  <1>1. Sent' = Sent /\ IsFiniteSet(Sent)
    BY DEF Sent, Paid
  <1>2. /\ s \in Nat /\ a \in Nat /\ u \in Nat /\ n \in Nat /\ a1 \in Nat /\ u1 \in Nat
        /\ changes \in Nat /\ IsFiniteSet(Due("add")) /\ IsFiniteSet(Due("update"))
    BY <1>1, Finite, Finite1, StartedFinite DEF Typed
  <1>3. Due("add")' \subseteq Due("add") /\ Due("update")' \subseteq Due("update")
    <2>1. \A p \in Procs : \A pk \in Waiting(queue', p) :
           pk \in Waiting(queue, p) /\ seen'[p][pk.from] >= seen[p][pk.from]
           /\ seen'[p][pk.from] \in Nat /\ seen[p][pk.from] \in Nat
      BY DEF Typed, Posted, Packets
    <2> QED
      BY <2>1, DueKept
  <1>4. a1 <= a /\ u1 <= u
    BY <1>2, <1>3, FS_Subset
  <1>5. Covered(s, a, u, changes, n)
    BY DEF Paid
  <1>6. Paid' <=> Covered(s, a1, u1, changes, Cardinality(Started'))
    BY <1>1 DEF Paid
  <1>7. CASE Started' = Started
    <2>1. Cardinality(Started') = n
      BY <1>7
    <2> HIDE DEF s, a, u, n, a1, u1
    <2>2. Covered(s, a1, u1, changes, n)
      BY <1>2, <1>4, <1>5, LessCovered, SMTT(30)
    <2> QED
      BY <1>6, <2>1, <2>2
  <1>8. ASSUME NEW p \in Procs \ Started, Started' = Started \cup {p} PROVE Paid'
    <2>1. Cardinality(Started') = n + 1
      <3>1. Cardinality(Started \cup {p}) = n + 1
        BY StartedFinite, FS_AddElement
      <3> QED
        BY <1>8, <3>1
    <2> HIDE DEF s, a, u, n, a1, u1
    <2>2. Covered(s, a1, u1, changes, n)
      BY <1>2, <1>4, <1>5, LessCovered
    <2>3. Covered(s, a1, u1, changes, n + 1)
      BY <1>2, <2>2, MoreCovered
    <2> QED
      BY <1>6, <2>1, <2>3
  <1> QED
    BY <1>7, <1>8

\* A change of the user pays for what it sends and makes due.
LEMMA UserChangePaid ==
  ASSUME Answers, Typed, Posted, Posted', Paid, NEW p \in Procs, UserChange(p)
  PROVE  Paid'
  <1> DEFINE s == Cardinality(Sent)
             a == Cardinality(Due("add"))
             u == Cardinality(Due("update"))
             n == Cardinality(Started)
             s1 == Cardinality(Sent')
             a1 == Cardinality(Due("add")')
             u1 == Cardinality(Due("update")')
             O == Started \ {p}
             N == O \X {<<p, stamp[p] + 1>>}
  <1>1. PICK sent : Brief(sent) /\ Broadcast(p, sent, queue)
    BY UserChangeIs
  <1>2. UNCHANGED <<at, sockets, seen>> /\ changes' = changes + 1 /\ at[p] = "running"
    BY UserChangeIs DEF UserChange
  <1>3. Queues(queue) /\ stamp \in [Procs -> Nat]
    BY DEF Typed
  <1>4. Sends(p, sent, queue)
    BY <1>1, <1>3, BroadcastSends
  <1>5. Len(sent) \in 0 .. 2 /\ stamp' = [stamp EXCEPT ![p] = @ + Len(sent)]
    BY <1>1, <1>3, <1>4, StampedFacts DEF Sends
  <1>6. IsFiniteSet(Sent) /\ IsFiniteSet(Sent') /\ s1 <= s + Len(sent)
    BY <1>3, <1>5, SentMore DEF Paid
  <1>7. \A type : type # "remove" =>
          /\ Due(type)' \subseteq Due(type) \cup N
          /\ (\A i \in DOMAIN sent : sent[i].type # type) => Due(type)' \subseteq Due(type)
    <2>1. \A q, o \in Procs : seen'[q][o] \in Nat /\ seen'[q][o] >= seen[q][o]
      BY <1>2 DEF Typed
    <2> QED
      BY <1>1, <1>3, <1>4, <2>1, DueSent
  <1>8. IsFiniteSet(O) /\ Cardinality(O) = n - 1 /\ n \in Nat \ {0}
    <2>1. p \in Started
      BY <1>2 DEF Started
    <2>2. IsFiniteSet(O) /\ Cardinality(O) = n - 1
      BY <2>1, StartedFinite, FS_RemoveElement
    <2>3. Cardinality(O) \in Nat
      BY <2>2, FS_CardinalityType
    <2> QED
      BY <2>2, <2>3, StartedFinite
  <1>9. /\ s \in Nat /\ a \in Nat /\ u \in Nat /\ s1 \in Nat /\ a1 \in Nat /\ u1 \in Nat
        /\ changes \in Nat /\ IsFiniteSet(Due("add")) /\ IsFiniteSet(Due("update"))
    BY <1>6, Finite, Finite1 DEF Typed
  <1>10. a1 <= a + (n - 1) /\ u1 <= u + (n - 1)
    <2>1. Due("add")' \subseteq Due("add") \cup (O \X {<<p, stamp[p] + 1>>})
      BY <1>7
    <2>2. Due("update")' \subseteq Due("update") \cup (O \X {<<p, stamp[p] + 1>>})
      BY <1>7
    <2> HIDE DEF O
    <2>3. a1 <= a + Cardinality(O)
      BY <1>8, <1>9, <2>1, SomeMore
    <2>4. u1 <= u + Cardinality(O)
      BY <1>8, <1>9, <2>2, SomeMore
    <2> QED
      BY <1>8, <2>3, <2>4
  <1>11. (\A i \in DOMAIN sent : sent[i].type # "update") => u1 <= u
    BY <1>7, <1>9, FS_Subset
  <1>12. (\A i \in DOMAIN sent : sent[i].type # "add") => a1 <= a
    BY <1>7, <1>9, FS_Subset
  <1>13. \/ s1 <= s + 2 /\ a1 <= a + (n - 1) /\ u1 <= u
         \/ s1 <= s + 1 /\ a1 <= a /\ u1 <= u + (n - 1)
    <2> HIDE DEF s, a, u, n, s1, a1, u1
    <2>1. CASE \A i \in DOMAIN sent : sent[i].type # "update"
      <3>1. u1 <= u
        BY <1>11, <2>1
      <3> DEFINE k == Len(sent)
      <3>2. k \in 0 .. 2 /\ s1 <= s + k
        BY <1>5, <1>6
      <3> HIDE DEF k
      <3>3. s1 <= s + 2
        BY <1>9, <3>2
      <3> QED
        BY <1>10, <3>1, <3>3
    <2>2. CASE ~(\A i \in DOMAIN sent : sent[i].type # "update")
      <3>1. PICK i \in DOMAIN sent : sent[i].type = "update"
        BY <2>2
      <3>2. Len(sent) = 1 /\ i = 1
        BY <1>1, <3>1 DEF Brief
      <3>3. \A j \in DOMAIN sent : j = 1
        BY <1>1, <3>2, Listed DEF Brief
      <3>4. \A j \in DOMAIN sent : sent[j].type # "add"
        BY <3>1, <3>2, <3>3
      <3> QED
        BY <1>6, <1>9, <1>10, <1>12, <3>2, <3>4
    <2> QED
      BY <2>1, <2>2
  <1>14. Covered(s, a, u, changes, n)
    BY DEF Paid
  <1>15. Started' = Started
    BY <1>2 DEF Started
  <1>16. Paid' <=> IsFiniteSet(Sent') /\ Covered(s1, a1, u1, changes + 1, n)
    BY <1>2, <1>15 DEF Paid
  <1> HIDE DEF s, a, u, n, s1, a1, u1
  <1>17. Covered(s1, a1, u1, changes + 1, n)
    BY <1>8, <1>9, <1>13, <1>14, ChangeCovered
  <1> QED
    BY <1>6, <1>16, <1>17

\* A receipt spends what was due.
LEMMA ReceivePaid ==
  ASSUME Answers, Typed, Posted, Posted', Paid, NEW p \in Procs, NEW n1 \in {p, Main},
         NEW packet, NEW w, Takes(p, n1, packet, w), Heeds(p, packet, w),
         UNCHANGED <<at, sockets, changes>>, at[p] = "running"
  PROVE  Paid'
  <1> DEFINE s == Cardinality(Sent)
             a == Cardinality(Due("add"))
             u == Cardinality(Due("update"))
             n == Cardinality(Started)
             s1 == Cardinality(Sent')
             a1 == Cardinality(Due("add")')
             u1 == Cardinality(Due("update")')
             O == Started \ {p}
             d == <<p, <<packet.from, packet.stamp>>>>
  <1>1. PICK sent : /\ Brief(sent) /\ NoUpdates(sent) /\ Broadcast(p, sent, w)
                    /\ packet.msg.type = "add" => Removals(sent)
                    /\ packet.msg.type = "remove" => sent = None
    BY DEF Heeds
  <1>2. /\ packet.stamp > seen[p][packet.from]
        /\ seen' = [seen EXCEPT ![p][packet.from] = packet.stamp]
    BY DEF Heeds
  <1>3. Queues(queue) /\ stamp \in [Procs -> Nat] /\ seen \in [Procs -> [Procs -> Nat]]
    BY DEF Typed
  <1>4. /\ Queues(w) /\ packet \in Packets /\ packet \in Waiting(queue, p)
        /\ \A q \in Procs : Waiting(w, q) \subseteq Waiting(queue, q)
    BY <1>3, HeadTaken
  <1>5. Sends(p, sent, w)
    BY <1>1, <1>3, <1>4, BroadcastSends
  <1>6. Len(sent) \in 0 .. 2 /\ stamp' = [stamp EXCEPT ![p] = @ + Len(sent)]
    BY <1>1, <1>3, <1>5, StampedFacts DEF Sends
  <1>7. IsFiniteSet(Sent) /\ IsFiniteSet(Sent') /\ s1 <= s + Len(sent)
    BY <1>3, <1>6, SentMore DEF Paid
  <1>8. packet.from \in Procs /\ packet.stamp \in Nat /\ packet.msg \in Messages
    BY <1>4 DEF Packets
  <1>9. \A type : type # "remove" =>
          /\ Due(type)' \subseteq Due(type) \cup (O \X {<<p, stamp[p] + 1>>})
          /\ (\A i \in DOMAIN sent : sent[i].type # type) => Due(type)' \subseteq Due(type)
    <2>1. \A q, o \in Procs : seen'[q][o] \in Nat /\ seen'[q][o] >= seen[q][o]
      BY <1>2, <1>3, <1>8
    <2> QED
      BY <1>1, <1>3, <1>4, <1>5, <2>1, DueSent
  <1>10. \A type : d \notin Due(type)'
    <2> SUFFICES ASSUME NEW type, NEW q \in Procs, NEW pk \in Waiting(queue', q), DueBy(q, pk, type)',
                        d = <<q, <<pk.from, pk.stamp>>>>
                 PROVE  FALSE
      BY InDue1
    <2>1. q = p /\ pk.from = packet.from /\ pk.stamp = packet.stamp
      OBVIOUS
    <2>2. pk.stamp > seen'[p][packet.from]
      BY <2>1 DEF DueBy
    <2>3. seen'[p][packet.from] = packet.stamp
      BY <1>2, <1>3, <1>8
    <2> QED
      BY <1>8, <2>1, <2>2, <2>3
  <1>11. d \in Due(packet.msg.type)
    <2>1. DueBy(p, packet, packet.msg.type)
      BY <1>2, <1>4 DEF DueBy
    <2> QED
      BY <1>4, <2>1, InDue
  <1>12. IsFiniteSet(O) /\ Cardinality(O) = n - 1 /\ n \in Nat \ {0}
    <2>1. p \in Started
      BY DEF Started
    <2>2. IsFiniteSet(O) /\ Cardinality(O) = n - 1
      BY <2>1, StartedFinite, FS_RemoveElement
    <2>3. Cardinality(O) \in Nat
      BY <2>2, FS_CardinalityType
    <2> QED
      BY <2>2, <2>3, StartedFinite
  <1>13. /\ s \in Nat /\ a \in Nat /\ u \in Nat /\ s1 \in Nat /\ a1 \in Nat /\ u1 \in Nat
         /\ changes \in Nat /\ IsFiniteSet(Due("add")) /\ IsFiniteSet(Due("update"))
    BY <1>7, Finite, Finite1 DEF Typed
  <1>14. Due("update")' \subseteq Due("update")
    BY <1>1, <1>9 DEF NoUpdates
  <1>15. Covered(s, a, u, changes, n)
    BY DEF Paid
  <1>16. Paid' <=> IsFiniteSet(Sent') /\ Covered(s1, a1, u1, changes, n)
    <2>1. Started' = Started
      BY DEF Started
    <2> QED
      BY <2>1 DEF Paid
  <1>17. CASE packet.msg.type = "update"
    <2>1. u1 <= u - 1
      <3>1. Due("update")' \subseteq Due("update") \ {d} /\ d \in Due("update")
        BY <1>10, <1>11, <1>14, <1>17
      <3>2. /\ IsFiniteSet(Due("update") \ {d})
            /\ Cardinality(Due("update") \ {d}) = u - 1
        <4> DEFINE D == Due("update")
                   e == d
        <4>1. IsFiniteSet(D) /\ e \in D /\ Cardinality(D) = u
          BY <1>13, <3>1
        <4> HIDE DEF D, e
        <4>2. IsFiniteSet(D \ {e}) /\ Cardinality(D \ {e}) = u - 1
          BY <4>1, FS_RemoveElement
        <4> QED
          BY <4>2 DEF D, e
      <3> QED
        BY <3>1, <3>2, FS_Subset
    <2>2. a1 <= a + (n - 1)
      <3>1. Due("add")' \subseteq Due("add") \cup (O \X {<<p, stamp[p] + 1>>})
        BY <1>9
      <3> HIDE DEF O
      <3>2. a1 <= a + Cardinality(O)
        BY <1>12, <1>13, <3>1, SomeMore
      <3> QED
        BY <1>12, <3>2
    <2> HIDE DEF s, a, u, n, s1, a1, u1
    <2>3. s1 <= s + 2
      <3> DEFINE k == Len(sent)
      <3>1. k \in 0 .. 2 /\ s1 <= s + k
        BY <1>6, <1>7
      <3> HIDE DEF k
      <3> QED
        BY <1>13, <3>1
    <2>4. Covered(s1, a1, u1, changes, n)
      BY <1>12, <1>13, <1>15, <2>1, <2>2, <2>3, ReceiptCovered
    <2> QED
      BY <1>7, <1>16, <2>4
  <1>18. CASE packet.msg.type = "add"
    <2>1. u1 <= u
      BY <1>13, <1>14, FS_Subset
    <2>2. Removals(sent)
      BY <1>1, <1>18
    <2>3. a1 <= a - 1
      <3>1. \A i \in DOMAIN sent : sent[i].type # "add"
        BY <2>2 DEF Removals
      <3>2. Due("add")' \subseteq Due("add") \ {d} /\ d \in Due("add")
        BY <1>9, <1>10, <1>11, <1>18, <3>1
      <3>3. /\ IsFiniteSet(Due("add") \ {d})
            /\ Cardinality(Due("add") \ {d}) = a - 1
        <4> DEFINE D == Due("add")
                   e == d
        <4>1. IsFiniteSet(D) /\ e \in D /\ Cardinality(D) = a
          BY <1>13, <3>2
        <4> HIDE DEF D, e
        <4>2. IsFiniteSet(D \ {e}) /\ Cardinality(D \ {e}) = a - 1
          BY <4>1, FS_RemoveElement
        <4> QED
          BY <4>2 DEF D, e
      <3> QED
        BY <3>2, <3>3, FS_Subset
    <2> HIDE DEF s, a, u, n, s1, a1, u1
    <2>4. s1 <= s + 1
      BY <1>6, <1>7, <1>13, <2>2 DEF Removals
    <2>5. Covered(s1, a1, u1, changes, n)
      BY <1>12, <1>13, <1>15, <2>1, <2>3, <2>4, ReceiptCovered
    <2> QED
      BY <1>7, <1>16, <2>5
  <1>19. CASE packet.msg.type = "remove"
    <2>1. sent = None /\ Len(sent) = 0 /\ DOMAIN sent = {}
      BY <1>1, <1>19 DEF None
    <2>2. u1 <= u /\ a1 <= a
      <3>1. Due("add")' \subseteq Due("add")
        BY <1>9, <2>1
      <3> QED
        BY <1>13, <1>14, <3>1, FS_Subset
    <2> HIDE DEF s, a, u, n, s1, a1, u1
    <2>3. s1 <= s
      BY <1>7, <1>13, <2>1
    <2>4. Covered(s1, a1, u1, changes, n)
      BY <1>12, <1>13, <1>15, <2>2, <2>3, LessCovered
    <2> QED
      BY <1>7, <1>16, <2>4
  <1> QED
    BY <1>8, <1>17, <1>18, <1>19 DEF Messages

\* Every step keeps the balance.
LEMMA NextPaid ==
  ASSUME Answers, Typed, Posted, Posted', Paid, Next
  PROVE  Paid'
  <1>1. PICK p \in Procs :
          \/ PlainStart(p) \/ NewStart(p) \/ MakeDir(p) \/ BindPid(p) \/ ListenPid(p)
          \/ TryMain(p) \/ UnlinkMain(p) \/ BindMain(p) \/ ListenMain(p)
          \/ UserChange(p) \/ Look(p) \/ Receive(p) \/ Save(p)
          \/ Quit(p) \/ Cleanup(p) \/ Crash(p)
    BY DEF Next
  <1>2. CASE \/ PlainStart(p) \/ NewStart(p) \/ MakeDir(p) \/ BindPid(p) \/ ListenPid(p)
             \/ TryMain(p) \/ UnlinkMain(p) \/ BindMain(p) \/ ListenMain(p)
    <2>1. UNCHANGED <<ipcVars, listVars>>
      BY <1>2, StartsPost
    <2>2. UNCHANGED <<stamp, changes, queue, seen>>
      BY <2>1 DEF ipcVars, listVars
    <2>3. Started' = Started \/ \E q \in Procs \ Started : Started' = Started \cup {q}
      <3>1. PICK where : MoveTo(p, where) /\ where # "off" 
        BY <1>2 DEF PlainStart, NewStart, MakeDir, BindPid, ListenPid, TryMain, UnlinkMain, BindMain,
                    ListenMain
      <3>2. at'[p] = where /\ \A q \in Procs : q # p => at'[q] = at[q]
        BY <3>1 DEF MoveTo, Answers
      <3>3. CASE p \in Started
        BY <3>1, <3>2, <3>3 DEF Started
      <3>4. CASE p \notin Started
        <4>1. Started' = Started \cup {p}
          BY <3>1, <3>2, <3>4 DEF Started
        <4> QED
          BY <3>4, <4>1
      <3> QED
        BY <3>3, <3>4
    <2>4. \A q \in Procs : \A pk \in Waiting(queue', q) : pk \in Waiting(queue, q) /\ seen'[q] = seen[q]
      BY <2>2
    <2> QED
      BY <2>2, <2>3, <2>4, KeptPaid
  <1>3. CASE UserChange(p)
    BY <1>3, UserChangePaid
  <1>4. CASE Look(p) \/ Save(p) \/ Quit(p)
    <2>1. UNCHANGED <<stamp, changes, queue, seen>>
      BY <1>4 DEF Look, Save, Quit, ipcVars, Change
    <2>2. Started' = Started
      BY <1>4 DEF Look, Save, Quit, MoveTo, Started, Answers
    <2>3. \A q \in Procs : \A pk \in Waiting(queue', q) : pk \in Waiting(queue, q) /\ seen'[q] = seen[q]
      BY <2>1
    <2> QED
      BY <2>1, <2>2, <2>3, KeptPaid
  <1>5. CASE Receive(p)
    <2>1. UNCHANGED <<at, sockets, changes, disturbed>> /\ at[p] = "running"
      BY <1>5, ReceiveIs
    <2>2. PICK n, packet, w :
            /\ n \in {p, Main} /\ packet \in Packets
            /\ Takes(p, n, packet, w) /\ (Heeds(p, packet, w) \/ Ignores(p, packet, w))
      BY <1>5, ReceiveIs
    <2>3. CASE Heeds(p, packet, w)
      BY <2>1, <2>2, <2>3, ReceivePaid
    <2>4. CASE Ignores(p, packet, w)
      <3>1. UNCHANGED <<stamp, changes, seen>> /\ queue' = w /\ Started' = Started
        BY <2>1, <2>4 DEF Ignores, Started
      <3>2. Queues(queue)
        BY DEF Typed
      <3>3. \A q \in Procs : Waiting(w, q) \subseteq Waiting(queue, q)
        BY <2>2, <3>2, HeadTaken
      <3>4. \A q \in Procs : \A pk \in Waiting(queue', q) : pk \in Waiting(queue, q) /\ seen'[q] = seen[q]
        BY <3>1, <3>3
      <3> QED
        BY <3>1, <3>4, KeptPaid
    <2> QED
      BY <2>2, <2>3, <2>4
  <1>6. CASE Cleanup(p) \/ Crash(p)
    <2>1. /\ Forgotten(p) /\ UNCHANGED <<stamp, file, changes>> /\ pending' \subseteq pending
          /\ at'[p] # "off" /\ \A q \in Procs : q # p => at'[q] = at[q]
          /\ at[p] # "off"
      BY <1>6 DEF Cleanup, Crash, MoveTo, Answers, Alive, Starting
    <2>2. Started' = Started
      BY <2>1 DEF Started
    <2>3. /\ Waiting(queue', p) = {}
          /\ \A q \in Procs : q # p => Waiting(queue', q) = Waiting(queue, q) /\ seen'[q] = seen[q]
      BY <2>1, LeavingPosts
    <2>4. \A q \in Procs : \A pk \in Waiting(queue', q) : pk \in Waiting(queue, q) /\ seen'[q] = seen[q]
      BY <2>3
    <2> QED
      BY <2>1, <2>2, <2>4, KeptPaid
  <1> QED
    BY <1>1, <1>2, <1>3, <1>4, <1>5, <1>6

\* Nothing was sent at first.
LEMMA InitPaid ==
  ASSUME Init
  PROVE  Typed /\ Posted /\ Paid
  <1>1. file \in Lists
    BY RecentFilesAssumption DEF RecentFilesAssumption, Init, Lists, Uniques, Items
  <1>2. <<>> \in Lists
    BY EmptySeq, RecentFilesAssumption DEF RecentFilesAssumption, Lists, Uniques
  <1>3. Queues(queue) /\ \A p \in Procs : Waiting(queue, p) = {}
    BY DEF Init, Queues, Waiting, ToSet
  <1>4. Typed
    BY <1>1, <1>2, <1>3 DEF Init, Typed
  <1>5. Posted
    <2>1. \A p, q \in Procs : seen[p][q] <= stamp[q]
      BY DEF Init
    <2>2. \A p \in Procs : sockets[p] = {}
      BY DEF Init
    <2> QED
      BY <1>3, <2>1, <2>2 DEF Posted
  <1>6. Sent = {}
    BY InSent DEF Init
  <1>7. Started = {}
    BY DEF Init, Started
  <1>8. Due("add") = {} /\ Due("update") = {}
    BY <1>6 DEF Due
  <1>9. IsFiniteSet({}) /\ Cardinality({}) = 0
    BY FS_EmptySet
  <1>10. changes = 0
    BY DEF Init
  <1>11. Covered(0, 0, 0, 0, 0)
    <2>1. 0 - 1 = -1 /\ 0 * Cost(-1) = 0
      BY CostOfNone
    <2> QED
      BY <2>1 DEF Covered
  <1>12. Paid
    BY <1>6, <1>7, <1>8, <1>9, <1>10, <1>11 DEF Paid
  <1> QED
    BY <1>4, <1>5, <1>12

\* The invariant behind the bound: every message that was sent, and what those on
\* their way may still bring about in ipc_callback, is paid for by a user's change.
THEOREM MessagesPaid == Spec => [](Answers /\ Typed /\ Posted /\ Paid)
  <1>1. Init => Typed /\ Posted /\ Paid
    BY InitPaid
  <1>2. Typed /\ Posted /\ Paid /\ Answers /\ [Next]_vars => Typed' /\ Posted' /\ Paid'
    <2>1. ASSUME Typed, Posted, Paid, Answers, Next PROVE Typed' /\ Posted' /\ Paid'
      BY <2>1, NextPosts, NextPaid
    <2>2. ASSUME Typed, Posted, Paid, UNCHANGED vars PROVE Typed' /\ Posted' /\ Paid'
      <3>1. UNCHANGED <<queue, stamp, seen, list, loaded, pending, file, changes, at, sockets>>
        BY <2>2 DEF vars, ipcVars, listVars
      <3>2. Typed'
        BY <2>2, <3>1 DEF Typed, Queues
      <3>3. Posted'
        BY <2>2, <3>1 DEF Posted, Waiting
      <3>4. Paid'
        <4>1. Sent' = Sent /\ Started' = Started /\ Due("add")' = Due("add") /\ Due("update")' = Due("update")
          BY <3>1 DEF Sent, Started, Due, Waiting
        <4> QED
          BY <2>2, <3>1, <4>1 DEF Paid
      <3> QED
        BY <3>2, <3>3, <3>4
    <2> QED
      BY <2>1, <2>2
  <1> QED
    BY <1>1, <1>2, InstancesAnswer, PTL DEF Spec

\* However messages overtake each other, and whatever full lists and missing items
\* make of them, moo_history_mgr_*_real answers a change with a bounded number of
\* messages: instances do not keep each other busy.
THEOREM EchoesAreBounded == Spec => []EchoesBounded
  <1>1. ASSUME Typed, Paid PROVE EchoesBounded
    <2> DEFINE s == Cardinality(Sent)
               a == Cardinality(Due("add"))
               u == Cardinality(Due("update"))
               n == Cardinality(Started)
               k == changes * Cost(n - 1)
    <2>1. s \in Nat /\ a \in Nat /\ u \in Nat /\ n \in Nat /\ changes \in Nat
      BY <1>1, Finite, StartedFinite DEF Typed, Paid
    <2>2. Covered(s, a, u, changes, n)
      BY <1>1 DEF Paid
    <2>3. Covered(s, 0, 0, changes, n)
      <3> HIDE DEF s, a, u, n
      <3> QED
        BY <2>1, <2>2, LessCovered
    <2>4. s <= k
      <3> HIDE DEF s, n
      <3>1. s + 0 + (2 + (n - 1)) * 0 <= k
        BY <2>3 DEF Covered
      <3>2. (2 + (n - 1)) * 0 = 0 /\ s + 0 + 0 = s
        BY <2>1
      <3> QED
        BY <3>1, <3>2
    <2> QED
      BY <2>4 DEF EchoesBounded, Cost
  <1> QED
    BY <1>1, MessagesPaid, PTL

-----------------------------------------------------------------------------
(***************************************************************************)
(* The lists settle: those without the last change will hear of it first.  *)
(***************************************************************************)

\* In a queue, the message number s of o comes before all others of o.
InOrder(q, o, s) ==
  \A j \in DOMAIN q : q[j].from = o /\ q[j].stamp # s =>
    \E i \in 1 .. j - 1 : q[i].from = o /\ q[i].stamp = s

\* That message waits for p, and is one of M.
Expects(q, p, M, o, s) ==
  /\ \E pk \in Waiting(q, p) : pk.from = o /\ pk.stamp = s
  /\ \A pk \in Waiting(q, p) : pk.from = o /\ pk.stamp = s => pk.msg \in M
  /\ \A n \in {p, Main} : InOrder(q[p][n], o, s)

\* It is the first that p will hear of o.
Awaits(p, M, o, s) ==
  /\ o \in Procs \ {p} /\ p \notin struck /\ seen[p][o] < s
  /\ Expects(queue, p, M, o, s)

\* What is in front of such a queue,
LEMMA OrderHead ==
  ASSUME NEW q \in Seq(Packets), q # <<>>, NEW o, NEW s, InOrder(q, o, s), q[1].from = o
  PROVE  q[1].stamp = s
  <1>1. 1 \in DOMAIN q
    BY Listed
  <1> QED
    BY <1>1 DEF InOrder

\* what is left of it when another message is taken,
LEMMA OrderTail ==
  ASSUME NEW q, NEW t, NEW k \in Nat \ {0}, DOMAIN q = 1 .. k, DOMAIN t = 1 .. k - 1,
         \A i \in 1 .. k - 1 : t[i] = q[i + 1],
         NEW o, NEW s, InOrder(q, o, s), ~(q[1].from = o /\ q[1].stamp = s)
  PROVE  InOrder(t, o, s)
  <1> SUFFICES ASSUME NEW j \in DOMAIN t, t[j].from = o, t[j].stamp # s
               PROVE  \E i \in 1 .. j - 1 : t[i].from = o /\ t[i].stamp = s
    BY DEF InOrder
  <1>1. j + 1 \in DOMAIN q /\ t[j] = q[j + 1] /\ j \in Nat
    OBVIOUS
  <1>2. PICK i \in 1 .. (j + 1) - 1 : q[i].from = o /\ q[i].stamp = s
    BY <1>1 DEF InOrder
  <1>3. i # 1
    BY <1>2
  <1>4. i - 1 \in 1 .. j - 1 /\ i - 1 \in 1 .. k - 1 /\ (i - 1) + 1 = i
    BY <1>1, <1>2, <1>3
  <1>5. t[i - 1] = q[i]
    BY <1>4
  <1> QED
    BY <1>2, <1>4, <1>5

\* and what it is when others send.
LEMMA OrderJoin ==
  ASSUME NEW q \in Seq(Packets), NEW t \in Seq(Packets), NEW o, NEW s, InOrder(q, o, s),
         \A i \in DOMAIN t : t[i].from # o
  PROVE  InOrder(q \o t, o, s)
  <1> DEFINE u == q \o t
  <1>1. /\ DOMAIN u = 1 .. Len(q) + Len(t)
        /\ \A i \in 1 .. Len(q) + Len(t) : u[i] = IF i <= Len(q) THEN q[i] ELSE t[i - Len(q)]
        /\ Len(q) \in Nat /\ DOMAIN q = 1 .. Len(q) /\ Len(t) \in Nat /\ DOMAIN t = 1 .. Len(t)
    BY Joined, Listed
  <1> HIDE DEF u
  <1> SUFFICES ASSUME NEW j \in DOMAIN u, u[j].from = o, u[j].stamp # s
               PROVE  \E i \in 1 .. j - 1 : u[i].from = o /\ u[i].stamp = s
    BY DEF InOrder, u
  <1>2. j <= Len(q)
    <2> SUFFICES ASSUME ~(j <= Len(q)) PROVE FALSE
      OBVIOUS
    <2>1. j - Len(q) \in DOMAIN t /\ u[j] = t[j - Len(q)]
      BY <1>1
    <2> QED
      BY <2>1
  <1>3. j \in DOMAIN q /\ u[j] = q[j]
    BY <1>1, <1>2
  <1>4. PICK i \in 1 .. j - 1 : q[i].from = o /\ q[i].stamp = s
    BY <1>3 DEF InOrder
  <1>5. u[i] = q[i]
    BY <1>1, <1>2, <1>4
  <1> QED
    BY <1>4, <1>5

\* Another message is taken, by p or by another instance.
LEMMA ExpectsTaken ==
  ASSUME Queues(queue), NEW p \in Procs, NEW n \in {p, Main}, NEW packet, NEW w,
         Takes(p, n, packet, w), NEW q \in Procs, NEW M, NEW o, NEW s, Expects(queue, q, M, o, s),
         q = p => ~(packet.from = o /\ packet.stamp = s)
  PROVE  Expects(w, q, M, o, s)
  <1>1. /\ Len(queue[p][n]) \in Nat \ {0} /\ packet = queue[p][n][1]
        /\ Len(w[p][n]) = Len(queue[p][n]) - 1
        /\ DOMAIN queue[p][n] = 1 .. Len(queue[p][n]) /\ DOMAIN w[p][n] = 1 .. Len(w[p][n])
        /\ \A i \in 1 .. Len(w[p][n]) : w[p][n][i] = queue[p][n][i + 1]
    <2>1. /\ Len(queue[p][n]) \in Nat \ {0} /\ packet = queue[p][n][1]
          /\ Len(w[p][n]) = Len(queue[p][n]) - 1
      BY HeadTaken
    <2>2. DOMAIN queue[p][n] = 1 .. Len(queue[p][n]) /\ DOMAIN w[p][n] = 1 .. Len(w[p][n])
      BY HeadTaken
    <2>3. \A i \in 1 .. Len(w[p][n]) : w[p][n][i] = queue[p][n][i + 1]
      BY HeadTaken
    <2> QED
      BY <2>1, <2>2, <2>3
  <1>2. /\ \A p1 \in Procs : \A n1 \in {p1, Main} : p1 # p \/ n1 # n => w[p1][n1] = queue[p1][n1]
        /\ \A p1 \in Procs : Waiting(w, p1) \subseteq Waiting(queue, p1)
    BY HeadTaken
  <1>3. CASE q # p
    <2>1. w[q][q] = queue[q][q] /\ w[q][Main] = queue[q][Main]
      BY <1>2, <1>3
    <2> QED
      BY <2>1 DEF Expects, Waiting
  <1>4. CASE q = p
    <2>1. \A n1 \in {p, Main} : InOrder(w[p][n1], o, s)
      <3> SUFFICES ASSUME NEW n1 \in {p, Main} PROVE InOrder(w[p][n1], o, s)
        OBVIOUS
      <3>1. InOrder(queue[p][n1], o, s)
        BY <1>4 DEF Expects
      <3>2. CASE n1 = n
        <4> DEFINE a == queue[p][n]
                   b == w[p][n]
                   k == Len(a)
        <4>1. /\ k \in Nat \ {0} /\ DOMAIN a = 1 .. k /\ DOMAIN b = 1 .. k - 1
              /\ \A i \in 1 .. k - 1 : b[i] = a[i + 1]
              /\ InOrder(a, o, s) /\ ~(a[1].from = o /\ a[1].stamp = s)
          BY <1>1, <1>4, <3>1, <3>2
        <4> HIDE DEF a, b, k
        <4>2. InOrder(b, o, s)
          BY <4>1, OrderTail
        <4> QED
          BY <3>2, <4>2 DEF b
      <3>3. CASE n1 # n
        BY <1>2, <3>1, <3>3
      <3> QED
        BY <3>2, <3>3
    <2>2. \A pk \in Waiting(w, p) : pk.from = o /\ pk.stamp = s => pk.msg \in M
      BY <1>2, <1>4 DEF Expects
    <2>3. \E pk \in Waiting(w, p) : pk.from = o /\ pk.stamp = s
      <3>1. PICK pk \in Waiting(queue, p) : pk.from = o /\ pk.stamp = s
        BY <1>4 DEF Expects
      <3>2. PICK n1 \in {p, Main} : pk \in ToSet(queue[p][n1])
        BY DEF Waiting
      <3>3. CASE n1 # n
        BY <1>2, <3>1, <3>2, <3>3 DEF Waiting
      <3>4. CASE n1 = n
        <4>1. PICK i \in DOMAIN queue[p][n] : pk = queue[p][n][i]
          BY <3>2, <3>4 DEF ToSet
        <4>2. i # 1
          BY <1>1, <1>4, <3>1, <4>1
        <4>3. i - 1 \in DOMAIN w[p][n] /\ (i - 1) + 1 = i /\ i - 1 \in 1 .. Len(w[p][n])
          <5> DEFINE k == Len(queue[p][n])
          <5>1. /\ k \in Nat \ {0} /\ i \in 1 .. k
                /\ DOMAIN w[p][n] = 1 .. k - 1 /\ 1 .. Len(w[p][n]) = 1 .. k - 1
            BY <1>1, <4>1
          <5> HIDE DEF k
          <5>2. i - 1 \in 1 .. k - 1 /\ (i - 1) + 1 = i
            BY <4>2, <5>1
          <5> QED
            BY <5>1, <5>2
        <4>4. w[p][n][i - 1] = pk
          BY <1>1, <4>1, <4>3
        <4>5. pk \in ToSet(w[p][n])
          BY <4>3, <4>4 DEF ToSet
        <4> QED
          BY <3>1, <4>5 DEF Waiting
      <3> QED
        BY <3>3, <3>4
    <2> QED
      BY <1>4, <2>1, <2>2, <2>3 DEF Expects
  <1> QED
    BY <1>3, <1>4

\* Others than o send.
LEMMA ExpectsSent ==
  ASSUME stamp \in [Procs -> Nat], NEW p \in Procs, NEW msgs, Brief(msgs), NEW w, Queues(w),
         Sends(p, msgs, w), NEW q \in Procs, NEW M, NEW o, NEW s, Expects(w, q, M, o, s), p # o
  PROVE  Expects(queue', q, M, o, s)
  <1> DEFINE t == Stamped(p, msgs)
  <1>1. t \in Seq(Packets) /\ \A i \in DOMAIN t : t[i].from = p
    BY StampedFacts, Listed
  <1>2. \A n \in {q, Main} : /\ w[q][n] \in Seq(Packets)
                             /\ queue'[q][n] = w[q][n] \/ queue'[q][n] = w[q][n] \o t
    BY DEF Sends, Queues
  <1> HIDE DEF t
  <1>3. \A n \in {q, Main} : InOrder(queue'[q][n], o, s)
    <2> SUFFICES ASSUME NEW n \in {q, Main} PROVE InOrder(queue'[q][n], o, s)
      OBVIOUS
    <2>1. InOrder(w[q][n], o, s)
      BY DEF Expects
    <2>2. InOrder(w[q][n] \o t, o, s)
      <3> DEFINE a == w[q][n]
      <3>1. a \in Seq(Packets) /\ InOrder(a, o, s)
        BY <1>2, <2>1
      <3> HIDE DEF a
      <3>2. InOrder(a \o t, o, s)
        BY <1>1, <3>1, OrderJoin
      <3> QED
        BY <3>2 DEF a
    <2> QED
      BY <1>2, <2>1, <2>2
  <1>4. ASSUME NEW pk \in Waiting(w, q) PROVE pk \in Waiting(queue', q)
    <2>1. PICK n \in {q, Main} : pk \in ToSet(w[q][n])
      BY DEF Waiting
    <2>2. ToSet(w[q][n] \o t) = ToSet(w[q][n]) \cup ToSet(t)
      BY <1>1, <1>2, Joined
    <2>3. pk \in ToSet(queue'[q][n])
      BY <1>2, <2>1, <2>2
    <2> QED
      BY <2>3 DEF Waiting
  <1>5. ASSUME NEW pk \in Waiting(queue', q), pk.from = o PROVE pk \in Waiting(w, q)
    BY <1>5, SendsWaiting
  <1> QED
    BY <1>3, <1>4, <1>5 DEF Expects

\* Whoever is removed for not answering did not listen.
LEMMA StruckSilent ==
  ASSUME Answers, NEW q \in Procs, at[q] \in Listening, q \notin struck,
         NEW names, \A n \in names : ~Reaches(n), struck' = Struck(names)
  PROVE  q \notin struck'
  <1>1. owner[q] = q /\ q \in sockets[q]
    BY Stations DEF Answers
  <1>2. Reaches(q)
    BY <1>1, RecentFilesAssumption DEF Reaches, RecentFilesAssumption
  <1> QED
    BY <1>2 DEF Struck

\* A broadcast is one such removal.
LEMMA SendsUnstruck ==
  ASSUME Answers, NEW q \in Procs, at[q] \in Listening, q \notin struck,
         NEW p, NEW msgs, NEW w, Broadcast(p, msgs, w)
  PROVE  q \notin struck'
  <1> DEFINE dead == {n \in {n \in Names : owner[n] # Nobody /\ n \notin sockets[p]} : ~Reaches(n)}
  <1>1. CASE msgs = <<>>
    BY <1>1 DEF Broadcast
  <1>2. CASE msgs # <<>>
    <2>1. struck' = Struck(dead) /\ \A n \in dead : ~Reaches(n)
      BY <1>2 DEF Broadcast
    <2> HIDE DEF dead
    <2> QED
      BY <2>1, StruckSilent
  <1> QED
    BY <1>1, <1>2

\* An instance that listens keeps its name as long as it runs.
LEMMA StaysUnstruck ==
  ASSUME Answers, Typed, Next, NEW q \in Procs, at[q] \in Listening, q \notin struck
  PROVE  q \notin struck'
  <1>1. PICK p \in Procs :
          \/ PlainStart(p) \/ NewStart(p) \/ MakeDir(p) \/ BindPid(p) \/ ListenPid(p)
          \/ TryMain(p) \/ UnlinkMain(p) \/ BindMain(p) \/ ListenMain(p)
          \/ UserChange(p) \/ Look(p) \/ Receive(p) \/ Save(p)
          \/ Quit(p) \/ Cleanup(p) \/ Crash(p)
    BY DEF Next
  <1>2. CASE PlainStart(p)
    <2> DEFINE dead == {n \in Names : ~Reaches(n)}
    <2>1. CASE struck' = struck
      BY <2>1
    <2>2. ASSUME NEW met \in SUBSET (dead \ {Main}), struck' = Struck(met \cup {Main}), ~Reaches(Main)
          PROVE  q \notin struck'
      BY <2>2, StruckSilent
    <2>3. ASSUME struck' = Struck(dead) PROVE q \notin struck'
      BY <2>3, StruckSilent
    <2> QED
      BY <1>2, <2>1, <2>2, <2>3 DEF PlainStart, sharedVars
  <1>3. CASE BindPid(p)
    <2>1. q # p
      BY <1>3, Stations DEF BindPid
    <2> QED
      BY <1>3, <2>1 DEF BindPid
  <1>4. CASE UserChange(p)
    <2>1. PICK m, new, sent : m \in Messages /\ new \in Lists /\ Broadcast(p, sent, queue)
      BY <1>4, UserChangeIs
    <2> QED
      BY <2>1, SendsUnstruck
  <1>5. CASE Receive(p)
    <2>1. PICK n, packet, w :
            /\ n \in {p, Main} /\ packet \in Packets
            /\ Takes(p, n, packet, w) /\ (Heeds(p, packet, w) \/ Ignores(p, packet, w))
      BY <1>5, ReceiveIs
    <2>2. CASE Heeds(p, packet, w)
      <3>1. PICK new, sent : new \in Lists /\ Broadcast(p, sent, w)
        BY <2>2 DEF Heeds
      <3> QED
        BY <3>1, SendsUnstruck
    <2>3. CASE Ignores(p, packet, w)
      BY <2>3 DEF Ignores, sharedVars
    <2> QED
      BY <2>1, <2>2, <2>3
  <1>6. CASE NewStart(p) \/ MakeDir(p) \/ ListenPid(p) \/ TryMain(p) \/ UnlinkMain(p) \/ BindMain(p)
             \/ ListenMain(p) \/ Look(p) \/ Save(p) \/ Quit(p) \/ Cleanup(p) \/ Crash(p)
    BY <1>6 DEF NewStart, MakeDir, ListenPid, TryMain, UnlinkMain, BindMain, ListenMain, Look,
       Save, Quit, Cleanup, Crash, sharedVars
  <1> QED
    BY <1>1, <1>2, <1>3, <1>4, <1>5, <1>6

\* Names are in the directory; an instance that does not run yet has read no list,
\* and one that has not started was sent nothing.
Orderly ==
  /\ dir \in BOOLEAN
  /\ \A n \in Names : owner[n] # Nobody => dir
  /\ \A p \in Procs : /\ at[p] \in Starting \cup {"off"} => p \notin loaded
                      /\ at[p] = "off" => Waiting(queue, p) = {}

\* Removing names, and sending, keeps this.
LEMMA NamesInDir ==
  ASSUME Orderly, NEW names, owner' = Unlinked(names)
  PROVE  \A n \in Names : owner'[n] # Nobody => owner[n] # Nobody /\ dir
  BY DEF Orderly, Unlinked

LEMMA SendsInDir ==
  ASSUME Orderly, NEW p, NEW msgs, NEW w, Broadcast(p, msgs, w)
  PROVE  UNCHANGED dir /\ \A n \in Names : owner'[n] # Nobody => dir
  <1> DEFINE dead == {n \in {n \in Names : owner[n] # Nobody /\ n \notin sockets[p]} : ~Reaches(n)}
  <1>1. CASE msgs = <<>>
    BY <1>1 DEF Broadcast, Orderly
  <1>2. CASE msgs # <<>>
    <2>1. owner' = Unlinked(dead) /\ UNCHANGED dir
      BY <1>2 DEF Broadcast
    <2> HIDE DEF dead
    <2> QED
      BY <2>1, NamesInDir
  <1> QED
    BY <1>1, <1>2

\* Steps that touch neither lists nor messages.
LEMMA StartsOrderly ==
  ASSUME Orderly, UNCHANGED <<queue, loaded>>, dir' \in BOOLEAN,
         \A n \in Names : owner'[n] # Nobody => dir',
         \A q \in Procs : /\ at'[q] \in Starting \cup {"off"} => at[q] \in Starting \cup {"off"}
                          /\ at'[q] = "off" => at[q] = "off"
  PROVE  Orderly'
  BY DEF Orderly, Waiting

\* A broadcast with the change of a list.
LEMMA SendingOrderly ==
  ASSUME Orderly, Posted, NEW p \in Procs, at[p] = "running", stamp \in [Procs -> Nat],
         NEW sent, Brief(sent), NEW w, Queues(w),
         \A q \in Procs : Waiting(w, q) \subseteq Waiting(queue, q),
         Broadcast(p, sent, w), Sends(p, sent, w), UNCHANGED <<at, sockets>>,
         loaded' = loaded \cup {p}
  PROVE  Orderly'
  <1>1. UNCHANGED dir /\ \A n \in Names : owner'[n] # Nobody => dir
    BY SendsInDir
  <1>2. ASSUME NEW q \in Procs, at[q] = "off" PROVE Waiting(queue', q) = {}
    <2>1. sockets[q] = {} /\ Waiting(w, q) = {}
      BY <1>2 DEF Posted, Orderly
    <2> QED
      BY <2>1, SendsWaiting
  <1>3. ASSUME NEW q \in Procs, at[q] \in Starting \cup {"off"} PROVE q \notin loaded'
    <2>1. q # p
      BY <1>3 DEF Starting
    <2> QED
      BY <1>3, <2>1 DEF Orderly
  <1> QED
    BY <1>1, <1>2, <1>3 DEF Orderly

\* An instance moves on.
LEMMA MovedOrderly ==
  ASSUME Answers, Orderly, NEW p \in Procs, NEW where, MoveTo(p, where), where # "off",
         where \in Starting => at[p] \in Starting \cup {"off"},
         UNCHANGED <<queue, loaded>>, dir' \in BOOLEAN,
         \A n \in Names : owner'[n] # Nobody => dir'
  PROVE  Orderly'
  <1>1. at'[p] = where /\ \A q \in Procs : q # p => at'[q] = at[q]
    BY DEF Answers, MoveTo
  <1>2. \A q \in Procs : /\ at'[q] \in Starting \cup {"off"} => at[q] \in Starting \cup {"off"}
                         /\ at'[q] = "off" => at[q] = "off"
    BY <1>1
  <1> QED
    BY <1>2, StartsOrderly

\* So do the steps of a start.
LEMMA StartOrderly ==
  ASSUME Answers, Orderly, NEW p \in Procs,
         \/ PlainStart(p) \/ NewStart(p) \/ MakeDir(p) \/ BindPid(p) \/ ListenPid(p)
         \/ TryMain(p) \/ UnlinkMain(p) \/ BindMain(p) \/ ListenMain(p)
  PROVE  Orderly'
  <1>0. dir \in BOOLEAN /\ \A n \in Names : owner[n] # Nobody => dir
    BY DEF Orderly
  <1>1. CASE PlainStart(p)
    <2>1. PICK where \in {"handed_over", "init"} : MoveTo(p, where) /\ at[p] = "off"
      BY <1>1 DEF PlainStart
    <2>2. UNCHANGED <<queue, loaded, dir>>
      BY <1>1 DEF PlainStart, ipcVars, listVars, sharedVars
    <2>3. owner' = owner \/ \E names : owner' = Unlinked(names)
      BY <1>1 DEF PlainStart, sharedVars
    <2>4. \A n \in Names : owner'[n] # Nobody => dir'
      BY <1>0, <2>2, <2>3, NamesInDir
    <2> QED
      BY <1>0, <2>1, <2>2, <2>4, MovedOrderly DEF Starting
  <1>2. CASE NewStart(p)
    BY <1>0, <1>2, MovedOrderly DEF NewStart, Starting, ipcVars, listVars, sharedVars
  <1>3. CASE MakeDir(p)
    BY <1>0, <1>3, MovedOrderly DEF MakeDir, Starting, ipcVars, listVars
  <1>4. CASE BindPid(p)
    <2>1. PICK where \in {"listen_pid", "try_main"} : MoveTo(p, where) /\ at[p] = "bind_pid"
      BY <1>4 DEF BindPid
    <2>2. UNCHANGED <<queue, loaded, dir>> /\ (dir \/ owner' = owner)
      BY <1>0, <1>4 DEF BindPid, ipcVars, listVars
    <2>3. \A n \in Names : owner'[n] # Nobody => dir'
      BY <1>0, <2>2
    <2> QED
      BY <1>0, <2>1, <2>2, <2>3, MovedOrderly DEF Starting
  <1>5. CASE ListenPid(p)
    BY <1>0, <1>5, MovedOrderly DEF ListenPid, Starting, ipcVars, listVars, sharedVars
  <1>6. CASE TryMain(p)
    <2>1. PICK where \in {"running", "unlink_main"} : MoveTo(p, where) /\ at[p] = "try_main"
      BY <1>6 DEF TryMain
    <2>2. UNCHANGED <<queue, loaded>> /\ dir' = TRUE
      BY <1>6 DEF TryMain, ipcVars, listVars
    <2> QED
      BY <2>1, <2>2, MovedOrderly DEF Starting
  <1>7. CASE UnlinkMain(p)
    <2>1. UNCHANGED <<queue, loaded, dir>> /\ MoveTo(p, "bind_main") /\ at[p] = "unlink_main"
      BY <1>7 DEF UnlinkMain, ipcVars, listVars
    <2>2. \A n \in Names : owner'[n] # Nobody => dir'
      BY <1>7, <2>1, NamesInDir DEF UnlinkMain
    <2> QED
      BY <1>0, <2>1, <2>2, MovedOrderly DEF Starting
  <1>8. CASE BindMain(p)
    <2>1. PICK where \in {"listen_main", "running"} : MoveTo(p, where) /\ at[p] = "bind_main"
      BY <1>8 DEF BindMain
    <2>2. UNCHANGED <<queue, loaded>>
      BY <1>8 DEF BindMain, ipcVars, listVars
    <2>3. \/ dir /\ dir' = dir
          \/ dir' = DirAfter(owner) /\ owner' = owner
      BY <1>8 DEF BindMain
    <2>4. dir' \in BOOLEAN
      BY <1>0, <2>3 DEF DirAfter
    <2>5. \A n \in Names : owner'[n] # Nobody => dir'
      BY <1>0, <2>3 DEF DirAfter
    <2> QED
      BY <2>1, <2>2, <2>4, <2>5, MovedOrderly DEF Starting
  <1>9. CASE ListenMain(p)
    BY <1>0, <1>9, MovedOrderly DEF ListenMain, Starting, ipcVars, listVars, sharedVars
  <1> QED
    BY <1>1, <1>2, <1>3, <1>4, <1>5, <1>6, <1>7, <1>8, <1>9

\* An instance goes, and leaves nothing behind.
LEMMA LeavingOrderly ==
  ASSUME Answers, Orderly, Typed, Posted, NEW p \in Procs, Forgotten(p),
         UNCHANGED <<stamp, file, changes>>, pending' \subseteq pending,
         NEW where \in {"ended", "crashed"}, MoveTo(p, where), dir' \in BOOLEAN,
         \A n \in Names : owner'[n] # Nobody => dir'
  PROVE  Orderly'
  <1>1. at'[p] = where /\ \A q \in Procs : q # p => at'[q] = at[q]
    BY DEF Answers, MoveTo
  <1>2. /\ Waiting(queue', p) = {}
        /\ \A q \in Procs : q # p => Waiting(queue', q) = Waiting(queue, q)
    BY <1>1, LeavingPosts
  <1>3. loaded' = loaded \ {p}
    BY DEF Forgotten
  <1> QED
    BY <1>1, <1>2, <1>3 DEF Orderly, Starting

\* Every step keeps the order.
LEMMA NextOrderly ==
  ASSUME Answers, Typed, Posted, Orderly, Next
  PROVE  Orderly'
  <1>0. dir \in BOOLEAN /\ (\A n \in Names : owner[n] # Nobody => dir) /\ stamp \in [Procs -> Nat]
        /\ Queues(queue)
    BY DEF Orderly, Typed
  <1>1. PICK p \in Procs :
          \/ PlainStart(p) \/ NewStart(p) \/ MakeDir(p) \/ BindPid(p) \/ ListenPid(p)
          \/ TryMain(p) \/ UnlinkMain(p) \/ BindMain(p) \/ ListenMain(p)
          \/ UserChange(p) \/ Look(p) \/ Receive(p) \/ Save(p)
          \/ Quit(p) \/ Cleanup(p) \/ Crash(p)
    BY DEF Next
  <1>2. CASE \/ PlainStart(p) \/ NewStart(p) \/ MakeDir(p) \/ BindPid(p) \/ ListenPid(p)
             \/ TryMain(p) \/ UnlinkMain(p) \/ BindMain(p) \/ ListenMain(p)
    BY <1>2, StartOrderly
  <1>3. CASE UserChange(p)
    <2>1. PICK m, new, sent :
            /\ m \in Messages /\ new \in Lists
            /\ Brief(sent) /\ Changed(p, new, sent) /\ Broadcast(p, sent, queue)
      BY <1>3, UserChangeIs
    <2>2. UNCHANGED <<at, sockets>> /\ at[p] = "running"
      BY <1>3 DEF UserChange
    <2>3. Sends(p, sent, queue)
      BY <1>0, <2>1, BroadcastSends
    <2>4. loaded' = loaded \cup {p}
      BY <2>1 DEF Changed
    <2> QED
      BY <1>0, <2>1, <2>2, <2>3, <2>4, SendingOrderly
  <1>4. CASE Look(p)
    <2>1. /\ UNCHANGED <<at, queue, dir, owner>> /\ at[p] = "running"
          /\ loaded' = loaded \cup {p}
      BY <1>4 DEF Look, Change, ipcVars, sharedVars
    <2> QED
      BY <2>1 DEF Orderly, Waiting, Starting
  <1>5. CASE Receive(p)
    <2>1. PICK n, packet, w :
            /\ n \in {p, Main} /\ packet \in Packets
            /\ Takes(p, n, packet, w) /\ (Heeds(p, packet, w) \/ Ignores(p, packet, w))
      BY <1>5, ReceiveIs
    <2>2. UNCHANGED <<at, sockets>> /\ at[p] = "running"
      BY <1>5, ReceiveIs
    <2>3. /\ Queues(w) /\ \A q \in Procs : Waiting(w, q) \subseteq Waiting(queue, q)
      BY <1>0, <2>1, HeadTaken
    <2>4. CASE Heeds(p, packet, w)
      <3>1. PICK new, sent : new \in Lists /\ Brief(sent) /\ Changed(p, new, sent) /\ Broadcast(p, sent, w)
        BY <2>4 DEF Heeds
      <3>2. Sends(p, sent, w)
        BY <1>0, <2>3, <3>1, BroadcastSends
      <3>3. loaded' = loaded \cup {p}
        BY <3>1 DEF Changed
      <3> QED
        BY <1>0, <2>2, <2>3, <3>1, <3>2, <3>3, SendingOrderly
    <2>5. CASE Ignores(p, packet, w)
      <3>1. queue' = w /\ UNCHANGED <<dir, owner, loaded>>
        BY <2>5 DEF Ignores, sharedVars
      <3>2. \A q \in Procs : Waiting(queue', q) \subseteq Waiting(queue, q)
        BY <2>3, <3>1
      <3> QED
        BY <2>2, <3>1, <3>2 DEF Orderly
    <2> QED
      BY <2>1, <2>4, <2>5
  <1>6. CASE Save(p)
    <2>1. UNCHANGED <<at, queue, dir, owner, loaded>>
      BY <1>6 DEF Save, ipcVars, sharedVars
    <2> QED
      BY <2>1 DEF Orderly, Waiting
  <1>7. CASE Quit(p)
    BY <1>0, <1>7, MovedOrderly DEF Quit, Starting, ipcVars, sharedVars
  <1>8. CASE Cleanup(p)
    <2>1. /\ Forgotten(p) /\ UNCHANGED <<stamp, file, changes, pending>> /\ MoveTo(p, "ended")
          /\ owner' = Unlinked(sockets[p]) /\ dir' = DirAfter(owner')
      BY <1>8 DEF Cleanup
    <2>2. dir' \in BOOLEAN
      BY <1>0, <2>1 DEF DirAfter
    <2>3. \A n \in Names : owner'[n] # Nobody => dir
      BY <2>1, NamesInDir
    <2>4. \A n \in Names : owner'[n] # Nobody => dir'
      BY <1>0, <2>1, <2>3 DEF DirAfter
    <2> QED
      BY <2>1, <2>2, <2>4, LeavingOrderly
  <1>9. CASE Crash(p)
    <2>1. /\ Forgotten(p) /\ UNCHANGED <<stamp, file, changes, owner, dir>> /\ MoveTo(p, "crashed")
          /\ pending' \subseteq pending
      BY <1>9 DEF Crash
    <2> QED
      BY <1>0, <2>1, LeavingOrderly
  <1> QED
    BY <1>1, <1>2, <1>3, <1>4, <1>5, <1>6, <1>7, <1>8, <1>9

\* Nothing is there at first.
LEMMA InitOrderly ==
  ASSUME Init
  PROVE  Orderly
  <1>1. /\ dir = FALSE /\ owner = [n \in Names |-> Nobody] /\ loaded = {}
        /\ queue = [p \in Procs |-> [n \in {p, Main} |-> <<>>]]
    BY DEF Init
  <1>2. \A p \in Procs : Waiting(queue, p) = {}
    <2>1. \A p \in Procs : queue[p][p] = <<>> /\ queue[p][Main] = <<>>
      BY <1>1
    <2> QED
      BY <2>1 DEF Waiting, ToSet
  <1> QED
    BY <1>1, <1>2 DEF Orderly

\* A starting instance that messages may reach.
Late == {"try_main", "unlink_main", "bind_main", "listen_main"}

\* Those who will save, save new.
Saves(new) ==
  /\ pending = {} => file = new
  /\ \A p \in pending : at[p] = "running" /\ p \notin struck /\ p \in loaded /\ list[p] = new

\* p holds new, or will by what it is going to hear.
Follows(p, old, mid, new, M, R, o, s) ==
  /\ at[p] \in Late => file = new
  /\ at[p] \in Starting \cup {"running"} => \A pk \in Waiting(queue, p) : pk.msg \in M \cup R
  /\ at[p] = "running" => Loaded(p) \in {old, mid, new} /\ (Loaded(p) # new => Awaits(p, M, o, s))

\* The last change took the lists from old to new; o told of it with message
\* number s, one of M, and others answer with removals in R at most.
Converging(old, mid, new, M, R, o, s) ==
  /\ Good(old, mid, new, M, R)
  /\ file \in {old, new}
  /\ Saves(new)
  /\ \A p \in Procs : Follows(p, old, mid, new, M, R, o, s)

\* As long as nothing was disturbed there is such a change.
Settling ==
  ~disturbed => \E old, mid, new \in Lists, M, R \in SUBSET Messages, o \in Names, s \in Nat :
                  Converging(old, mid, new, M, R, o, s)

\* An instance that hears nothing in a step, and keeps its list or gets new.
LEMMA FollowsOn ==
  ASSUME NEW p \in Procs, NEW old, NEW mid, NEW new, NEW M, NEW R, NEW o, NEW s,
         Follows(p, old, mid, new, M, R, o, s),
         \A n \in {p, Main} : queue'[p][n] = queue[p][n], seen'[p] = seen[p],
         at[p] \in Listening /\ p \notin struck => p \notin struck',
         at'[p] \in Starting \cup {"running"} =>
           at[p] \in Starting \cup {"running"} \/ Waiting(queue, p) = {},
         at'[p] \in Late => file' = new,
         at'[p] = "running" => \/ at[p] = "running" /\ Loaded(p)' = Loaded(p)
                               \/ Loaded(p)' = new
  PROVE  Follows(p, old, mid, new, M, R, o, s)'
  <1>1. Waiting(queue', p) = Waiting(queue, p)
    BY DEF Waiting
  <1>2. at'[p] \in Starting \cup {"running"} => \A pk \in Waiting(queue', p) : pk.msg \in M \cup R
    BY <1>1 DEF Follows
  <1>3. ASSUME at'[p] = "running", Loaded(p)' # new
        PROVE  Loaded(p)' \in {old, mid, new} /\ Awaits(p, M, o, s)'
    <2>1. at[p] = "running" /\ Loaded(p)' = Loaded(p)
      BY <1>3
    <2>2. Loaded(p) \in {old, mid, new} /\ Awaits(p, M, o, s)
      BY <1>3, <2>1 DEF Follows
    <2>3. p \notin struck'
      BY <2>1, <2>2 DEF Awaits, Listening, Bound
    <2>4. Expects(queue', p, M, o, s)
      BY <1>1, <2>2 DEF Awaits, Expects
    <2>5. o \in Procs \ {p} /\ seen'[p][o] < s
      BY <2>2 DEF Awaits
    <2> QED
      BY <2>1, <2>2, <2>3, <2>4, <2>5 DEF Awaits
  <1> QED
    BY <1>2, <1>3 DEF Follows

\* The start of an instance, and what is done without lists and messages.
LEMMA StartsConverging ==
  ASSUME Answers, Typed, Orderly, Next, NEW old, NEW mid, NEW new, NEW M, NEW R, NEW o, NEW s,
         Converging(old, mid, new, M, R, o, s), NEW p \in Procs, NEW where,
         at' = [at EXCEPT ![p] = where], at[p] # "running",
         UNCHANGED <<queue, seen, list, loaded, pending, file>>,
         where \in Starting \cup {"running"} => at[p] \in Starting \cup {"off"},
         where \in Late => file = new \/ at[p] \in Late,
         where = "running" => at[p] \in Late
  PROVE  Converging(old, mid, new, M, R, o, s)'
  <1>1. at'[p] = where /\ \A q \in Procs : q # p => at'[q] = at[q]
    BY DEF Answers
  <1>2. \A q \in Procs : at[q] \in Listening /\ q \notin struck => q \notin struck'
    BY StaysUnstruck
  <1>3. \A q \in Procs : Loaded(q)' = Loaded(q)
    BY DEF Loaded
  <1>4. Saves(new)'
    <2>1. ASSUME NEW q \in pending PROVE q # p /\ at[q] = "running" /\ q \notin struck'
      BY <1>2, <2>1 DEF Converging, Saves, Listening, Bound, Typed
    <2> QED
      BY <1>1, <2>1 DEF Converging, Saves, Typed
  <1>5. ASSUME NEW q \in Procs PROVE Follows(q, old, mid, new, M, R, o, s)'
    <2>1. Follows(q, old, mid, new, M, R, o, s)
      BY DEF Converging
    <2>2. CASE q # p
      <3>1. at'[q] = at[q]
        BY <1>1, <2>2
      <3>2. at[q] \in Late => file' = new
        BY <2>1 DEF Follows
      <3> QED
        BY <1>2, <1>3, <2>1, <3>1, <3>2, FollowsOn
    <2>3. CASE q = p
      <3>1. at[p] \in Late => file = new
        BY <2>1, <2>3 DEF Follows
      <3>2. where = "running" => Loaded(p) = new
        BY <3>1 DEF Orderly, Loaded, Late, Starting
      <3>3. at[p] = "off" => Waiting(queue, p) = {}
        BY DEF Orderly
      <3> QED
        BY <1>1, <1>2, <1>3, <2>1, <2>3, <3>1, <3>2, <3>3, FollowsOn
    <2> QED
      BY <2>2, <2>3
  <1> QED
    BY <1>4, <1>5 DEF Converging

\* While an instance has yet to save, the directory is there.
LEMMA SavedWithoutDir ==
  ASSUME Answers, Orderly, NEW new, Saves(new), pending \subseteq Procs, ~dir
  PROVE  file = new
  <1> SUFFICES ASSUME NEW p \in pending PROVE FALSE
    BY DEF Saves
  <1>1. at[p] = "running" /\ p \notin struck
    BY DEF Saves
  <1>2. owner[p] = p
    BY <1>1 DEF Answers, Bound
  <1>3. p \in Names /\ p # Nobody
    BY RecentFilesAssumption DEF RecentFilesAssumption, Names
  <1> QED
    BY <1>2, <1>3 DEF Orderly

\* The steps of a start do not disturb it.
LEMMA StartConverging ==
  ASSUME Answers, Typed, Orderly, Next, NEW p \in Procs,
         NEW old, NEW mid, NEW new, NEW M, NEW R, NEW o, NEW s,
         Converging(old, mid, new, M, R, o, s), ~disturbed',
         \/ PlainStart(p) \/ NewStart(p) \/ MakeDir(p) \/ BindPid(p) \/ ListenPid(p)
         \/ TryMain(p) \/ UnlinkMain(p) \/ BindMain(p) \/ ListenMain(p)
  PROVE  Converging(old, mid, new, M, R, o, s)'
  <1>0. pending \subseteq Procs /\ Saves(new)
    BY DEF Typed, Converging
  <1> DEFINE Kept == UNCHANGED <<queue, seen, list, loaded, pending, file>>
  <1>1. ASSUME NEW where, MoveTo(p, where), at[p] # "running", Kept,
               where \in Starting \cup {"running"} => at[p] \in Starting \cup {"off"},
               where \in Late => file = new \/ at[p] \in Late,
               where = "running" => at[p] \in Late
        PROVE  Converging(old, mid, new, M, R, o, s)'
    <2>1. at' = [at EXCEPT ![p] = where]
      BY <1>1 DEF MoveTo
    <2> QED
      BY <1>1, <2>1, StartsConverging
  <1>2. ASSUME UNCHANGED <<ipcVars, listVars>> PROVE Kept
    BY <1>2 DEF ipcVars, listVars
  <1> HIDE DEF Kept
  <1>3. CASE PlainStart(p)
    <2>1. PICK where \in {"handed_over", "init"} : MoveTo(p, where) /\ at[p] = "off"
      BY <1>3 DEF PlainStart
    <2>2. Kept
      BY <1>2, <1>3 DEF PlainStart
    <2> QED
      BY <1>1, <2>1, <2>2 DEF Starting, Late
  <1>4. CASE NewStart(p)
    <2>1. MoveTo(p, "init") /\ at[p] = "off" /\ Kept
      BY <1>2, <1>4 DEF NewStart
    <2> QED
      BY <1>1, <2>1 DEF Starting, Late
  <1>5. CASE MakeDir(p)
    <2>1. MoveTo(p, "bind_pid") /\ at[p] = "init" /\ Kept
      BY <1>2, <1>5 DEF MakeDir
    <2> QED
      BY <1>1, <2>1 DEF Starting, Late
  <1>6. CASE BindPid(p)
    <2>1. at[p] = "bind_pid" /\ Kept
      BY <1>2, <1>6 DEF BindPid
    <2>2. CASE dir
      <3>1. MoveTo(p, "listen_pid")
        BY <1>6, <2>2 DEF BindPid
      <3> QED
        BY <1>1, <2>1, <3>1 DEF Starting, Late
    <2>3. CASE ~dir
      <3>1. MoveTo(p, "try_main")
        BY <1>6, <2>3 DEF BindPid
      <3>2. file = new
        BY <1>0, <2>3, SavedWithoutDir
      <3> QED
        BY <1>1, <2>1, <3>1, <3>2 DEF Starting, Late
    <2> QED
      BY <2>2, <2>3
  <1>7. CASE ListenPid(p)
    <2>1. MoveTo(p, "try_main") /\ at[p] = "listen_pid" /\ Kept
      BY <1>2, <1>7 DEF ListenPid
    <2>2. pending = {}
      BY <1>7 DEF ListenPid
    <2>3. file = new
      BY <1>0, <2>2 DEF Saves
    <2> QED
      BY <1>1, <2>1, <2>3 DEF Starting, Late
  <1>8. CASE TryMain(p)
    <2>1. PICK where \in {"running", "unlink_main"} : MoveTo(p, where) /\ at[p] = "try_main"
      BY <1>8 DEF TryMain
    <2>2. Kept
      BY <1>2, <1>8 DEF TryMain
    <2> QED
      BY <1>1, <2>1, <2>2 DEF Starting, Late
  <1>9. CASE UnlinkMain(p)
    <2>1. MoveTo(p, "bind_main") /\ at[p] = "unlink_main" /\ Kept
      BY <1>2, <1>9 DEF UnlinkMain
    <2> QED
      BY <1>1, <2>1 DEF Starting, Late
  <1>10. CASE BindMain(p)
    <2>1. PICK where \in {"listen_main", "running"} : MoveTo(p, where) /\ at[p] = "bind_main"
      BY <1>10 DEF BindMain
    <2>2. Kept
      BY <1>2, <1>10 DEF BindMain
    <2> QED
      BY <1>1, <2>1, <2>2 DEF Starting, Late
  <1>11. CASE ListenMain(p)
    <2>1. MoveTo(p, "running") /\ at[p] = "listen_main" /\ Kept
      BY <1>2, <1>11 DEF ListenMain
    <2> QED
      BY <1>1, <2>1 DEF Starting, Late
  <1> QED
    BY <1>3, <1>4, <1>5, <1>6, <1>7, <1>8, <1>9, <1>10, <1>11

\* The list is saved, by an instance that goes on or leaves.
LEMMA SavingConverging ==
  ASSUME Answers, Typed, Orderly, Next, NEW old, NEW mid, NEW new, NEW M, NEW R, NEW o, NEW s,
         Converging(old, mid, new, M, R, o, s), NEW p \in Procs,
         at[p] = "running", NEW where \in {"running", "leaving"}, at' = [at EXCEPT ![p] = where],
         UNCHANGED <<queue, seen, list, loaded>>,
         pending' = pending \ {p}, file' = IF p \in pending THEN list[p] ELSE file
  PROVE  Converging(old, mid, new, M, R, o, s)'
  <1>1. at'[p] = where /\ \A q \in Procs : q # p => at'[q] = at[q]
    BY DEF Answers
  <1>2. \A q \in Procs : at[q] \in Listening /\ q \notin struck => q \notin struck'
    BY StaysUnstruck
  <1>3. Saves(new) /\ pending \subseteq Procs
    BY DEF Converging, Typed
  <1>4. file' = file \/ file' = new
    BY <1>3 DEF Saves
  <1>5. file = new => file' = new
    BY <1>4
  <1>6. Saves(new)'
    <2>1. pending' = {} => file' = new
      BY <1>3 DEF Saves
    <2>2. ASSUME NEW q \in pending'
          PROVE  at'[q] = "running" /\ q \notin struck' /\ q \in loaded' /\ list'[q] = new
      <3>1. /\ q \in Procs /\ q # p /\ at[q] = "running" /\ q \notin struck
            /\ q \in loaded /\ list[q] = new
        BY <1>3 DEF Saves
      <3>2. q \notin struck'
        BY <1>2, <3>1 DEF Listening, Bound
      <3> QED
        BY <1>1, <3>1, <3>2
    <2> QED
      BY <2>1, <2>2 DEF Saves
  <1>7. ASSUME NEW q \in Procs PROVE Follows(q, old, mid, new, M, R, o, s)'
    <2>1. Follows(q, old, mid, new, M, R, o, s)
      BY DEF Converging
    <2>2. Loaded(q)' = Loaded(q) \/ Loaded(q)' = new
      BY <1>4 DEF Loaded
    <2>3. CASE q # p
      <3>1. at'[q] = at[q]
        BY <1>1, <2>3
      <3>2. at[q] \in Late => file' = new
        BY <1>5, <2>1 DEF Follows
      <3> QED
        BY <1>2, <2>1, <2>2, <3>1, <3>2, FollowsOn
    <2>4. CASE q = p /\ at[p] = "running"
      <3>1. at'[q] \notin Late
        BY <1>1, <2>4 DEF Late
      <3> QED
        BY <1>2, <2>1, <2>2, <2>4, <3>1, FollowsOn
    <2> QED
      BY <2>3, <2>4
  <1> QED
    BY <1>4, <1>6, <1>7 DEF Converging

\* The file is read, or a change comes to nothing.
LEMMA LoadingConverging ==
  ASSUME Answers, Typed, Next, NEW old, NEW mid, NEW new, NEW M, NEW R, NEW o, NEW s,
         Converging(old, mid, new, M, R, o, s), NEW p \in Procs,
         UNCHANGED <<at, queue, seen, pending, file>>,
         list' = [list EXCEPT ![p] = Loaded(p)], loaded' = loaded \cup {p}
  PROVE  Converging(old, mid, new, M, R, o, s)'
  <1>1. \A q \in Procs : at[q] \in Listening /\ q \notin struck => q \notin struck'
    BY StaysUnstruck
  <1>2. list'[p] = Loaded(p) /\ \A q \in Procs : q # p => list'[q] = list[q]
    BY DEF Typed
  <1>3. \A q \in Procs : Loaded(q)' = Loaded(q)
    BY <1>2 DEF Loaded
  <1>4. Saves(new) /\ pending \subseteq Procs
    BY DEF Converging, Typed
  <1>5. Saves(new)'
    <2>1. ASSUME NEW q \in pending
          PROVE  at'[q] = "running" /\ q \notin struck' /\ q \in loaded' /\ list'[q] = new
      <3>1. q \in Procs /\ at[q] = "running" /\ q \notin struck /\ q \in loaded /\ list[q] = new
        BY <1>4 DEF Saves
      <3>2. q \notin struck'
        BY <1>1, <3>1 DEF Listening, Bound
      <3> QED
        BY <1>2, <3>1, <3>2 DEF Loaded
    <2> QED
      BY <1>4, <2>1 DEF Saves
  <1>6. ASSUME NEW q \in Procs PROVE Follows(q, old, mid, new, M, R, o, s)'
    <2>1. Follows(q, old, mid, new, M, R, o, s)
      BY DEF Converging
    <2>2. at'[q] \in Late => file' = new
      BY <2>1 DEF Follows
    <2> QED
      BY <1>1, <1>3, <2>1, <2>2, FollowsOn
  <1> QED
    BY <1>5, <1>6 DEF Converging

\* An instance that has nothing to save goes.
LEMMA LeavingConverging ==
  ASSUME Answers, Typed, Posted, Next, NEW old, NEW mid, NEW new, NEW M, NEW R, NEW o, NEW s,
         Converging(old, mid, new, M, R, o, s), NEW p \in Procs, Forgotten(p), p \notin pending,
         UNCHANGED <<stamp, file, changes, pending>>,
         NEW where \in {"ended", "crashed"}, MoveTo(p, where)
  PROVE  Converging(old, mid, new, M, R, o, s)'
  <1>1. at'[p] = where /\ \A q \in Procs : q # p => at'[q] = at[q]
    BY DEF Answers, MoveTo
  <1>2. \A q \in Procs : at[q] \in Listening /\ q \notin struck => q \notin struck'
    BY StaysUnstruck
  <1>3. \A q \in Procs : q # p => /\ \A n \in {q, Main} : queue'[q][n] = queue[q][n]
                                  /\ seen'[q] = seen[q]
    BY <1>1, LeavingPosts
  <1>4. /\ list' = [list EXCEPT ![p] = <<>>] /\ loaded' = loaded \ {p}
        /\ \A q \in Procs : q # p => list'[q] = list[q]
    BY DEF Forgotten, Typed
  <1>5. \A q \in Procs : q # p => Loaded(q)' = Loaded(q)
    BY <1>4 DEF Loaded
  <1>6. Saves(new) /\ pending \subseteq Procs
    BY DEF Converging, Typed
  <1>7. Saves(new)'
    <2>1. ASSUME NEW q \in pending
          PROVE  at'[q] = "running" /\ q \notin struck' /\ q \in loaded' /\ list'[q] = new
      <3>1. /\ q \in Procs /\ q # p /\ at[q] = "running" /\ q \notin struck
            /\ q \in loaded /\ list[q] = new
        BY <1>6 DEF Saves
      <3>2. q \notin struck'
        BY <1>2, <3>1 DEF Listening, Bound
      <3> QED
        BY <1>1, <1>4, <3>1, <3>2
    <2> QED
      BY <1>6, <2>1 DEF Saves
  <1>8. ASSUME NEW q \in Procs PROVE Follows(q, old, mid, new, M, R, o, s)'
    <2>1. Follows(q, old, mid, new, M, R, o, s)
      BY DEF Converging
    <2>2. CASE q # p
      <3>1. at'[q] = at[q]
        BY <1>1, <2>2
      <3>2. at'[q] \in Late => file' = new
        BY <2>1, <3>1 DEF Follows
      <3> QED
        BY <1>2, <1>3, <1>5, <2>1, <2>2, <3>1, <3>2, FollowsOn
    <2>3. CASE q = p
      BY <1>1, <2>3 DEF Follows, Late, Starting
    <2> QED
      BY <2>2, <2>3
  <1> QED
    BY <1>7, <1>8 DEF Converging

\* What a message of the last change, or of its echoes, does to a list.
LEMMA Hearing ==
  ASSUME NEW old, NEW mid, NEW new, NEW M, NEW R, Good(old, mid, new, M, R),
         NEW l \in {old, mid, new}, NEW m \in M \cup R, NEW k, NEW sent,
         Heard(m, l) = Result(k, sent)
  PROVE  /\ ToSet(sent) \subseteq R
         /\ l = new => k = new /\ sent = None
         /\ k = new \/ (k = mid /\ sent = None /\ m \notin M)
  <1>0. ToSet(None) = {}
    BY DEF None, ToSet
  <1>1. ASSUME NEW k1, NEW sent1, Heard(m, l) = Result(k1, sent1) PROVE k = k1 /\ sent = sent1
    <2>1. Result(k, sent) = Result(k1, sent1)
      BY <1>1
    <2>2. Result(k, sent).list = k /\ Result(k, sent).sent = sent
      BY ResultFields
    <2>3. Result(k1, sent1).list = k1 /\ Result(k1, sent1).sent = sent1
      BY ResultFields
    <2> QED
      BY <2>1, <2>2, <2>3
  <1>2. CASE l = new
    <2>1. Heard(m, l) = Result(new, None)
      BY <1>2 DEF Good
    <2> QED
      BY <1>0, <1>1, <2>1
  <1>3. CASE l # new /\ m \in M
    <2>1. PICK sent1 : Heard(m, l) = Result(new, sent1) /\ ToSet(sent1) \subseteq R
      BY <1>3 DEF Good
    <2> QED
      BY <1>1, <1>3, <2>1
  <1>4. CASE l # new /\ m \notin M
    <2>1. Heard(m, l) = Result(mid, None)
      BY <1>4 DEF Good
    <2> QED
      BY <1>0, <1>1, <1>4, <2>1
  <1> QED
    BY <1>2, <1>3, <1>4

\* p, which still has to hear of the change, hears of it from o first.
LEMMA HeadFirst ==
  ASSUME Queues(queue), NEW p \in Procs, NEW n \in {p, Main}, NEW packet, NEW w,
         Takes(p, n, packet, w), NEW M, NEW o, NEW s, Expects(queue, p, M, o, s), packet.from = o
  PROVE  packet.stamp = s /\ packet.msg \in M
  <1>1. packet = queue[p][n][1] /\ packet \in Waiting(queue, p) /\ queue[p][n] # <<>>
    BY HeadTaken DEF Takes
  <1>2. queue[p][n] \in Seq(Packets)
    BY DEF Queues
  <1>3. InOrder(queue[p][n], o, s)
    BY DEF Expects
  <1> DEFINE q == queue[p][n]
  <1>4. q \in Seq(Packets) /\ q # <<>> /\ InOrder(q, o, s) /\ q[1].from = o /\ packet = q[1]
    BY <1>1, <1>2, <1>3
  <1> HIDE DEF q
  <1>5. packet.stamp = s
    BY <1>4, OrderHead
  <1> QED
    BY <1>1, <1>5 DEF Expects

\* An instance other than the one that takes the packet.
LEMMA OthersFollow ==
  ASSUME Typed, NEW old, NEW mid, NEW new, NEW M, NEW R, NEW o, NEW s,
         NEW p \in Procs, NEW n \in {p, Main}, NEW packet, NEW w, Takes(p, n, packet, w),
         NEW q \in Procs, q # p, Follows(q, old, mid, new, M, R, o, s),
         NEW sent, Brief(sent), ToSet(sent) \subseteq R, Sends(p, sent, w),
         sent # None => p # o,
         at[q] \in Listening /\ q \notin struck => q \notin struck',
         Loaded(q)' = Loaded(q), seen'[q] = seen[q], UNCHANGED <<at, file>>
  PROVE  Follows(q, old, mid, new, M, R, o, s)'
  <1>0. stamp \in [Procs -> Nat] /\ Queues(queue)
    BY DEF Typed
  <1>1. Queues(w) /\ Waiting(w, q) \subseteq Waiting(queue, q)
    BY <1>0, HeadTaken
  <1>2. ASSUME at[q] \in Starting \cup {"running"}, NEW pk \in Waiting(queue', q)
        PROVE  pk.msg \in M \cup R
    <2>1. CASE pk \in Waiting(w, q)
      BY <1>1, <1>2, <2>1 DEF Follows
    <2>2. CASE pk \notin Waiting(w, q)
      <3>1. PICK i \in 1 .. Len(sent) : pk.msg = sent[i]
        BY <1>0, <1>1, <2>2, SendsWaiting
      <3>2. DOMAIN sent = 1 .. Len(sent)
        BY <1>0, StampedFacts
      <3>3. pk.msg \in ToSet(sent)
        BY <3>1, <3>2 DEF ToSet
      <3> QED
        BY <3>3
    <2> QED
      BY <2>1, <2>2
  <1>3. ASSUME at[q] = "running", Loaded(q) # new
        PROVE  Loaded(q)' \in {old, mid, new} /\ Awaits(q, M, o, s)'
    <2>1. Loaded(q) \in {old, mid, new} /\ Awaits(q, M, o, s)
      BY <1>3 DEF Follows
    <2>2. Expects(w, q, M, o, s)
      BY <1>0, <2>1, ExpectsTaken DEF Awaits
    <2>3. Expects(queue', q, M, o, s)
      <3>1. CASE sent = None
        BY <2>2, <3>1 DEF Sends
      <3>2. CASE sent # None
        BY <1>0, <1>1, <2>2, <3>2, ExpectsSent
      <3> QED
        BY <3>1, <3>2
    <2>4. q \notin struck'
      BY <1>3, <2>1 DEF Awaits, Listening, Bound
    <2> QED
      BY <2>1, <2>3, <2>4 DEF Awaits
  <1> QED
    BY <1>2, <1>3 DEF Follows

\* A message that is new to p.
LEMMA HeedingConverging ==
  ASSUME Answers, Typed, Next, NEW old \in Lists, NEW mid \in Lists, NEW new \in Lists,
         NEW M, NEW R, NEW o, NEW s \in Nat,
         Converging(old, mid, new, M, R, o, s), NEW p \in Procs, at[p] = "running",
         NEW n \in {p, Main}, NEW packet, NEW w, Takes(p, n, packet, w),
         Heeds(p, packet, w), UNCHANGED <<at, sockets>>
  PROVE  Converging(old, mid, new, M, R, o, s)'
  <1>0. /\ stamp \in [Procs -> Nat] /\ Queues(queue) /\ pending \subseteq Procs
        /\ seen \in [Procs -> [Procs -> Nat]] /\ Good(old, mid, new, M, R) /\ Saves(new)
    BY DEF Typed, Converging
  <1>1. PICK k, sent :
          /\ k \in Lists
          /\ Heard(packet.msg, Loaded(p)) = Result(k, sent) /\ Brief(sent)
          /\ Changed(p, k, sent) /\ Broadcast(p, sent, w)
    BY DEF Heeds
  <1>2. Queues(w) /\ packet \in Packets /\ packet \in Waiting(queue, p)
    BY <1>0, HeadTaken
  <1>3. Sends(p, sent, w)
    BY <1>0, <1>1, <1>2, BroadcastSends
  <1>4. Follows(p, old, mid, new, M, R, o, s)
    BY DEF Converging
  <1>5. Loaded(p) \in {old, mid, new} /\ packet.msg \in M \cup R
    BY <1>2, <1>4 DEF Follows
  <1>6. /\ ToSet(sent) \subseteq R
        /\ Loaded(p) = new => k = new /\ sent = None
        /\ k = new \/ (k = mid /\ sent = None /\ packet.msg \notin M)
    BY <1>0, <1>1, <1>5, Hearing
  <1>7. Loaded(p) # new => Awaits(p, M, o, s)
    BY <1>4 DEF Follows
  <1>8. /\ list' = [list EXCEPT ![p] = k] /\ loaded' = loaded \cup {p} /\ file' = file
        /\ pending' = IF sent = None THEN pending ELSE pending \cup {p}
    BY <1>1 DEF Changed
  <1>9. /\ list'[p] = k /\ \A q \in Procs : q # p => list'[q] = list[q]
        /\ seen'[p] = [seen[p] EXCEPT ![packet.from] = packet.stamp]
        /\ \A q \in Procs : q # p => seen'[q] = seen[q]
    BY <1>0, <1>8 DEF Heeds, Typed
  <1>10. \A q \in Procs : at[q] \in Listening /\ q \notin struck => q \notin struck'
    BY StaysUnstruck
  <1>11. Loaded(p)' = k /\ \A q \in Procs : q # p => Loaded(q)' = Loaded(q)
    BY <1>8, <1>9 DEF Loaded
  <1>12. Saves(new)'
    <2>1. pending' = {} => file' = new
      BY <1>0, <1>8 DEF Saves
    <2>2. ASSUME NEW q \in pending'
          PROVE  at'[q] = "running" /\ q \notin struck' /\ q \in loaded' /\ list'[q] = new
      <3>1. CASE q \in pending
        <4>1. /\ q \in Procs /\ at[q] = "running" /\ q \notin struck
              /\ q \in loaded /\ list[q] = new
          BY <1>0, <3>1 DEF Saves
        <4>2. q \notin struck'
          BY <1>10, <4>1 DEF Listening, Bound
        <4>3. list'[q] = new
          BY <1>6, <1>9, <4>1 DEF Loaded
        <4> QED
          BY <1>8, <4>1, <4>2, <4>3
      <3>2. CASE q \notin pending
        <4>1. q = p /\ sent # None
          BY <1>8, <2>2, <3>2
        <4>2. k = new /\ p \notin struck
          BY <1>6, <1>7, <4>1 DEF Awaits
        <4>3. p \notin struck'
          BY <1>10, <4>2 DEF Listening, Bound
        <4> QED
          BY <1>8, <1>9, <4>1, <4>2, <4>3
      <3> QED
        BY <3>1, <3>2
    <2> QED
      BY <2>1, <2>2 DEF Saves
  <1>13. ASSUME NEW q \in Procs, q # p PROVE Follows(q, old, mid, new, M, R, o, s)'
    <2>1. sent # None => p # o
      BY <1>6, <1>7 DEF Awaits
    <2>2. Follows(q, old, mid, new, M, R, o, s)
      BY DEF Converging
    <2> QED
      BY <1>1, <1>3, <1>6, <1>8, <1>9, <1>10, <1>11, <1>13, <2>1, <2>2, OthersFollow
  <1>14. Follows(p, old, mid, new, M, R, o, s)'
    <2>1. ASSUME NEW pk \in Waiting(queue', p) PROVE pk.msg \in M \cup R
      <3>1. pk \in Waiting(w, p)
        BY <1>0, <1>1, <1>2, <1>3, SendsWaiting
      <3>2. pk \in Waiting(queue, p)
        BY <1>0, <3>1, HeadTaken
      <3> QED
        BY <1>4, <3>2 DEF Follows
    <2>2. ASSUME k # new PROVE Awaits(p, M, o, s)'
      <3>1. sent = None /\ packet.msg \notin M /\ Loaded(p) # new
        BY <1>6, <2>2
      <3>2. o \in Procs \ {p} /\ p \notin struck /\ seen[p][o] < s /\ Expects(queue, p, M, o, s)
        BY <1>7, <3>1 DEF Awaits
      <3>3. packet.from # o
        BY <1>0, <3>1, <3>2, HeadFirst
      <3>4. Expects(w, p, M, o, s)
        BY <1>0, <3>2, <3>3, ExpectsTaken
      <3>5. queue' = w
        BY <1>3, <3>1 DEF Sends
      <3>6. seen'[p][o] = seen[p][o]
        <4>1. seen[p] \in [Procs -> Nat]
          BY <1>0
        <4> DEFINE h == seen[p]
        <4>2. h \in [Procs -> Nat] /\ seen'[p] = [h EXCEPT ![packet.from] = packet.stamp]
          BY <1>9, <4>1
        <4> HIDE DEF h
        <4>3. seen'[p][o] = h[o]
          BY <3>2, <3>3, <4>2
        <4> QED
          BY <4>3 DEF h
      <3>7. p \notin struck'
        BY <1>10, <3>2 DEF Listening, Bound
      <3> QED
        BY <3>2, <3>4, <3>5, <3>6, <3>7 DEF Awaits
    <2>3. at'[p] \notin Late
      BY DEF Late
    <2>4. Loaded(p)' \in {old, mid, new}
      BY <1>6, <1>11
    <2> QED
      BY <1>11, <2>1, <2>2, <2>3, <2>4 DEF Follows
  <1>15. file' \in {old, new}
    BY <1>8 DEF Converging
  <1> QED
    BY <1>0, <1>12, <1>13, <1>14, <1>15 DEF Converging

\* A message that p had by another socket.
LEMMA IgnoringConverging ==
  ASSUME Answers, Typed, Next, NEW old, NEW mid, NEW new, NEW M, NEW R, NEW o, NEW s \in Nat,
         Converging(old, mid, new, M, R, o, s), NEW p \in Procs, at[p] = "running",
         NEW n \in {p, Main}, NEW packet, NEW w, Takes(p, n, packet, w),
         Ignores(p, packet, w), UNCHANGED <<at, sockets>>
  PROVE  Converging(old, mid, new, M, R, o, s)'
  <1>1. Queues(queue) /\ pending \subseteq Procs /\ Saves(new) /\ Follows(p, old, mid, new, M, R, o, s)
    BY DEF Typed, Converging
  <1>2. queue' = w /\ UNCHANGED <<seen, list, loaded, pending, file>>
    BY DEF Ignores
  <1>3. \A q \in Procs : at[q] \in Listening /\ q \notin struck => q \notin struck'
    BY StaysUnstruck
  <1>4. \A q \in Procs : Loaded(q)' = Loaded(q)
    BY <1>2 DEF Loaded
  <1>5. Saves(new)'
    <2>1. ASSUME NEW q \in pending PROVE q \notin struck'
      BY <1>1, <1>3 DEF Saves, Listening, Bound
    <2> QED
      BY <1>1, <1>2, <2>1 DEF Saves
  <1>6. ASSUME NEW q \in Procs, q # p PROVE Follows(q, old, mid, new, M, R, o, s)'
    <2>1. Follows(q, old, mid, new, M, R, o, s)
      BY DEF Converging
    <2>2. \A n1 \in {q, Main} : queue'[q][n1] = queue[q][n1]
      <3>1. \A p1 \in Procs : \A n1 \in {p1, Main} : p1 # p \/ n1 # n => w[p1][n1] = queue[p1][n1]
        BY <1>1, HeadTaken
      <3> QED
        BY <1>2, <1>6, <3>1
    <2>3. at'[q] \in Late => file' = new
      BY <1>2, <2>1 DEF Follows
    <2>4. /\ seen'[q] = seen[q] /\ at'[q] = at[q] /\ Loaded(q)' = Loaded(q)
          /\ at[q] \in Listening /\ q \notin struck => q \notin struck'
      BY <1>2, <1>3, <1>4
    <2> QED
      BY <2>1, <2>2, <2>3, <2>4, FollowsOn
  <1>7. Follows(p, old, mid, new, M, R, o, s)'
    <2>1. ASSUME NEW pk \in Waiting(queue', p) PROVE pk.msg \in M \cup R
      <3>1. pk \in Waiting(queue, p)
        BY <1>1, <1>2, HeadTaken
      <3> QED
        BY <1>1, <3>1 DEF Follows
    <2>2. ASSUME Loaded(p) # new PROVE Awaits(p, M, o, s)'
      <3>1. o \in Procs \ {p} /\ p \notin struck /\ seen[p][o] < s /\ Expects(queue, p, M, o, s)
        BY <1>1, <2>2 DEF Follows, Awaits
      <3>2. packet.from # o
        <4> SUFFICES ASSUME packet.from = o PROVE FALSE
          OBVIOUS
        <4>1. packet.stamp = s
          BY <1>1, <3>1, HeadFirst
        <4>2. seen[p][o] \in Nat
          BY <3>1 DEF Typed
        <4> QED
          BY <3>1, <4>1, <4>2 DEF Ignores
      <3>3. Expects(w, p, M, o, s)
        BY <1>1, <3>1, <3>2, ExpectsTaken
      <3>4. p \notin struck'
        BY <1>3, <3>1 DEF Listening, Bound
      <3> QED
        BY <1>2, <3>1, <3>3, <3>4 DEF Awaits
    <2>3. at'[p] \notin Late
      BY DEF Late
    <2> QED
      BY <1>1, <1>4, <2>1, <2>2, <2>3 DEF Follows
  <1> QED
    BY <1>1, <1>2, <1>5, <1>6, <1>7 DEF Converging

\* To whom nothing was under way a change is told first.
LEMMA FirstTold ==
  ASSUME NEW p \in Procs, NEW q \in Procs, NEW sent, Brief(sent), sent # None,
         stamp \in [Procs -> Nat], Queues(queue), \A n \in {q, Main} : queue[q][n] = <<>>,
         Sends(p, sent, queue), q # p, owner[q] = q, q \in sockets[q]
  PROVE  Expects(queue', q, {sent[1]}, p, stamp[p] + 1)
  <1> DEFINE t == Stamped(p, sent)
             k == Len(sent)
             b == stamp[p]
  <1>1. /\ k \in 0 .. 2 /\ t \in Seq(Packets) /\ DOMAIN t = 1 .. k /\ b \in Nat
        /\ \A i \in 1 .. k : t[i].from = p /\ t[i].stamp = b + i /\ t[i].msg = sent[i]
    BY StampedFacts, Listed
  <1>2. k # 0
    BY DEF Brief, None
  <1>3. \A n \in {q, Main} : queue'[q][n] = <<>> \/ queue'[q][n] = <<>> \o t
    BY DEF Sends
  <1>4. queue'[q][q] = <<>> \o t
    BY DEF Sends
  <1> HIDE DEF t, k, b
  <1>5. <<>> \o t = t
    BY <1>1
  <1>6. \A n \in {q, Main} : queue'[q][n] = <<>> \/ queue'[q][n] = t
    BY <1>3, <1>5
  <1>7. 1 \in DOMAIN t /\ t[1].from = p /\ t[1].stamp = b + 1
    BY <1>1, <1>2
  <1>8. InOrder(t, p, b + 1)
    <2> SUFFICES ASSUME NEW j \in DOMAIN t, t[j].from = p, t[j].stamp # b + 1
                 PROVE  \E i \in 1 .. j - 1 : t[i].from = p /\ t[i].stamp = b + 1
      BY DEF InOrder
    <2>1. 1 \in 1 .. j - 1
      BY <1>1, <1>7
    <2> QED
      BY <1>7, <2>1
  <1>9. InOrder(<<>>, p, b + 1)
    BY DEF InOrder
  <1>10. \A n \in {q, Main} : InOrder(queue'[q][n], p, b + 1)
    BY <1>6, <1>8, <1>9
  <1>11. t[1] \in Waiting(queue', q)
    <2>1. t[1] \in ToSet(t)
      BY <1>7 DEF ToSet
    <2>2. queue'[q][q] = t
      BY <1>4, <1>5
    <2> QED
      BY <2>1, <2>2 DEF Waiting
  <1>12. ASSUME NEW pk \in Waiting(queue', q) PROVE \E i \in 1 .. k : pk = t[i]
    <2>1. PICK n \in {q, Main} : pk \in ToSet(queue'[q][n])
      BY DEF Waiting
    <2>2. ToSet(<<>>) = {}
      BY DEF ToSet
    <2>3. pk \in ToSet(t)
      BY <1>6, <2>1, <2>2
    <2> QED
      BY <1>1, <2>3 DEF ToSet
  <1>13. ASSUME NEW pk \in Waiting(queue', q), pk.from = p, pk.stamp = b + 1
         PROVE  pk.msg = sent[1]
    <2>1. PICK i \in 1 .. k : pk = t[i]
      BY <1>12
    <2>2. b + i = b + 1
      BY <1>1, <1>13, <2>1
    <2>3. i = 1
      BY <1>1, <2>2
    <2> QED
      BY <1>1, <2>1, <2>3
  <1>14. Expects(queue', q, {sent[1]}, p, b + 1)
    BY <1>7, <1>10, <1>11, <1>13 DEF Expects
  <1> QED
    BY <1>14 DEF b

\* When all is quiet, every list is the one in the file.
LEMMA QuietAgrees ==
  ASSUME NEW old, NEW mid, NEW new, NEW M, NEW R, NEW o, NEW s,
         Converging(old, mid, new, M, R, o, s), Quiet, Typed
  PROVE  /\ file = new /\ pending = {}
         /\ \A p \in Procs : at[p] = "running" =>
              /\ Loaded(p) = new
              /\ \A n \in {p, Main} : queue[p][n] = <<>>
  <1>1. pending = {} /\ file = new
    BY DEF Converging, Saves, Quiet
  <1>2. ASSUME NEW p \in Procs, at[p] = "running" PROVE \A n \in {p, Main} : queue[p][n] = <<>>
    <2>1. DOMAIN queue[p] = {p, Main}
      BY DEF Typed, Queues
    <2> QED
      BY <1>2, <2>1 DEF Quiet
  <1>3. ASSUME NEW p \in Procs, at[p] = "running" PROVE Loaded(p) = new
    <2> SUFFICES ASSUME Loaded(p) # new PROVE FALSE
      OBVIOUS
    <2>1. \E pk \in Waiting(queue, p) : pk.from = o
      BY <1>3 DEF Converging, Follows, Awaits, Expects
    <2>2. queue[p][p] = <<>> /\ queue[p][Main] = <<>>
      BY <1>2, <1>3
    <2> QED
      BY <2>1, <2>2 DEF Waiting, ToSet
  <1> QED
    BY <1>1, <1>2, <1>3

\* A change that is told.
LEMMA ToldConverging ==
  ASSUME Answers, Typed, Posted, Next, NEW p \in Procs, at[p] = "running", Quiet, pending = {},
         \A q \in Procs : at[q] = "running" =>
           /\ q \notin struck /\ Loaded(q) = file
           /\ \A n \in {q, Main} : queue[q][n] = <<>>,
         UNCHANGED <<at, sockets, seen>>,
         NEW l, l = file, NEW mid, NEW new, NEW sent, NEW R, Brief(sent), sent # None,
         ToSet(sent) = {sent[1]} \cup R, Good(l, mid, new, {sent[1]}, R),
         Changed(p, new, sent), Broadcast(p, sent, queue), NEW s, s = stamp[p] + 1
  PROVE  Converging(l, mid, new, {sent[1]}, R, p, s)'
  <1> DEFINE M == {sent[1]}
  <1>0. /\ stamp \in [Procs -> Nat] /\ seen \in [Procs -> [Procs -> Nat]]
        /\ Queues(queue) /\ loaded \subseteq Procs
    BY DEF Typed
  <1>1. Sends(p, sent, queue)
    BY <1>0, BroadcastSends
  <1>2. /\ list' = [list EXCEPT ![p] = new] /\ loaded' = loaded \cup {p} /\ file' = file
        /\ pending' = {p}
    BY DEF Changed
  <1>3. list'[p] = new /\ \A q \in Procs : q # p => list'[q] = list[q]
    BY <1>2 DEF Typed
  <1>4. Loaded(p)' = new /\ \A q \in Procs : q # p => Loaded(q)' = Loaded(q)
    BY <1>2, <1>3 DEF Loaded
  <1>5. \A q \in Procs : at[q] = "running" => q \notin struck'
    BY StaysUnstruck DEF Listening, Bound
  <1>6. Saves(new)'
    BY <1>2, <1>3, <1>5 DEF Saves
  <1>7. ASSUME NEW q \in Procs PROVE at'[q] \notin Starting /\ at'[q] \notin Late
    BY DEF Quiet, Late, Starting
  <1>8. ASSUME NEW q \in Procs, at[q] = "running", NEW pk \in Waiting(queue', q)
        PROVE  pk.msg \in M \cup R
    <2>1. queue[q][q] = <<>> /\ queue[q][Main] = <<>>
      BY <1>8
    <2>2. Waiting(queue, q) = {}
      BY <2>1 DEF Waiting, ToSet
    <2>3. PICK i \in 1 .. Len(sent) : pk.msg = sent[i]
      <3>1. pk \notin Waiting(queue, q)
        BY <2>2
      <3> QED
        BY <1>0, <1>1, <3>1, SendsWaiting
    <2>4. DOMAIN sent = 1 .. Len(sent)
      BY <1>0, StampedFacts
    <2> QED
      BY <2>3, <2>4 DEF ToSet
  <1>9. ASSUME NEW q \in Procs, at[q] = "running", q # p PROVE Awaits(q, M, p, s)'
    <2>1. q \notin struck /\ \A n \in {q, Main} : queue[q][n] = <<>>
      BY <1>9
    <2>2. owner[q] = q /\ q \in sockets[q]
      BY <1>9, <2>1 DEF Answers, Listening, Bound
    <2>3. Expects(queue', q, {sent[1]}, p, stamp[p] + 1)
      BY <1>0, <1>1, <1>9, <2>1, <2>2, FirstTold
    <2>4. seen'[q][p] < s
      <3>1. seen[q][p] <= stamp[p] /\ seen[q][p] \in Nat /\ stamp[p] \in Nat
        BY <1>0 DEF Posted
      <3> QED
        BY <3>1
    <2> QED
      BY <1>5, <1>9, <2>3, <2>4 DEF Awaits
  <1>10. ASSUME NEW q \in Procs PROVE Follows(q, l, mid, new, M, R, p, s)'
    <2>1. CASE at[q] = "running"
      <3>1. CASE q = p
        BY <1>4, <1>7, <1>8, <2>1, <3>1 DEF Follows
      <3>2. CASE q # p
        <4>1. Loaded(q)' = l
          BY <1>2, <1>4, <2>1, <3>2
        <4> QED
          BY <1>7, <1>8, <1>9, <2>1, <3>2, <4>1 DEF Follows
      <3> QED
        BY <3>1, <3>2
    <2>2. CASE at[q] # "running"
      BY <1>7, <2>2 DEF Follows
    <2> QED
      BY <2>1, <2>2
  <1> QED
    BY <1>2, <1>6, <1>10 DEF Converging

\* A change of the user, which nothing disturbs, starts from lists that agree.
LEMMA UserChangeSettles ==
  ASSUME Answers, Typed, Posted, Orderly, Settling, Next, NEW p \in Procs, UserChange(p)
  PROVE  Settling'
  <1> SUFFICES ASSUME ~disturbed'
               PROVE  (\E old, mid, new \in Lists, M, R \in SUBSET Messages, o \in Names, s \in Nat :
                         Converging(old, mid, new, M, R, o, s))'
    BY DEF Settling
  <1>1. ~disturbed /\ Quiet /\ (\A q \in struck : ~Alive(q)) /\ at[p] = "running"
    BY DEF UserChange
  <1>2. PICK old \in Lists, mid \in Lists, new \in Lists, M \in SUBSET Messages, R \in SUBSET Messages,
             o \in Names, s \in Nat : Converging(old, mid, new, M, R, o, s)
    BY <1>1 DEF Settling
  <1>3. /\ pending = {} /\ file = new
        /\ \A q \in Procs : at[q] = "running" =>
             /\ Loaded(q) = new
             /\ \A n \in {q, Main} : queue[q][n] = <<>>
    BY <1>1, <1>2, QuietAgrees
  <1>4. UNCHANGED <<at, sockets, seen>>
    BY UserChangeIs
  <1>5. PICK m, l, sent :
          /\ m \in Messages /\ l \in Lists
          /\ m.type = "remove" => m.item \in ToSet(Loaded(p))
          /\ Told(m, Loaded(p)) = Result(l, sent) /\ Brief(sent)
          /\ Changed(p, l, sent) /\ Broadcast(p, sent, queue)
    BY UserChangeIs
  <1>6. Loaded(p) = new
    BY <1>1, <1>3
  <1>7. CASE sent = None
    <2>1. Told(m, new) = Result(new, None)
      <3>1. Told(m, new).sent = None
        BY <1>5, <1>6, <1>7, ResultFields
      <3> QED
        BY <1>5, <1>6, <3>1, NothingSent
    <2>2. l = new
      <3>1. Result(l, sent) = Result(new, None)
        BY <1>5, <1>6, <2>1
      <3>2. Result(l, sent).list = l /\ Result(new, None).list = new
        BY ResultFields
      <3> QED
        BY <3>1, <3>2
    <2>3. queue' = queue
      <3>1. stamp \in [Procs -> Nat] /\ Queues(queue)
        BY DEF Typed
      <3>2. Sends(p, sent, queue)
        BY <1>5, <3>1, BroadcastSends
      <3> QED
        BY <1>7, <3>2 DEF Sends
    <2>4. /\ UNCHANGED <<at, queue, seen, pending, file>>
          /\ list' = [list EXCEPT ![p] = Loaded(p)] /\ loaded' = loaded \cup {p}
      BY <1>4, <1>5, <1>6, <1>7, <2>2, <2>3 DEF Changed
    <2>5. Converging(old, mid, new, M, R, o, s)'
      BY <1>2, <2>4, LoadingConverging
    <2> QED
      BY <1>2, <2>5
  <1>8. CASE sent # None
    <2>1. Told(m, new).sent # None
      BY <1>5, <1>6, <1>8, ResultFields
    <2>2. PICK k, way, told, R1 :
            /\ k \in Lists /\ way \in Lists
            /\ Told(m, new) = Result(k, told) /\ Brief(told) /\ told # None
            /\ ToSet(told) = {told[1]} \cup R1 /\ R1 \subseteq Messages /\ told[1] \in Messages
            /\ Good(new, way, k, {told[1]}, R1)
      BY <1>5, <1>6, <2>1, ChangeGood
    <2>3. k = l /\ told = sent
      <3>1. Result(l, sent) = Result(k, told)
        BY <1>5, <1>6, <2>2
      <3>2. Result(l, sent).list = l /\ Result(l, sent).sent = sent
        BY ResultFields
      <3>3. Result(k, told).list = k /\ Result(k, told).sent = told
        BY ResultFields
      <3> QED
        BY <3>1, <3>2, <3>3
    <2>4. \A q \in Procs : at[q] = "running" =>
            /\ q \notin struck /\ Loaded(q) = file
            /\ \A n \in {q, Main} : queue[q][n] = <<>>
      BY <1>1, <1>3 DEF Alive
    <2>5. PICK t \in Nat : t = stamp[p] + 1
      BY DEF Typed
    <2>6. Converging(new, way, l, {sent[1]}, R1, p, t)'
      <3>1. /\ Brief(sent) /\ ToSet(sent) = {sent[1]} \cup R1
            /\ Good(new, way, l, {sent[1]}, R1)
        BY <2>2, <2>3
      <3> QED
        BY <1>1, <1>3, <1>4, <1>5, <1>8, <2>4, <2>5, <3>1, ToldConverging
    <2>7. {sent[1]} \in SUBSET Messages /\ R1 \in SUBSET Messages /\ p \in Names
      BY <2>2, <2>3 DEF Names
    <2> QED
      BY <1>2, <1>5, <2>2, <2>6, <2>7
  <1> QED
    BY <1>7, <1>8

\* Every other step keeps what the last change is about.
LEMMA NextConverging ==
  ASSUME Answers, Typed, Posted, Orderly, Next, ~disturbed',
         NEW p \in Procs,
         \/ PlainStart(p) \/ NewStart(p) \/ MakeDir(p) \/ BindPid(p) \/ ListenPid(p)
         \/ TryMain(p) \/ UnlinkMain(p) \/ BindMain(p) \/ ListenMain(p)
         \/ Look(p) \/ Receive(p) \/ Save(p) \/ Quit(p) \/ Cleanup(p) \/ Crash(p),
         NEW old \in Lists, NEW mid \in Lists, NEW new \in Lists, NEW M, NEW R, NEW o, NEW s \in Nat,
         Converging(old, mid, new, M, R, o, s)
  PROVE  Converging(old, mid, new, M, R, o, s)'
  <1>1. CASE \/ PlainStart(p) \/ NewStart(p) \/ MakeDir(p) \/ BindPid(p) \/ ListenPid(p)
             \/ TryMain(p) \/ UnlinkMain(p) \/ BindMain(p) \/ ListenMain(p)
    BY <1>1, StartConverging
  <1>2. CASE Look(p)
    <2>1. /\ UNCHANGED <<at, queue, seen, pending, file>> /\ p \notin loaded
          /\ list' = [list EXCEPT ![p] = file] /\ loaded' = loaded \cup {p}
      BY <1>2 DEF Look, Change, Result, ipcVars
    <2>2. Loaded(p) = file
      BY <2>1 DEF Loaded
    <2> QED
      BY <2>1, <2>2, LoadingConverging
  <1>3. CASE Receive(p)
    <2>1. PICK n, packet, w :
            /\ n \in {p, Main} /\ packet \in Packets
            /\ Takes(p, n, packet, w) /\ (Heeds(p, packet, w) \/ Ignores(p, packet, w))
      BY <1>3, ReceiveIs
    <2>2. UNCHANGED <<at, sockets>> /\ at[p] = "running"
      BY <1>3, ReceiveIs
    <2> QED
      BY <2>1, <2>2, HeedingConverging, IgnoringConverging
  <1>4. CASE Save(p)
    <2>1. /\ at[p] = "running" /\ UNCHANGED <<at, queue, seen, list, loaded>>
          /\ pending' = pending \ {p} /\ file' = IF p \in pending THEN list[p] ELSE file
      BY <1>4 DEF Save, ipcVars
    <2>2. at' = [at EXCEPT ![p] = "running"]
      BY <2>1 DEF Answers
    <2> QED
      BY <2>1, <2>2, SavingConverging
  <1>5. CASE Quit(p)
    <2>1. /\ at[p] = "running" /\ UNCHANGED <<queue, seen, list, loaded>>
          /\ at' = [at EXCEPT ![p] = "leaving"]
          /\ pending' = pending \ {p} /\ file' = IF p \in pending THEN list[p] ELSE file
      BY <1>5 DEF Quit, MoveTo, ipcVars
    <2> QED
      BY <2>1, SavingConverging
  <1>6. CASE Cleanup(p)
    <2>1. /\ at[p] = "leaving" /\ Forgotten(p) /\ MoveTo(p, "ended")
          /\ UNCHANGED <<stamp, pending, file, changes>>
      BY <1>6 DEF Cleanup
    <2>2. p \notin pending
      BY <2>1 DEF Converging, Saves
    <2> QED
      BY <2>1, <2>2, LeavingConverging
  <1>7. CASE Crash(p)
    <2>1. /\ Forgotten(p) /\ MoveTo(p, "crashed") /\ pending' = pending \ {p} /\ p \notin pending
          /\ UNCHANGED <<stamp, file, changes>>
      BY <1>7 DEF Crash
    <2>2. pending' = pending
      BY <2>1
    <2> QED
      BY <2>1, <2>2, LeavingConverging
  <1> QED
    BY <1>1, <1>2, <1>3, <1>4, <1>5, <1>6, <1>7

\* Every step keeps that.
LEMMA NextSettles ==
  ASSUME Answers, Typed, Posted, Orderly, Settling, Next
  PROVE  Settling'
  <1>1. PICK p \in Procs :
          \/ PlainStart(p) \/ NewStart(p) \/ MakeDir(p) \/ BindPid(p) \/ ListenPid(p)
          \/ TryMain(p) \/ UnlinkMain(p) \/ BindMain(p) \/ ListenMain(p)
          \/ UserChange(p) \/ Look(p) \/ Receive(p) \/ Save(p)
          \/ Quit(p) \/ Cleanup(p) \/ Crash(p)
    BY DEF Next
  <1>2. CASE UserChange(p)
    BY <1>2, UserChangeSettles
  <1>3. CASE ~UserChange(p)
    <2> SUFFICES ASSUME ~disturbed'
                 PROVE  (\E old, mid, new \in Lists, M, R \in SUBSET Messages, o \in Names, s \in Nat :
                           Converging(old, mid, new, M, R, o, s))'
      BY DEF Settling
    <2>1. ~disturbed
      BY <1>1, <1>3 DEF PlainStart, NewStart, MakeDir, BindPid, ListenPid, TryMain, UnlinkMain, BindMain,
         ListenMain, Look, Receive, Save, Quit, Cleanup, Crash
    <2>2. PICK old \in Lists, mid \in Lists, new \in Lists, M \in SUBSET Messages, R \in SUBSET Messages,
               o \in Names, s \in Nat : Converging(old, mid, new, M, R, o, s)
      BY <2>1 DEF Settling
    <2>3. Converging(old, mid, new, M, R, o, s)'
      BY <1>1, <1>3, <2>2, NextConverging
    <2> QED
      BY <2>2, <2>3
  <1> QED
    BY <1>2, <1>3

\* At first nothing has changed.
LEMMA InitSettles ==
  ASSUME Init, Typed
  PROVE  Settling
  <1>1. Good(file, file, file, {}, {})
    BY DEF Good
  <1>2. Saves(file)
    BY DEF Saves, Init
  <1>3. ASSUME NEW p \in Procs PROVE Follows(p, file, file, file, {}, {}, Main, 0)
    BY DEF Init, Follows, Starting, Late
  <1>4. Converging(file, file, file, {}, {}, Main, 0)
    BY <1>1, <1>2, <1>3 DEF Converging
  <1>5. file \in Lists /\ Main \in Names
    BY DEF Typed, Names
  <1> QED
    BY <1>4, <1>5 DEF Settling

\* The invariant behind the agreement: there is always one last change, which those
\* who do not have it yet are going to hear of before anything else from its author.
THEOREM ListsSettle == Spec => [](Orderly /\ Settling)
  <1>1. Init => Orderly
    BY InitOrderly
  <1>2. Init /\ Typed => Settling
    BY InitSettles
  <1>3. Answers /\ Typed /\ Posted /\ Orderly /\ Settling /\ [Next]_vars => Orderly' /\ Settling'
    <2>1. ASSUME Answers, Typed, Posted, Orderly, Settling, Next PROVE Orderly' /\ Settling'
      BY <2>1, NextOrderly, NextSettles
    <2>2. ASSUME Orderly, Settling, UNCHANGED vars PROVE Orderly' /\ Settling'
      <3>1. UNCHANGED <<at, sockets, owner, dir, struck, queue, stamp, seen, list, loaded, pending, file,
                        disturbed>>
        BY <2>2 DEF vars, ipcVars, listVars, sharedVars
      <3>2. Orderly'
        BY <2>2, <3>1 DEF Orderly, Waiting
      <3>3. ASSUME NEW old, NEW mid, NEW new, NEW M, NEW R, NEW o, NEW s,
                   Converging(old, mid, new, M, R, o, s)
            PROVE  Converging(old, mid, new, M, R, o, s)'
        <4>1. \A p \in Procs : Loaded(p)' = Loaded(p)
          BY <3>1 DEF Loaded
        <4>2. \A p \in Procs : Awaits(p, M, o, s)' <=> Awaits(p, M, o, s)
          BY <3>1 DEF Awaits
        <4>3. ASSUME NEW p \in Procs PROVE Follows(p, old, mid, new, M, R, o, s)'
          BY <3>1, <3>3, <4>1, <4>2 DEF Converging, Follows
        <4>4. Saves(new)'
          BY <3>1, <3>3 DEF Converging, Saves
        <4> QED
          BY <3>1, <3>3, <4>3, <4>4 DEF Converging
      <3>4. Settling'
        BY <2>2, <3>1, <3>3 DEF Settling
      <3> QED
        BY <3>2, <3>4
    <2> QED
      BY <2>1, <2>2
  <1> QED
    BY <1>1, <1>2, <1>3, MessagesPaid, PTL DEF Spec

\* Once all is quiet, what moo_history_mgr_save wrote and what every running instance
\* shows is the same list, unless a change met another one, a start, or a crash.
THEOREM ListsAgree == Spec => []Agreement
  <1>1. ASSUME Typed, Settling PROVE Agreement
    <2> SUFFICES ASSUME Quiet, ~disturbed, NEW p \in loaded, at[p] = "running"
                 PROVE  list[p] = file
      BY DEF Agreement
    <2>1. p \in Procs
      BY <1>1 DEF Typed
    <2>2. PICK old \in Lists, mid \in Lists, new \in Lists, M \in SUBSET Messages, R \in SUBSET Messages,
               o \in Names, s \in Nat : Converging(old, mid, new, M, R, o, s)
      BY <1>1 DEF Settling
    <2>3. Loaded(p) = new /\ file = new
      BY <1>1, <2>1, <2>2, QuietAgrees
    <2> QED
      BY <2>3 DEF Loaded
  <1> QED
    BY <1>1, MessagesPaid, ListsSettle, PTL

=============================================================================
