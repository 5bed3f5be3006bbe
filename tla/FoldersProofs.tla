----------------------------- MODULE FoldersProofs -----------------------------
(***************************************************************************)
(* For any number of directories, files, views and addresses, and any size *)
(* of the cache: views list what their folders hold, monitors call folders *)
(* that are alive, and registry and cache name no folder that was freed.   *)
(* Handlers are functions of the program's state, so the invariant is one  *)
(* of a state, and each lemma follows one function.                        *)
(***************************************************************************)
EXTENDS Folders, FileWatchProofs, SequenceTheorems

FolderStates ==
  [impl : [Impls -> Impl], folders : [Files -> Impls \cup {NoImpl}],
   cache : Seq(Impls), paths : [Files -> Impls \cup {NoImpl}],
   monitors : [Ids -> Monitor], dir : [Views -> Impls \cup {NoImpl}],
   shown : [Views -> Impls \cup {NoImpl}], rows : [Views -> SUBSET File],
   hung : [Impls -> BOOLEAN], fault : {"none", "assert", "freed"}]

Events ==
  [id : Ids \cup {0}, code : {"none", "changed", "deleted", "error"},
   data : Impls \cup {NoImpl}]

\* One file for a name.
Single(F) == \A f, g \in F : f[1] = g[1] => f = g

\* Nobody waits for a folder that is free; its monitor comes when everything was looked
\* at, and nothing is looked at after that.
ImplOK(r) ==
  /\ r.path = NoFile => ~r.proxy /\ ~r.idle /\ ~r.reload /\ r.request = 0
  /\ r.request # 0 => r.done = STAGE_MIME_TYPE
  /\ r.idle => r.done # STAGE_MIME_TYPE
  /\ Single(r.files) /\ Single(r.copy)

\* Monitors and the folders m that wait for them know each other.
Owned(m, M) ==
  /\ \A id \in Ids : M[id].file # NoFile =>
       /\ M[id].data \in Impls
       /\ m[M[id].data].request = id /\ m[M[id].data].path = M[id].file
  /\ \A i \in Impls : m[i].request # 0 =>
       M[m[i].request].file # NoFile /\ M[m[i].request].data = i

\* A folder without users is in the queue c of the cache, once; the registry F
\* has folders in use, and the table P those of the queue, by their paths.
Cached(m, F, P, c) ==
  /\ \A p \in Files : F[p] # NoImpl => m[F[p]].path = p /\ m[F[p]].proxy /\ ~m[F[p]].deleted
  /\ \A p \in Files : P[p] # NoImpl => P[p] \in ToSet(c) /\ m[P[p]].path = p
  /\ ToSet(c) = {i \in Impls : m[i].path # NoFile /\ ~m[i].proxy}
  /\ \A i \in ToSet(c) : ~m[i].deleted
  /\ \A j, k \in DOMAIN c : c[j] = c[k] => j = k

\* A view holds a folder in use, and shows it unless it was deleted.
Viewed(m, D, S, R) ==
  \A v \in Views :
    /\ D[v] # NoImpl => m[D[v]].proxy
    /\ IF S[v] = NoImpl THEN R[v] = {} /\ (D[v] = NoImpl \/ m[D[v]].deleted)
       ELSE S[v] = D[v] /\ R[v] = m[S[v]].files /\ ~m[S[v]].deleted

Sound(s) ==
  /\ s \in FolderStates
  /\ \A i \in Impls : ImplOK(s.impl[i])
  /\ Owned(s.impl, s.monitors)
  /\ Cached(s.impl, s.folders, s.paths, s.cache)
  /\ Viewed(s.impl, s.dir, s.shown, s.rows)

\* Between two monitors of a poll there is no event, and what the poll means to
\* remove is what the event on hand says, if a folder still waits for it.
Polled ==
  /\ event \in Events
  /\ ~poll.running => poll = NoPoll /\ event = NoEvent
  /\ event # NoEvent =>
       /\ event.id \in Requests /\ monitors[event.id].data = event.data
       /\ event.code # "none"
  /\ poll.gone \cap Requests \subseteq (IF event.code = "deleted" THEN {event.id} ELSE {})

Inv ==
  /\ WatchTypeOK /\ entries \in [Files -> SUBSET Names]
  /\ Sound(State) /\ Polled

USE FoldersAssumption, FileWatchAssumption DEF FoldersAssumption, FileWatchAssumption

(***************************************************************************)
(* Lists                                                                   *)
(***************************************************************************)
\* A list without one of its elements.
LEMMA Removed ==
  ASSUME NEW S, NEW s \in Seq(S), NEW x, NEW i \in DOMAIN s, s[i] = x,
         \A j, k \in DOMAIN s : s[j] = s[k] => j = k
  PROVE  LET t == RemoveAt(s, i)
         IN /\ t \in Seq(S) /\ ToSet(t) = ToSet(s) \ {x} /\ Len(t) = Len(s) - 1
            /\ \A j, k \in DOMAIN t : t[j] = t[k] => j = k
  <1> DEFINE n == Len(s)
             a == SubSeq(s, 1, i - 1)
             b == SubSeq(s, i + 1, n)
             t == a \o b
  <1>1. DOMAIN s = 1 .. n /\ n \in Nat
    BY LenProperties
  <1>3. i \in 1 .. n /\ s[i] = x
    BY <1>1
  <1>4. \A j \in 1 .. n : s[j] \in S
    BY ElementOfSeq
  <1> HIDE DEF n
  <1>5. /\ a \in Seq(S) /\ Len(a) = i - 1
        /\ \A j \in 1 .. i - 1 : a[j] = s[j]
    <2>1. /\ SubSeq(s, 1, i - 1) \in Seq(S)
          /\ Len(SubSeq(s, 1, i - 1)) = IF 1 <= i - 1 THEN (i - 1) - 1 + 1 ELSE 0
          /\ \A j \in 1 .. (i - 1) - 1 + 1 : SubSeq(s, 1, i - 1)[j] = s[1 + j - 1]
      BY <1>1, <1>3, <1>4, SubSeqProperties
    <2> QED
      BY <1>1, <1>3, <2>1
  <1>6. /\ b \in Seq(S) /\ Len(b) = n - i
        /\ \A j \in 1 .. n - i : b[j] = s[i + j]
    <2>1. /\ SubSeq(s, i + 1, n) \in Seq(S)
          /\ Len(SubSeq(s, i + 1, n)) = IF i + 1 <= n THEN n - (i + 1) + 1 ELSE 0
          /\ \A j \in 1 .. n - (i + 1) + 1 : SubSeq(s, i + 1, n)[j] = s[(i + 1) + j - 1]
      BY <1>1, <1>3, <1>4, SubSeqProperties
    <2> QED
      BY <1>1, <1>3, <2>1
  <1> HIDE DEF a, b
  <1>7. /\ t \in Seq(S) /\ Len(t) = n - 1
        /\ \A j \in 1 .. n - 1 : t[j] = IF j <= i - 1 THEN a[j] ELSE b[j - (i - 1)]
    <2>0. a \in Seq(S) /\ b \in Seq(S)
      BY <1>5, <1>6
    <2>1. /\ a \o b \in Seq(S) /\ Len(a \o b) = Len(a) + Len(b)
          /\ \A j \in 1 .. Len(a) + Len(b) :
               (a \o b)[j] = IF j <= Len(a) THEN a[j] ELSE b[j - Len(a)]
      BY <2>0, ConcatProperties
    <2>2. Len(a) + Len(b) = n - 1
      BY <1>1, <1>3, <1>5, <1>6
    <2> QED
      BY <1>5, <2>1, <2>2
  <1>8. /\ \A j \in 1 .. n - 1 : t[j] = IF j < i THEN s[j] ELSE s[j + 1]
        /\ DOMAIN t = 1 .. n - 1
    <2>1. ASSUME NEW j \in 1 .. n - 1 PROVE t[j] = IF j < i THEN s[j] ELSE s[j + 1]
      <3>1. CASE j < i
        BY <1>1, <1>3, <1>5, <1>7, <3>1
      <3>2. CASE ~(j < i)
        <4>1. j - (i - 1) \in 1 .. n - i /\ i + (j - (i - 1)) = j + 1 /\ ~(j <= i - 1)
          BY <1>1, <1>3, <3>2
        <4> QED
          BY <1>6, <1>7, <3>2, <4>1
      <3> QED
        BY <3>1, <3>2
    <2>2. DOMAIN t = 1 .. Len(t)
      BY <1>7, LenProperties
    <2> QED
      BY <1>7, <2>1, <2>2
  <1> HIDE DEF t
  <1>9. \A j, k \in DOMAIN t : t[j] = t[k] => j = k
    <2> SUFFICES ASSUME NEW j \in 1 .. n - 1, NEW k \in 1 .. n - 1, t[j] = t[k] PROVE j = k
      BY <1>8
    <2> DEFINE jj == IF j < i THEN j ELSE j + 1
               kk == IF k < i THEN k ELSE k + 1
    <2>1. jj \in 1 .. n /\ kk \in 1 .. n /\ s[jj] = s[kk]
      BY <1>1, <1>3, <1>8
    <2>2. jj = kk
      BY <1>1, <2>1
    <2> QED
      BY <1>1, <1>3, <2>2
  <1>10. ToSet(t) = ToSet(s) \ {x}
    <2>1. ASSUME NEW y \in ToSet(t) PROVE y \in ToSet(s) \ {x}
      <3>1. PICK j \in 1 .. n - 1 : t[j] = y
        BY <1>8 DEF ToSet
      <3> DEFINE jj == IF j < i THEN j ELSE j + 1
      <3>2. jj \in 1 .. n /\ s[jj] = y /\ jj # i
        BY <1>1, <1>3, <1>8, <3>1
      <3> QED
        BY <1>1, <1>3, <3>2 DEF ToSet
    <2>2. ASSUME NEW y \in ToSet(s) \ {x} PROVE y \in ToSet(t)
      <3>1. PICK j \in 1 .. n : s[j] = y
        BY <1>1 DEF ToSet
      <3>2. j # i
        BY <1>3, <3>1
      <3> DEFINE jj == IF j < i THEN j ELSE j - 1
      <3>3. jj \in 1 .. n - 1 /\ t[jj] = s[j]
        <4>1. CASE j < i
          BY <1>1, <1>3, <1>8, <4>1
        <4>2. CASE ~(j < i)
          <5>1. j - 1 \in 1 .. n - 1 /\ ~(j - 1 < i) /\ (j - 1) + 1 = j
            BY <1>1, <1>3, <3>2, <4>2
          <5> QED
            BY <1>8, <4>2, <5>1
        <4> QED
          BY <4>1, <4>2
      <3> QED
        BY <1>8, <3>1, <3>3 DEF ToSet
    <2> QED
      BY <2>1, <2>2
  <1> QED
    BY <1>7, <1>9, <1>10 DEF RemoveAt, t, a, b, n

\* g_queue_remove takes an element that is listed once.
LEMMA FirstRemoved ==
  ASSUME NEW S, NEW s \in Seq(S), NEW x \in ToSet(s),
         \A j, k \in DOMAIN s : s[j] = s[k] => j = k
  PROVE  LET t == RemoveFirst(s, x)
         IN /\ t \in Seq(S) /\ ToSet(t) = ToSet(s) \ {x}
            /\ \A j, k \in DOMAIN t : t[j] = t[k] => j = k
  <1>1. DOMAIN s = 1 .. Len(s) /\ Len(s) \in Nat
    BY LenProperties
  <1>2. PICK i \in 1 .. Len(s) : s[i] = x
    BY <1>1 DEF ToSet
  <1>3. SelectInSeq(s, LAMBDA v : v = x) = i
    <2> DEFINE I == {j \in 1 .. Len(s) : s[j] = x}
    <2>1. I = {i}
      BY <1>1, <1>2
    <2>2. Min(I) = i
      BY <1>1, <1>2, <2>1 DEF Min
    <2> QED
      BY <2>1, <2>2 DEF SelectInSeq
  <1>4. RemoveFirst(s, x) = RemoveAt(s, i)
    BY <1>2, <1>3 DEF RemoveFirst
  <1>5. /\ RemoveAt(s, i) \in Seq(S) /\ ToSet(RemoveAt(s, i)) = ToSet(s) \ {x}
        /\ \A j, k \in DOMAIN RemoveAt(s, i) :
             RemoveAt(s, i)[j] = RemoveAt(s, i)[k] => j = k
    <2>1. i \in DOMAIN s /\ s[i] = x
      BY <1>1, <1>2
    <2> QED
      BY <2>1, Removed
  <1> QED
    BY <1>4, <1>5

\* A new head of the queue.
LEMMA Pushed ==
  ASSUME NEW S, NEW s \in Seq(S), NEW x \in S, x \notin ToSet(s),
         \A j, k \in DOMAIN s : s[j] = s[k] => j = k
  PROVE  LET t == <<x>> \o s
         IN /\ t \in Seq(S) /\ t # <<>> /\ ToSet(t) = ToSet(s) \cup {x}
            /\ \A j, k \in DOMAIN t : t[j] = t[k] => j = k
  <1> DEFINE t == <<x>> \o s
  <1>1. DOMAIN s = 1 .. Len(s) /\ Len(s) \in Nat
    BY LenProperties
  <1>2. <<x>> \in Seq(S) /\ Len(<<x>>) = 1 /\ <<x>>[1] = x
    OBVIOUS
  <1>3. /\ t \in Seq(S) /\ Len(t) = 1 + Len(s)
        /\ \A i \in 1 .. 1 + Len(s) : t[i] = IF i <= 1 THEN <<x>>[i] ELSE s[i - 1]
    BY <1>2, ConcatProperties
  <1>4. DOMAIN t = 1 .. 1 + Len(s)
    BY <1>3, LenProperties
  <1>5. t[1] = x /\ \A i \in 1 .. Len(s) : t[i + 1] = s[i]
    BY <1>1, <1>2, <1>3
  <1> HIDE DEF t
  <1>6. ToSet(t) = ToSet(s) \cup {x}
    <2>1. ASSUME NEW y \in ToSet(t) PROVE y \in ToSet(s) \cup {x}
      <3>1. PICK j \in 1 .. 1 + Len(s) : t[j] = y
        BY <1>4 DEF ToSet
      <3>2. j = 1 \/ (j - 1 \in 1 .. Len(s) /\ t[j] = s[j - 1])
        BY <1>1, <1>3
      <3> QED
        BY <1>1, <1>5, <3>1, <3>2 DEF ToSet
    <2>2. ASSUME NEW y \in ToSet(s) PROVE y \in ToSet(t)
      <3>1. PICK j \in 1 .. Len(s) : s[j] = y
        BY <1>1 DEF ToSet
      <3>2. j + 1 \in 1 .. 1 + Len(s) /\ t[j + 1] = y
        BY <1>1, <1>5, <3>1
      <3> QED
        BY <1>4, <3>2 DEF ToSet
    <2>3. x \in ToSet(t)
      BY <1>1, <1>4, <1>5 DEF ToSet
    <2> QED
      BY <2>1, <2>2, <2>3
  <1>7. ASSUME NEW j \in DOMAIN t, NEW k \in DOMAIN t, t[j] = t[k] PROVE j = k
    <2>1. /\ j \in 1 .. 1 + Len(s) /\ k \in 1 .. 1 + Len(s)
          /\ j = 1 \/ (j - 1 \in 1 .. Len(s) /\ t[j] = s[j - 1])
          /\ k = 1 \/ (k - 1 \in 1 .. Len(s) /\ t[k] = s[k - 1])
      BY <1>1, <1>3, <1>4
    <2>2. \A i \in 1 .. Len(s) : s[i] # x
      BY <1>1 DEF ToSet
    <2>3. CASE j = 1 \/ k = 1
      BY <1>5, <1>7, <2>1, <2>2, <2>3
    <2>4. CASE j # 1 /\ k # 1
      <3>1. j - 1 = k - 1
        BY <1>1, <1>7, <2>1, <2>4
      <3> QED
        BY <1>1, <2>1, <3>1
    <2> QED
      BY <2>3, <2>4
  <1>8. t # <<>>
    BY <1>1, <1>3, EmptySeq
  <1> QED
    BY <1>3, <1>6, <1>7, <1>8 DEF t

\* A queue without its tail.
LEMMA Popped ==
  ASSUME NEW S, NEW s \in Seq(S), s # <<>>,
         \A j, k \in DOMAIN s : s[j] = s[k] => j = k
  PROVE  /\ Last(s) \in ToSet(s) /\ Front(s) \in Seq(S)
         /\ ToSet(Front(s)) = ToSet(s) \ {Last(s)}
         /\ \A j, k \in DOMAIN Front(s) : Front(s)[j] = Front(s)[k] => j = k
  <1> DEFINE n == Len(s)
             t == Front(s)
  <1>1. DOMAIN s = 1 .. n /\ n \in Nat \ {0} /\ \A i \in 1 .. n : s[i] \in S
    BY LenProperties, EmptySeq, ElementOfSeq
  <1> HIDE DEF n
  <1>2. /\ SubSeq(s, 1, n - 1) \in Seq(S)
        /\ Len(SubSeq(s, 1, n - 1)) = IF 1 <= n - 1 THEN (n - 1) - 1 + 1 ELSE 0
        /\ \A i \in 1 .. (n - 1) - 1 + 1 : SubSeq(s, 1, n - 1)[i] = s[1 + i - 1]
    BY <1>1, SubSeqProperties
  <1>3. t \in Seq(S) /\ Len(t) = n - 1 /\ \A i \in 1 .. n - 1 : t[i] = s[i]
    BY <1>1, <1>2 DEF Front, n
  <1>4. DOMAIN t = 1 .. n - 1
    BY <1>3, LenProperties
  <1>5. Last(s) = s[n] /\ Last(s) \in ToSet(s)
    BY <1>1 DEF Last, ToSet, n
  <1> HIDE DEF t
  <1>6. ToSet(t) = ToSet(s) \ {Last(s)}
    <2>1. ASSUME NEW y \in ToSet(t) PROVE y \in ToSet(s) \ {Last(s)}
      <3>1. PICK j \in 1 .. n - 1 : t[j] = y
        BY <1>4 DEF ToSet
      <3>2. j \in 1 .. n /\ j # n /\ s[j] = y
        BY <1>1, <1>3, <3>1
      <3> QED
        BY <1>1, <1>5, <3>2 DEF ToSet
    <2>2. ASSUME NEW y \in ToSet(s) \ {Last(s)} PROVE y \in ToSet(t)
      <3>1. PICK j \in 1 .. n : s[j] = y
        BY <1>1 DEF ToSet
      <3>2. j \in 1 .. n - 1
        BY <1>1, <1>5, <3>1
      <3> QED
        BY <1>3, <1>4, <3>1, <3>2 DEF ToSet
    <2> QED
      BY <2>1, <2>2
  <1>7. \A j, k \in DOMAIN t : t[j] = t[k] => j = k
    BY <1>1, <1>3, <1>4
  <1> QED
    BY <1>3, <1>5, <1>6, <1>7 DEF t

(***************************************************************************)
(* Parts of the invariant                                                  *)
(***************************************************************************)
\* All but the folders and the monitors.
SameRest(s, t) ==
  /\ t.folders = s.folders /\ t.cache = s.cache /\ t.paths = s.paths
  /\ t.dir = s.dir /\ t.shown = s.shown /\ t.rows = s.rows
  /\ t.hung = s.hung /\ t.fault = s.fault

SameViews(s, t) == t.dir = s.dir /\ t.shown = s.shown /\ t.rows = s.rows

\* Monitors that were cancelled.
Dropped(M, N) == \A id \in Ids : N[id] = M[id] \/ N[id] = FreeMonitor

NotServing(M, i) == \A id \in Ids : M[id].file # NoFile => M[id].data # i

Clean(m) == \A i \in Impls : ImplOK(m[i])

\* A folder that is free.
LEMMA FreeFolder ==
  /\ FreeImpl \in Impl /\ ImplOK(FreeImpl)
  /\ FreeImpl.path = NoFile /\ ~FreeImpl.proxy /\ ~FreeImpl.deleted
  /\ FreeImpl.request = 0 /\ FreeImpl.files = {} /\ FreeImpl.copy = {}
  /\ ~FreeImpl.idle /\ ~FreeImpl.reload /\ FreeImpl.done = STAGE_NAMES
  BY DEF FreeImpl, Impl, ImplOK, Single, Stage, STAGE_NAMES, STAGE_MIME_TYPE

LEMMA FreeEntry == FreeMonitor.file = NoFile /\ FreeMonitor \in Monitor
  BY FreeMonitorType DEF FreeMonitor

\* The fields of a state.
LEMMA Typed ==
  ASSUME NEW s \in FolderStates
  PROVE  /\ s.impl \in [Impls -> Impl] /\ s.folders \in [Files -> Impls \cup {NoImpl}]
         /\ s.cache \in Seq(Impls) /\ s.paths \in [Files -> Impls \cup {NoImpl}]
         /\ s.monitors \in [Ids -> Monitor] /\ s.dir \in [Views -> Impls \cup {NoImpl}]
         /\ s.shown \in [Views -> Impls \cup {NoImpl}] /\ s.rows \in [Views -> SUBSET File]
         /\ s.hung \in [Impls -> BOOLEAN] /\ s.fault \in {"none", "assert", "freed"}
  BY DEF FolderStates

LEMMA TypedFolder ==
  ASSUME NEW r \in Impl
  PROVE  /\ r.path \in Files \cup {NoFile} /\ r.proxy \in BOOLEAN /\ r.deleted \in BOOLEAN
         /\ r.done \in Stage /\ r.files \in SUBSET File /\ r.untyped \in SUBSET File
         /\ r.copy \in SUBSET File /\ r.idle \in BOOLEAN /\ r.request \in Ids \cup {0}
         /\ r.reload \in BOOLEAN
  BY DEF Impl

\* Each part of the invariant depends on some fields only.
LEMMA OwnedFrame ==
  ASSUME NEW m, NEW m2, NEW M, Owned(m, M), M \in [Ids -> Monitor], m2 \in [Impls -> Impl],
         \A i \in Impls : m2[i].path = m[i].path /\ m2[i].request = m[i].request
  PROVE  Owned(m2, M)
  <1>1. ASSUME NEW id \in Ids, M[id].file # NoFile
        PROVE  /\ M[id].data \in Impls
               /\ m2[M[id].data].request = id /\ m2[M[id].data].path = M[id].file
    BY <1>1 DEF Owned
  <1>2. ASSUME NEW i \in Impls, m2[i].request # 0
        PROVE  M[m2[i].request].file # NoFile /\ M[m2[i].request].data = i
    BY <1>2 DEF Owned
  <1> QED
    BY <1>1, <1>2 DEF Owned

LEMMA CachedFrame ==
  ASSUME NEW m, NEW m2, NEW F, NEW P, NEW c, Cached(m, F, P, c),
         F \in [Files -> Impls \cup {NoImpl}], P \in [Files -> Impls \cup {NoImpl}],
         \A i \in Impls : m2[i].path = m[i].path /\ m2[i].proxy = m[i].proxy
                            /\ m2[i].deleted = m[i].deleted
  PROVE  Cached(m2, F, P, c)
  <1>1. ASSUME NEW p \in Files, F[p] # NoImpl
        PROVE  m2[F[p]].path = p /\ m2[F[p]].proxy /\ ~m2[F[p]].deleted
    <2>1. F[p] \in Impls
      BY <1>1
    <2> QED
      BY <1>1, <2>1 DEF Cached
  <1>2. ASSUME NEW p \in Files, P[p] # NoImpl
        PROVE  P[p] \in ToSet(c) /\ m2[P[p]].path = p
    <2>1. P[p] \in Impls
      BY <1>2
    <2> QED
      BY <1>2, <2>1 DEF Cached
  <1>3. ToSet(c) = {i \in Impls : m2[i].path # NoFile /\ ~m2[i].proxy}
    BY DEF Cached
  <1>4. \A i \in ToSet(c) : ~m2[i].deleted
    BY DEF Cached
  <1> QED
    BY <1>1, <1>2, <1>3, <1>4 DEF Cached

LEMMA ViewedFrame ==
  ASSUME NEW m, NEW m2, NEW D, NEW S, NEW R, Viewed(m, D, S, R),
         D \in [Views -> Impls \cup {NoImpl}], S \in [Views -> Impls \cup {NoImpl}],
         \A i \in Impls : m2[i].files = m[i].files /\ m2[i].proxy = m[i].proxy
                            /\ m2[i].deleted = m[i].deleted
  PROVE  Viewed(m2, D, S, R)
  <1> SUFFICES ASSUME NEW v \in Views
      PROVE  /\ D[v] # NoImpl => m2[D[v]].proxy
             /\ IF S[v] = NoImpl THEN R[v] = {} /\ (D[v] = NoImpl \/ m2[D[v]].deleted)
                ELSE S[v] = D[v] /\ R[v] = m2[S[v]].files /\ ~m2[S[v]].deleted
    BY DEF Viewed
  <1>1. D[v] \in Impls \cup {NoImpl} /\ S[v] \in Impls \cup {NoImpl}
    OBVIOUS
  <1> QED
    BY <1>1 DEF Viewed

\* One folder is not what it was, but none of the rest sees that.
LEMMA FolderTouched ==
  ASSUME NEW s, Sound(s), NEW i \in Impls, NEW r \in Impl, ImplOK(r),
         r.path = s.impl[i].path, r.proxy = s.impl[i].proxy, r.deleted = s.impl[i].deleted,
         r.files = s.impl[i].files, r.request = s.impl[i].request,
         NEW t \in FolderStates, t.impl = [s.impl EXCEPT ![i] = r],
         t.monitors = s.monitors, t.folders = s.folders, t.cache = s.cache,
         t.paths = s.paths, SameViews(s, t)
  PROVE  Sound(t)
  <1>1. s \in FolderStates
    BY DEF Sound
  <1>2. \A j \in Impls : t.impl[j] = IF j = i THEN r ELSE s.impl[j]
    BY <1>1, Typed
  <1>3. \A j \in Impls : /\ t.impl[j].path = s.impl[j].path /\ t.impl[j].proxy = s.impl[j].proxy
                         /\ t.impl[j].deleted = s.impl[j].deleted /\ t.impl[j].files = s.impl[j].files
                         /\ t.impl[j].request = s.impl[j].request
    BY <1>2
  <1>4. \A j \in Impls : ImplOK(t.impl[j])
    BY <1>2 DEF Sound
  <1>5. Owned(t.impl, t.monitors)
    <2>1. Owned(s.impl, t.monitors) /\ t.monitors \in [Ids -> Monitor]
          /\ t.impl \in [Impls -> Impl]
      BY Typed DEF Sound
    <2>2. \A j \in Impls : t.impl[j].path = s.impl[j].path /\ t.impl[j].request = s.impl[j].request
      BY <1>3
    <2> QED
      BY <2>1, <2>2, OwnedFrame
  <1>6. Cached(t.impl, t.folders, t.paths, t.cache)
    BY <1>1, <1>3, Typed, CachedFrame DEF Sound
  <1>7. Viewed(t.impl, t.dir, t.shown, t.rows)
    <2>1. /\ Viewed(s.impl, t.dir, t.shown, t.rows)
          /\ t.dir \in [Views -> Impls \cup {NoImpl}] /\ t.shown \in [Views -> Impls \cup {NoImpl}]
      BY Typed DEF Sound, SameViews
    <2>2. \A j \in Impls : t.impl[j].files = s.impl[j].files /\ t.impl[j].proxy = s.impl[j].proxy
                            /\ t.impl[j].deleted = s.impl[j].deleted
      BY <1>3
    <2> DEFINE m == s.impl  m2 == t.impl  D == t.dir  S == t.shown  R == t.rows
    <2>3. /\ Viewed(m, D, S, R)
          /\ D \in [Views -> Impls \cup {NoImpl}] /\ S \in [Views -> Impls \cup {NoImpl}]
          /\ \A j \in Impls : m2[j].files = m[j].files /\ m2[j].proxy = m[j].proxy
                               /\ m2[j].deleted = m[j].deleted
      BY <2>1, <2>2
    <2> HIDE DEF m, m2, D, S, R
    <2>4. Viewed(m2, D, S, R)
      BY <2>3, ViewedFrame
    <2> QED
      BY <2>4 DEF m2, D, S, R
  <1> QED
    BY <1>4, <1>5, <1>6, <1>7 DEF Sound

\* Only the mark of a fault differs.
LEMMA AssertedSound ==
  ASSUME NEW s, Sound(s), NEW ok, NEW t, t = Asserted(s, ok)
  PROVE  Sound(t) /\ t.impl = s.impl /\ t.monitors = s.monitors /\ SameViews(s, t)
  <1>1. s \in FolderStates
    BY DEF Sound
  <1>2. /\ t \in FolderStates /\ t.impl = s.impl /\ t.monitors = s.monitors
        /\ t.folders = s.folders /\ t.cache = s.cache /\ t.paths = s.paths
        /\ t.dir = s.dir /\ t.shown = s.shown /\ t.rows = s.rows
    BY <1>1 DEF Asserted, FolderStates
  <1> QED
    BY <1>2 DEF Sound, SameViews

(***************************************************************************)
(* Folders are shut and freed                                              *)
(***************************************************************************)
\* A monitor is cancelled with the folder's knowledge of it.
LEMMA MonitorStopped ==
  ASSUME NEW s \in FolderStates, NEW i \in Impls, Owned(s.impl, s.monitors),
         NEW t, t = StopMonitor(s, i)
  PROVE  /\ t \in FolderStates /\ SameRest(s, t)
         /\ t.impl = [s.impl EXCEPT ![i] = [s.impl[i] EXCEPT !.request = 0]]
         /\ Owned(t.impl, t.monitors) /\ Dropped(s.monitors, t.monitors)
         /\ NotServing(t.monitors, i)
  <1> DEFINE q == s.impl[i].request
             r == [s.impl[i] EXCEPT !.request = 0]
             m2 == [s.impl EXCEPT ![i] = r]
             M2 == IF q = 0 THEN s.monitors ELSE Cancelled(s.monitors, q)
  <1>1. s.impl \in [Impls -> Impl] /\ s.monitors \in [Ids -> Monitor] /\ q \in Ids \cup {0}
    BY Typed, TypedFolder
  <1>2. r \in Impl /\ r.request = 0 /\ r.path = s.impl[i].path
    BY <1>1 DEF Impl
  <1> HIDE DEF q, r
  <1>3. m2 \in [Impls -> Impl] /\ \A j \in Impls : m2[j] = IF j = i THEN r ELSE s.impl[j]
    BY <1>1, <1>2
  <1>4. /\ M2 \in [Ids -> Monitor]
        /\ \A id \in Ids : M2[id] = IF id = q THEN FreeMonitor ELSE s.monitors[id]
    BY <1>1, CancelledType
  <1>5. t = [s EXCEPT !.impl = m2, !.monitors = M2]
    <2>1. CASE q = 0
      <3>1. r = s.impl[i]
        BY <1>1, <2>1 DEF r, q, Impl
      <3>2. m2 = s.impl
        BY <1>1, <3>1
      <3> QED
        BY <2>1, <3>2 DEF StopMonitor, q, FolderStates
    <2>2. CASE q # 0
      BY <2>2 DEF StopMonitor, q, r
    <2> QED
      BY <2>1, <2>2
  <1> HIDE DEF m2, M2
  <1>6. t \in FolderStates /\ t.impl = m2 /\ t.monitors = M2 /\ SameRest(s, t)
    BY <1>3, <1>4, <1>5 DEF FolderStates, SameRest
  <1>7. Dropped(s.monitors, M2)
    BY <1>4 DEF Dropped
  <1>8. NotServing(M2, i)
    <2> SUFFICES ASSUME NEW id \in Ids, M2[id].file # NoFile PROVE M2[id].data # i
      BY DEF NotServing
    <2>1. id # q /\ M2[id] = s.monitors[id]
      BY <1>4, FreeEntry
    <2> QED
      BY <2>1 DEF Owned, q
  <1>9. Owned(m2, M2)
    <2>1. ASSUME NEW id \in Ids, M2[id].file # NoFile
          PROVE  /\ M2[id].data \in Impls
                 /\ m2[M2[id].data].request = id /\ m2[M2[id].data].path = M2[id].file
      <3>1. M2[id] = s.monitors[id] /\ M2[id].data # i
        BY <1>4, <1>8, <2>1, FreeEntry DEF NotServing
      <3> QED
        BY <1>3, <2>1, <3>1 DEF Owned
    <2>2. ASSUME NEW j \in Impls, m2[j].request # 0
          PROVE  M2[m2[j].request].file # NoFile /\ M2[m2[j].request].data = j
      <3>1. j # i /\ m2[j] = s.impl[j]
        BY <1>2, <1>3, <2>2
      <3>2. s.impl[j].request \in Ids
        BY <1>1, <2>2, <3>1, TypedFolder
      <3>3. s.monitors[s.impl[j].request].data = j /\ s.monitors[s.impl[j].request].file # NoFile
        BY <2>2, <3>1 DEF Owned
      <3>4. s.impl[j].request # q
        BY <1>1, <3>1, <3>2, <3>3 DEF Owned, q
      <3> QED
        BY <1>4, <3>1, <3>2, <3>3, <3>4
    <2> QED
      BY <2>1, <2>2 DEF Owned
  <1> QED
    BY <1>6, <1>7, <1>8, <1>9 DEF m2, r

\* What is left of a folder that is shut.
Shut(r) == [r EXCEPT !.request = 0, !.idle = FALSE, !.copy = {}, !.reload = FALSE,
                     !.files = {}, !.untyped = {}]

LEMMA ShutFolder ==
  ASSUME NEW r \in Impl, ImplOK(r)
  PROVE  /\ Shut(r) \in Impl /\ ImplOK(Shut(r)) /\ Shut(r).path = r.path
         /\ Shut(r).proxy = r.proxy /\ Shut(r).deleted = r.deleted /\ Shut(r).request = 0
         /\ Shut(r).files = {}
  <1>1. /\ Shut(r) \in Impl /\ Shut(r).path = r.path /\ Shut(r).request = 0
        /\ Shut(r).proxy = r.proxy /\ Shut(r).deleted = r.deleted
        /\ Shut(r).files = {} /\ Shut(r).copy = {}
        /\ Shut(r).idle = FALSE /\ Shut(r).reload = FALSE
    BY DEF Shut, Impl
  <1> QED
    BY <1>1 DEF ImplOK, Single

LEMMA FolderIsShut ==
  ASSUME NEW s \in FolderStates, NEW i \in Impls, Owned(s.impl, s.monitors), Clean(s.impl),
         NEW t, t = FolderShutdown(s, i)
  PROVE  /\ t \in FolderStates /\ SameRest(s, t)
         /\ t.impl = [s.impl EXCEPT ![i] = Shut(s.impl[i])] /\ Clean(t.impl)
         /\ Owned(t.impl, t.monitors) /\ Dropped(s.monitors, t.monitors)
         /\ NotServing(t.monitors, i)
  <1> DEFINE u == StopMonitor(s, i)
             r == Shut(s.impl[i])
             m2 == [s.impl EXCEPT ![i] = r]
  <1>1. /\ u \in FolderStates /\ SameRest(s, u)
        /\ u.impl = [s.impl EXCEPT ![i] = [s.impl[i] EXCEPT !.request = 0]]
        /\ Owned(u.impl, u.monitors) /\ Dropped(s.monitors, u.monitors)
        /\ NotServing(u.monitors, i)
    BY MonitorStopped
  <1>2. s.impl \in [Impls -> Impl] /\ s.impl[i] \in Impl /\ ImplOK(s.impl[i])
    BY Typed DEF Clean
  <1>3. r \in Impl /\ ImplOK(r) /\ r.path = s.impl[i].path /\ r.request = 0
    BY <1>2, ShutFolder
  <1>4. m2 \in [Impls -> Impl] /\ \A j \in Impls : m2[j] = IF j = i THEN r ELSE s.impl[j]
    BY <1>2, <1>3
  <1>5. t = [u EXCEPT !.impl[i] = [@ EXCEPT !.idle = FALSE, !.copy = {}, !.reload = FALSE,
                                            !.files = {}, !.untyped = {}]]
    BY DEF FolderShutdown
  <1> HIDE DEF u
  <1>6. t = [u EXCEPT !.impl = [u.impl EXCEPT ![i] =
                 [u.impl[i] EXCEPT !.idle = FALSE, !.copy = {}, !.reload = FALSE,
                                   !.files = {}, !.untyped = {}]]]
    BY <1>5
  <1>7. [u.impl[i] EXCEPT !.idle = FALSE, !.copy = {}, !.reload = FALSE,
                          !.files = {}, !.untyped = {}] = r
    BY <1>1, <1>2 DEF Shut, Impl
  <1>8. [u.impl EXCEPT ![i] = r] = m2
    BY <1>1, <1>2
  <1>9. t = [u EXCEPT !.impl = m2]
    BY <1>6, <1>7, <1>8
  <1> HIDE DEF r, m2
  <1>10. t \in FolderStates /\ t.impl = m2 /\ t.monitors = u.monitors /\ SameRest(s, t)
    BY <1>1, <1>4, <1>9 DEF FolderStates, SameRest
  <1>11. Clean(m2)
    BY <1>3, <1>4 DEF Clean
  <1>12. \A j \in Impls : m2[j].path = u.impl[j].path /\ m2[j].request = u.impl[j].request
    <2> SUFFICES ASSUME NEW j \in Impls
        PROVE  m2[j].path = u.impl[j].path /\ m2[j].request = u.impl[j].request
      OBVIOUS
    <2>1. CASE j = i
      <3>1. u.impl[i] = [s.impl[i] EXCEPT !.request = 0]
        BY <1>1, <1>2
      <3>2. u.impl[i].request = 0 /\ u.impl[i].path = s.impl[i].path
        BY <1>2, <3>1 DEF Impl
      <3> QED
        BY <1>3, <1>4, <2>1, <3>2
    <2>2. CASE j # i
      BY <1>1, <1>2, <1>4, <2>2
    <2> QED
      BY <2>1, <2>2
  <1>13. Owned(m2, u.monitors)
    <2>1. Owned(u.impl, u.monitors) /\ u.monitors \in [Ids -> Monitor]
      BY <1>1, Typed
    <2> QED
      BY <1>4, <1>12, <2>1, OwnedFrame
  <1> QED
    BY <1>1, <1>10, <1>11, <1>13 DEF m2, r

LEMMA FolderIsFreed ==
  ASSUME NEW s \in FolderStates, NEW i \in Impls, Owned(s.impl, s.monitors), Clean(s.impl),
         NEW t, t = ImplFree(s, i)
  PROVE  /\ t \in FolderStates /\ SameRest(s, t)
         /\ t.impl = [s.impl EXCEPT ![i] = FreeImpl] /\ Clean(t.impl)
         /\ Owned(t.impl, t.monitors) /\ Dropped(s.monitors, t.monitors)
  <1> DEFINE u == FolderShutdown(s, i)
             m2 == [s.impl EXCEPT ![i] = FreeImpl]
  <1>1. /\ u \in FolderStates /\ SameRest(s, u)
        /\ u.impl = [s.impl EXCEPT ![i] = Shut(s.impl[i])]
        /\ Owned(u.impl, u.monitors) /\ Dropped(s.monitors, u.monitors)
        /\ NotServing(u.monitors, i)
    BY FolderIsShut
  <1>2. s.impl \in [Impls -> Impl] /\ u.impl \in [Impls -> Impl] /\ u.monitors \in [Ids -> Monitor]
    BY <1>1, Typed
  <1>3. m2 \in [Impls -> Impl] /\ \A j \in Impls : m2[j] = IF j = i THEN FreeImpl ELSE s.impl[j]
    BY <1>2, FreeFolder
  <1>4. t = [u EXCEPT !.impl[i] = FreeImpl]
    BY DEF ImplFree
  <1> HIDE DEF u
  <1>5. [u.impl EXCEPT ![i] = FreeImpl] = m2
    BY <1>1, <1>2
  <1>6. t = [u EXCEPT !.impl = m2]
    BY <1>1, <1>4, <1>5
  <1>7. \A j \in Impls : j # i => m2[j] = u.impl[j]
    BY <1>1, <1>2, <1>3
  <1> HIDE DEF m2
  <1>8. t \in FolderStates /\ t.impl = m2 /\ t.monitors = u.monitors /\ SameRest(s, t)
    BY <1>1, <1>3, <1>6 DEF FolderStates, SameRest
  <1>9. Clean(m2)
    BY <1>3, FreeFolder DEF Clean
  <1>10. Owned(m2, u.monitors)
    <2>1. ASSUME NEW id \in Ids, u.monitors[id].file # NoFile
          PROVE  /\ u.monitors[id].data \in Impls
                 /\ m2[u.monitors[id].data].request = id
                 /\ m2[u.monitors[id].data].path = u.monitors[id].file
      <3>1. u.monitors[id].data # i
        BY <1>1, <2>1 DEF NotServing
      <3> QED
        BY <1>1, <1>7, <2>1, <3>1, ZenonT(30) DEF Owned
    <2>2. ASSUME NEW j \in Impls, m2[j].request # 0
          PROVE  u.monitors[m2[j].request].file # NoFile /\ u.monitors[m2[j].request].data = j
      <3>1. j # i
        BY <1>3, <2>2, FreeFolder
      <3> QED
        BY <1>1, <1>7, <2>2, <3>1 DEF Owned
    <2> QED
      BY <2>1, <2>2 DEF Owned
  <1> QED
    BY <1>1, <1>8, <1>9, <1>10 DEF m2

\* Nothing points to a folder that is freed.
LEMMA NobodyPointsToFreed ==
  ASSUME NEW s, Sound(s), NEW i \in Impls, NEW t \in FolderStates,
         t.impl = [s.impl EXCEPT ![i] = FreeImpl], Clean(t.impl), Owned(t.impl, t.monitors),
         SameViews(s, t), \A v \in Views : s.dir[v] # i,
         \A p \in Files : t.folders[p] # i /\ t.folders[p] \in {s.folders[p], NoImpl},
         \A p \in Files : t.paths[p] # i /\ t.paths[p] \in {s.paths[p], NoImpl},
         ToSet(t.cache) = ToSet(s.cache) \ {i},
         \A j, k \in DOMAIN t.cache : t.cache[j] = t.cache[k] => j = k
  PROVE  Sound(t)
  <1> DEFINE m2 == t.impl
  <1>1. s \in FolderStates /\ Cached(s.impl, s.folders, s.paths, s.cache)
        /\ Viewed(s.impl, s.dir, s.shown, s.rows)
    BY DEF Sound
  <1>2. \A j \in Impls : m2[j] = IF j = i THEN FreeImpl ELSE s.impl[j]
    BY <1>1, Typed
  <1> HIDE DEF m2
  <1>3. ASSUME NEW p \in Files, t.folders[p] # NoImpl
        PROVE  m2[t.folders[p]].path = p /\ m2[t.folders[p]].proxy /\ ~m2[t.folders[p]].deleted
    <2>1. t.folders[p] = s.folders[p] /\ t.folders[p] \in Impls /\ t.folders[p] # i
      BY <1>3, Typed
    <2> QED
      BY <1>1, <1>2, <1>3, <2>1 DEF Cached
  <1>4. ASSUME NEW p \in Files, t.paths[p] # NoImpl
        PROVE  t.paths[p] \in ToSet(t.cache) /\ m2[t.paths[p]].path = p
    <2>1. t.paths[p] = s.paths[p] /\ t.paths[p] \in Impls /\ t.paths[p] # i
      BY <1>4, Typed
    <2> QED
      BY <1>1, <1>2, <1>4, <2>1 DEF Cached
  <1>5. ToSet(t.cache) = {j \in Impls : m2[j].path # NoFile /\ ~m2[j].proxy}
    BY <1>1, <1>2, FreeFolder DEF Cached
  <1>6. \A j \in ToSet(t.cache) : ~m2[j].deleted
    BY <1>1, <1>2, FreeFolder DEF Cached
  <1>7. Cached(m2, t.folders, t.paths, t.cache)
    BY <1>3, <1>4, <1>5, <1>6 DEF Cached
  <1>8. Viewed(m2, t.dir, t.shown, t.rows)
    <2> SUFFICES ASSUME NEW v \in Views
        PROVE  /\ s.dir[v] # NoImpl => m2[s.dir[v]].proxy
               /\ IF s.shown[v] = NoImpl
                    THEN s.rows[v] = {} /\ (s.dir[v] = NoImpl \/ m2[s.dir[v]].deleted)
                  ELSE s.shown[v] = s.dir[v] /\ s.rows[v] = m2[s.shown[v]].files
                       /\ ~m2[s.shown[v]].deleted
      BY DEF Viewed, SameViews
    <2>1. s.dir[v] # i /\ s.dir[v] \in Impls \cup {NoImpl}
      BY <1>1, Typed
    <2>2. s.dir[v] # NoImpl => m2[s.dir[v]] = s.impl[s.dir[v]]
      BY <1>2, <2>1
    <2>3. CASE s.shown[v] = NoImpl
      BY <1>1, <2>2, <2>3 DEF Viewed
    <2>4. CASE s.shown[v] # NoImpl
      <3>1. s.shown[v] = s.dir[v]
        BY <1>1, <2>4 DEF Viewed
      <3> QED
        BY <1>1, <2>2, <2>4, <3>1 DEF Viewed
    <2> QED
      BY <2>3, <2>4
  <1> QED
    BY <1>7, <1>8 DEF Sound, Clean, m2

LEMMA DroppedTwice ==
  ASSUME NEW M, NEW N, NEW K, Dropped(M, N), Dropped(N, K)
  PROVE  Dropped(M, K)
  BY DEF Dropped

LEMMA StillNotServing ==
  ASSUME NEW M, NEW N, NEW i, NotServing(M, i), Dropped(M, N)
  PROVE  NotServing(N, i)
  BY FreeEntry DEF NotServing, Dropped

\* Who points to a folder: the cache only to those not in use, the others only
\* to those in use.
LEMMA Pointers ==
  ASSUME NEW s, Sound(s), NEW i \in Impls
  PROVE  /\ s.impl[i].proxy => /\ s.impl[i].path \in Files /\ i \notin ToSet(s.cache)
                               /\ \A p \in Files : s.paths[p] # i
                               /\ \A p \in Files : s.folders[p] = i => p = s.impl[i].path
         /\ i \in ToSet(s.cache) => /\ s.impl[i].path \in Files /\ ~s.impl[i].proxy
                                    /\ \A p \in Files : s.folders[p] # i
                                    /\ \A p \in Files : s.paths[p] = i => p = s.impl[i].path
                                    /\ \A v \in Views : s.dir[v] # i
         /\ s.impl[i].path # NoFile /\ ~s.impl[i].proxy => i \in ToSet(s.cache)
  <1>1. /\ s \in FolderStates /\ ImplOK(s.impl[i]) /\ s.impl[i] \in Impl
        /\ Cached(s.impl, s.folders, s.paths, s.cache) /\ Viewed(s.impl, s.dir, s.shown, s.rows)
    BY Typed DEF Sound
  <1>2. s.impl[i].path \in Files \cup {NoFile}
    BY <1>1, TypedFolder
  <1>3. i # NoImpl
    BY DEF Impls, NoImpl
  <1>4. \A v \in Views : s.dir[v] = i => s.impl[i].proxy
    BY <1>1, <1>3 DEF Viewed
  <1>5. \A p \in Files : s.folders[p] = i => s.impl[i].proxy /\ s.impl[i].path = p
    BY <1>1, <1>3 DEF Cached
  <1>6. \A p \in Files : s.paths[p] = i => i \in ToSet(s.cache) /\ s.impl[i].path = p
    BY <1>1, <1>3 DEF Cached
  <1>7. i \in ToSet(s.cache) <=> s.impl[i].path # NoFile /\ ~s.impl[i].proxy
    BY <1>1 DEF Cached
  <1>8. s.impl[i].proxy => s.impl[i].path # NoFile
    BY <1>1 DEF ImplOK
  <1> QED
    BY <1>2, <1>4, <1>5, <1>6, <1>7, <1>8

\* A folder that nobody uses goes to the cache, which may push out another,
\* or is freed when it was deleted.
LEMMA FinalizedSound ==
  ASSUME NEW s, Sound(s), NEW i \in Impls, s.impl[i].proxy, \A v \in Views : s.dir[v] # i,
         NEW t, t = Finalized(s, i)
  PROVE  Sound(t) /\ Dropped(s.monitors, t.monitors) /\ SameViews(s, t)
  <1> DEFINE p == s.impl[i].path
             r == [s.impl[i] EXCEPT !.proxy = FALSE]
             m1 == [s.impl EXCEPT ![i] = r]
             h1 == [s.hung EXCEPT ![i] = FALSE]
             F1 == [s.folders EXCEPT ![p] = NoImpl]
             s1 == [s EXCEPT !.impl = m1, !.hung = h1, !.folders = F1]
  <1>1. /\ s \in FolderStates /\ Clean(s.impl) /\ Owned(s.impl, s.monitors)
        /\ Cached(s.impl, s.folders, s.paths, s.cache) /\ Viewed(s.impl, s.dir, s.shown, s.rows)
    BY DEF Sound, Clean
  <1>2. /\ s.impl \in [Impls -> Impl] /\ s.impl[i] \in Impl /\ ImplOK(s.impl[i])
        /\ s.hung \in [Impls -> BOOLEAN] /\ s.folders \in [Files -> Impls \cup {NoImpl}]
        /\ s.paths \in [Files -> Impls \cup {NoImpl}] /\ s.cache \in Seq(Impls)
        /\ s.monitors \in [Ids -> Monitor] /\ s.dir \in [Views -> Impls \cup {NoImpl}]
        /\ s.shown \in [Views -> Impls \cup {NoImpl}]
    BY <1>1, Typed DEF Clean
  <1>3. /\ p \in Files /\ i \notin ToSet(s.cache) /\ i # NoImpl
        /\ \A q \in Files : s.paths[q] # i /\ (s.folders[q] = i => q = p)
    BY Pointers DEF Impls, NoImpl
  <1>4. t = IF s.impl[i].deleted THEN ImplFree(s1, i) ELSE AddFolderCache(s1, i)
    BY DEF Finalized
  <1>5. /\ r \in Impl /\ r.path = p /\ ~r.proxy /\ r.deleted = s.impl[i].deleted
        /\ r.request = s.impl[i].request /\ r.files = s.impl[i].files /\ ImplOK(r)
    <2>1. /\ r \in Impl /\ r.path = p /\ ~r.proxy /\ r.deleted = s.impl[i].deleted
          /\ r.request = s.impl[i].request /\ r.files = s.impl[i].files
          /\ r.copy = s.impl[i].copy /\ r.idle = s.impl[i].idle /\ r.done = s.impl[i].done
      BY <1>2 DEF Impl
    <2> QED
      BY <1>2, <1>3, <2>1 DEF ImplOK
  <1> HIDE DEF r
  <1>6. m1 \in [Impls -> Impl] /\ \A j \in Impls : m1[j] = IF j = i THEN r ELSE s.impl[j]
    BY <1>2, <1>5
  <1>7. /\ F1 \in [Files -> Impls \cup {NoImpl}] /\ h1 \in [Impls -> BOOLEAN]
        /\ \A q \in Files : F1[q] # i /\ F1[q] \in {s.folders[q], NoImpl}
    BY <1>2, <1>3
  <1>8. Owned(m1, s.monitors) /\ Clean(m1)
    <2>1. \A j \in Impls : m1[j].path = s.impl[j].path /\ m1[j].request = s.impl[j].request
      BY <1>5, <1>6
    <2>2. Owned(m1, s.monitors)
      BY <1>1, <1>2, <1>6, <2>1, OwnedFrame, SMTT(30)
    <2> QED
      BY <1>1, <1>5, <1>6, <2>2 DEF Clean
  <1> HIDE DEF m1, h1, F1
  <1>9. /\ s1 \in FolderStates /\ s1.impl = m1 /\ s1.folders = F1 /\ s1.hung = h1
        /\ s1.cache = s.cache /\ s1.paths = s.paths /\ s1.monitors = s.monitors
        /\ SameViews(s, s1) /\ s1.fault = s.fault
    BY <1>1, <1>6, <1>7 DEF FolderStates, SameViews
  <1> HIDE DEF s1
  <1>10. CASE s.impl[i].deleted
    <2>1. t = ImplFree(s1, i)
      BY <1>4, <1>10
    <2>2. /\ t \in FolderStates /\ SameRest(s1, t)
          /\ t.impl = [m1 EXCEPT ![i] = FreeImpl] /\ Clean(t.impl)
          /\ Owned(t.impl, t.monitors) /\ Dropped(s.monitors, t.monitors)
      BY <1>8, <1>9, <2>1, FolderIsFreed
    <2>3. t.impl = [s.impl EXCEPT ![i] = FreeImpl]
      BY <1>2, <2>2 DEF m1
    <2>4. /\ \A q \in Files : t.folders[q] # i /\ t.folders[q] \in {s.folders[q], NoImpl}
          /\ \A q \in Files : t.paths[q] # i /\ t.paths[q] \in {s.paths[q], NoImpl}
          /\ ToSet(t.cache) = ToSet(s.cache) \ {i} /\ SameViews(s, t)
          /\ \A j, k \in DOMAIN t.cache : t.cache[j] = t.cache[k] => j = k
      BY <1>1, <1>3, <1>7, <1>9, <2>2 DEF SameRest, SameViews, Cached
    <2>5. Sound(t)
      BY <2>2, <2>3, <2>4, NobodyPointsToFreed
    <2> QED
      BY <2>2, <2>4, <2>5
  <1>11. CASE ~s.impl[i].deleted
    <2> DEFINE queue == <<i>> \o s.cache
               P1 == [s.paths EXCEPT ![p] = i]
               u == [s1 EXCEPT !.cache = queue, !.paths = P1]
    <2>1. /\ queue \in Seq(Impls) /\ queue # <<>> /\ ToSet(queue) = ToSet(s.cache) \cup {i}
          /\ \A j, k \in DOMAIN queue : queue[j] = queue[k] => j = k
      BY <1>1, <1>2, <1>3, Pushed DEF Cached
    <2>2. P1 \in [Files -> Impls \cup {NoImpl}]
          /\ \A q \in Files : P1[q] = IF q = p THEN i ELSE s.paths[q]
      BY <1>2, <1>3
    <2>3. t = IF Len(queue) <= CacheSize THEN u
              ELSE ImplFree([u EXCEPT !.cache = Front(@), !.paths[m1[Last(queue)].path] = NoImpl],
                            Last(queue))
      <3>1. s1.impl[i].path = p
        BY <1>5, <1>6, <1>9
      <3> QED
        BY <1>4, <1>9, <1>11, <3>1 DEF AddFolderCache
    <2> HIDE DEF queue, P1
    <2>4. /\ u \in FolderStates /\ u.impl = m1 /\ u.folders = F1 /\ u.cache = queue /\ u.paths = P1
          /\ u.monitors = s.monitors /\ SameViews(s, u)
      BY <1>9, <2>1, <2>2 DEF FolderStates, SameViews
    <2> HIDE DEF u
    <2>5. Cached(m1, F1, P1, queue)
      <3>1. ASSUME NEW q \in Files, F1[q] # NoImpl
            PROVE  m1[F1[q]].path = q /\ m1[F1[q]].proxy /\ ~m1[F1[q]].deleted
        <4>1. F1[q] = s.folders[q] /\ F1[q] \in Impls /\ F1[q] # i
          BY <1>7, <3>1
        <4> QED
          BY <1>1, <1>6, <3>1, <4>1 DEF Cached
      <3>2. ASSUME NEW q \in Files, P1[q] # NoImpl
            PROVE  P1[q] \in ToSet(queue) /\ m1[P1[q]].path = q
        <4>1. CASE q = p
          BY <1>5, <1>6, <2>1, <2>2, <4>1
        <4>2. CASE q # p
          <5>1. P1[q] = s.paths[q] /\ P1[q] # i /\ P1[q] \in Impls
            BY <1>3, <2>2, <3>2, <4>2
          <5> QED
            BY <1>1, <1>6, <2>1, <3>2, <5>1 DEF Cached
        <4> QED
          BY <4>1, <4>2
      <3>3. ToSet(queue) = {j \in Impls : m1[j].path # NoFile /\ ~m1[j].proxy}
        <4>1. ToSet(s.cache) = {j \in Impls : s.impl[j].path # NoFile /\ ~s.impl[j].proxy}
          BY <1>1 DEF Cached
        <4> QED
          BY <1>3, <1>5, <1>6, <2>1, <4>1
      <3>4. \A j \in ToSet(queue) : ~m1[j].deleted
        <4>1. \A j \in ToSet(s.cache) : ~s.impl[j].deleted /\ j \in Impls
          BY <1>1 DEF Cached
        <4> QED
          BY <1>5, <1>6, <1>11, <2>1, <4>1
      <3> QED
        BY <2>1, <3>1, <3>2, <3>3, <3>4 DEF Cached
    <2>6. Viewed(m1, s.dir, s.shown, s.rows)
      <3> SUFFICES ASSUME NEW v \in Views
          PROVE  /\ s.dir[v] # NoImpl => m1[s.dir[v]].proxy
                 /\ IF s.shown[v] = NoImpl
                      THEN s.rows[v] = {} /\ (s.dir[v] = NoImpl \/ m1[s.dir[v]].deleted)
                    ELSE s.shown[v] = s.dir[v] /\ s.rows[v] = m1[s.shown[v]].files
                         /\ ~m1[s.shown[v]].deleted
        BY DEF Viewed
      <3>1. s.dir[v] \in Impls \cup {NoImpl} /\ s.dir[v] # i
        BY <1>2
      <3>2. s.dir[v] # NoImpl => m1[s.dir[v]] = s.impl[s.dir[v]]
        BY <1>6, <3>1
      <3>3. CASE s.shown[v] = NoImpl
        BY <1>1, <3>2, <3>3 DEF Viewed
      <3>4. CASE s.shown[v] # NoImpl
        <4>1. s.shown[v] = s.dir[v]
          BY <1>1, <3>4 DEF Viewed
        <4> QED
          BY <1>1, <3>2, <3>4, <4>1 DEF Viewed
      <3> QED
        BY <3>3, <3>4
    <2>7. Sound(u)
      BY <1>8, <2>4, <2>5, <2>6 DEF Sound, Clean, SameViews
    <2>8. CASE Len(queue) <= CacheSize
      <3>1. Dropped(s.monitors, u.monitors)
        BY <2>4 DEF Dropped
      <3> QED
        BY <2>3, <2>4, <2>7, <2>8, <3>1
    <2>9. CASE ~(Len(queue) <= CacheSize)
      <3> DEFINE old == Last(queue)
                 P2 == [P1 EXCEPT ![m1[old].path] = NoImpl]
                 c2 == Front(queue)
                 w == [u EXCEPT !.cache = c2, !.paths = P2]
      <3>1. /\ old \in ToSet(queue) /\ c2 \in Seq(Impls) /\ ToSet(c2) = ToSet(queue) \ {old}
            /\ \A j, k \in DOMAIN c2 : c2[j] = c2[k] => j = k
        BY <2>1, Popped
      <3>2. old \in Impls
        BY <2>5, <3>1 DEF Cached
      <3>3. t = ImplFree(w, old)
        BY <2>3, <2>4, <2>9
      <3> HIDE DEF old, c2
      <3>4. /\ m1[old].path \in Files /\ \A q \in Files : F1[q] # old
            /\ \A q \in Files : P1[q] = old => q = m1[old].path
            /\ \A v \in Views : u.dir[v] # old
        BY <2>4, <2>7, <3>1, <3>2, Pointers
      <3>5. P2 \in [Files -> Impls \cup {NoImpl}]
            /\ \A q \in Files : P2[q] # old /\ P2[q] \in {P1[q], NoImpl}
        <4>1. NoImpl # old
          BY <3>2 DEF Impls, NoImpl
        <4> QED
          BY <2>2, <3>4, <4>1
      <3> HIDE DEF P2
      <3>6. /\ w \in FolderStates /\ w.impl = m1 /\ w.folders = F1 /\ w.cache = c2 /\ w.paths = P2
            /\ w.monitors = s.monitors /\ SameViews(s, w)
        BY <2>4, <3>1, <3>5 DEF FolderStates, SameViews
      <3> HIDE DEF w
      <3>7. /\ t \in FolderStates /\ SameRest(w, t)
            /\ t.impl = [m1 EXCEPT ![old] = FreeImpl] /\ Clean(t.impl)
            /\ Owned(t.impl, t.monitors) /\ Dropped(s.monitors, t.monitors)
        BY <1>8, <3>2, <3>3, <3>6, FolderIsFreed
      <3>8. /\ t.folders = F1 /\ t.paths = P2 /\ t.cache = c2 /\ SameViews(u, t) /\ SameViews(s, t)
        BY <2>4, <3>6, <3>7 DEF SameRest, SameViews
      <3>9. Sound(t)
        <4>1. /\ \A q \in Files : t.folders[q] # old /\ t.folders[q] \in {u.folders[q], NoImpl}
              /\ \A q \in Files : t.paths[q] # old /\ t.paths[q] \in {u.paths[q], NoImpl}
              /\ ToSet(t.cache) = ToSet(u.cache) \ {old}
              /\ \A j, k \in DOMAIN t.cache : t.cache[j] = t.cache[k] => j = k
              /\ t.impl = [u.impl EXCEPT ![old] = FreeImpl]
          BY <2>4, <3>1, <3>4, <3>5, <3>7, <3>8
        <4> QED
          BY <2>7, <3>2, <3>4, <3>7, <3>8, <4>1, NobodyPointsToFreed, SMTT(30)
      <3> QED
        BY <3>7, <3>8, <3>9
    <2> QED
      BY <2>8, <2>9
  <1> QED
    BY <1>10, <1>11

LEMMA UnrefSound ==
  ASSUME NEW s, Sound(s), NEW i \in Impls \cup {NoImpl}, NEW t, t = Unref(s, i)
  PROVE  Sound(t) /\ Dropped(s.monitors, t.monitors) /\ SameViews(s, t)
  <1>1. CASE i # NoImpl /\ s.impl[i].proxy /\ \A v \in Views : i \notin {s.dir[v], s.shown[v]}
    <2>1. t = Finalized(s, i)
      BY <1>1 DEF Unref
    <2>2. i \in Impls /\ s.impl[i].proxy /\ \A v \in Views : s.dir[v] # i
      BY <1>1
    <2> QED
      BY <2>1, <2>2, FinalizedSound
  <1>2. CASE ~(i # NoImpl /\ s.impl[i].proxy /\ \A v \in Views : i \notin {s.dir[v], s.shown[v]})
    <2>1. t = s
      BY <1>2 DEF Unref
    <2> QED
      BY <2>1 DEF Dropped, SameViews
  <1> QED
    BY <1>1, <1>2

\* A directory is gone: views keep its folder and show nothing, a folder that
\* was only cached is freed.
LEMMA DeletedEmitted ==
  ASSUME NEW s, Sound(s), NEW i \in Impls, s.impl[i].path # NoFile,
         NEW t, t = FolderEmitDeleted(s, i)
  PROVE  Sound(t) /\ Dropped(s.monitors, t.monitors) /\ NotServing(t.monitors, i)
  <1> DEFINE p == s.impl[i].path
             a == FolderShutdown(s, i)
             r == [Shut(s.impl[i]) EXCEPT !.deleted = TRUE]
             m1 == [s.impl EXCEPT ![i] = r]
             s1 == [a EXCEPT !.impl = m1]
  <1>1. /\ s \in FolderStates /\ Clean(s.impl) /\ Owned(s.impl, s.monitors)
        /\ Cached(s.impl, s.folders, s.paths, s.cache) /\ Viewed(s.impl, s.dir, s.shown, s.rows)
    BY DEF Sound, Clean
  <1>2. /\ s.impl \in [Impls -> Impl] /\ s.impl[i] \in Impl /\ ImplOK(s.impl[i])
        /\ s.folders \in [Files -> Impls \cup {NoImpl}] /\ s.cache \in Seq(Impls)
        /\ s.paths \in [Files -> Impls \cup {NoImpl}] /\ s.dir \in [Views -> Impls \cup {NoImpl}]
        /\ s.shown \in [Views -> Impls \cup {NoImpl}] /\ s.rows \in [Views -> SUBSET File]
        /\ i # NoImpl
    BY <1>1, Typed DEF Clean, Impls, NoImpl
  <1>3. /\ a \in FolderStates /\ SameRest(s, a) /\ a.impl = [s.impl EXCEPT ![i] = Shut(s.impl[i])]
        /\ Clean(a.impl) /\ Owned(a.impl, a.monitors) /\ Dropped(s.monitors, a.monitors)
        /\ NotServing(a.monitors, i)
    BY <1>1, FolderIsShut
  <1>4. /\ Shut(s.impl[i]) \in Impl /\ ImplOK(Shut(s.impl[i])) /\ Shut(s.impl[i]).path = p
        /\ Shut(s.impl[i]).proxy = s.impl[i].proxy /\ Shut(s.impl[i]).request = 0
        /\ Shut(s.impl[i]).files = {}
    BY <1>2, ShutFolder
  <1>5. /\ r \in Impl /\ r.path = p /\ r.proxy = s.impl[i].proxy /\ r.deleted /\ r.request = 0
        /\ ImplOK(r)
    <2> DEFINE x == Shut(s.impl[i])
    <2>1. x \in Impl /\ ImplOK(x) /\ x.path = p /\ x.proxy = s.impl[i].proxy /\ x.request = 0
      BY <1>4
    <2> HIDE DEF x
    <2> DEFINE y == [x EXCEPT !.deleted = TRUE]
    <2>2. /\ y \in Impl /\ y.path = x.path /\ y.proxy = x.proxy /\ y.deleted
          /\ y.request = x.request /\ y.files = x.files /\ y.copy = x.copy
          /\ y.idle = x.idle /\ y.done = x.done /\ y.reload = x.reload
      BY <2>1 DEF Impl
    <2> HIDE DEF y
    <2>3. ImplOK(y)
      BY <2>1, <2>2 DEF ImplOK
    <2> QED
      BY <2>1, <2>2, <2>3 DEF y, x
  <1>6. [a EXCEPT !.impl[i].deleted = TRUE] = s1
    <2>1. [a.impl EXCEPT ![i] = [a.impl[i] EXCEPT !.deleted = TRUE]] = m1
      BY <1>2, <1>3
    <2> QED
      BY <2>1
  <1> HIDE DEF a, r
  <1>7. m1 \in [Impls -> Impl] /\ \A j \in Impls : m1[j] = IF j = i THEN r ELSE s.impl[j]
    BY <1>2, <1>5
  <1> HIDE DEF m1
  <1>8. /\ s1 \in FolderStates /\ s1.impl = m1 /\ s1.monitors = a.monitors /\ SameRest(s, s1)
    BY <1>3, <1>7 DEF FolderStates, SameRest
  <1>9. Clean(m1)
    BY <1>1, <1>5, <1>7 DEF Clean
  <1>10. Owned(m1, s1.monitors)
    <2>1. a.impl \in [Impls -> Impl]
          /\ \A j \in Impls : a.impl[j] = IF j = i THEN Shut(s.impl[i]) ELSE s.impl[j]
      BY <1>2, <1>3, <1>4
    <2>2. \A j \in Impls : m1[j].path = a.impl[j].path /\ m1[j].request = a.impl[j].request
      BY <1>4, <1>5, <1>7, <2>1
    <2>3. Owned(a.impl, s1.monitors) /\ s1.monitors \in [Ids -> Monitor]
      BY <1>3, <1>8, Typed
    <2> QED
      BY <1>7, <2>2, <2>3, OwnedFrame
  <1> HIDE DEF s1
  <1>11. CASE s.impl[i].proxy
    <2> DEFINE f1 == IF s.hung[i] THEN "freed" ELSE s.fault
               F1 == [s.folders EXCEPT ![p] = NoImpl]
               S1 == [v \in Views |-> IF s.shown[v] = i THEN NoImpl ELSE s.shown[v]]
               R1 == [v \in Views |-> IF s.shown[v] = i THEN {} ELSE s.rows[v]]
               told == [s1 EXCEPT !.folders = F1, !.fault = f1, !.shown = S1, !.rows = R1]
    <2>1. t = Unref(told, i)
      BY <1>6, <1>8, <1>11 DEF FolderEmitDeleted, a, SameRest
    <2>2. /\ p \in Files /\ i \notin ToSet(s.cache)
          /\ \A q \in Files : s.paths[q] # i /\ (s.folders[q] = i => q = p)
      BY <1>11, Pointers
    <2>3. /\ F1 \in [Files -> Impls \cup {NoImpl}]
          /\ \A q \in Files : F1[q] # i /\ F1[q] \in {s.folders[q], NoImpl}
      BY <1>2, <2>2
    <2>4. /\ S1 \in [Views -> Impls \cup {NoImpl}] /\ R1 \in [Views -> SUBSET File]
          /\ f1 \in {"none", "assert", "freed"}
      BY <1>1, <1>2, Typed
    <2> HIDE DEF F1, f1
    <2>5. \A v \in Views : /\ S1[v] = IF s.shown[v] = i THEN NoImpl ELSE s.shown[v]
                           /\ R1[v] = IF s.shown[v] = i THEN {} ELSE s.rows[v]
      OBVIOUS
    <2> HIDE DEF S1, R1
    <2>6. /\ told \in FolderStates /\ told.impl = m1 /\ told.monitors = a.monitors
          /\ told.folders = F1 /\ told.paths = s.paths /\ told.cache = s.cache
          /\ told.dir = s.dir /\ told.shown = S1 /\ told.rows = R1
      BY <1>8, <2>3, <2>4 DEF FolderStates, SameRest
    <2> HIDE DEF told
    <2>7. Cached(m1, F1, s.paths, s.cache)
      <3>1. ASSUME NEW q \in Files, F1[q] # NoImpl
            PROVE  m1[F1[q]].path = q /\ m1[F1[q]].proxy /\ ~m1[F1[q]].deleted
        <4>1. F1[q] = s.folders[q] /\ F1[q] \in Impls /\ F1[q] # i
          BY <2>3, <3>1
        <4> QED
          BY <1>1, <1>7, <3>1, <4>1 DEF Cached
      <3>2. ASSUME NEW q \in Files, s.paths[q] # NoImpl
            PROVE  s.paths[q] \in ToSet(s.cache) /\ m1[s.paths[q]].path = q
        <4>1. s.paths[q] \in Impls /\ s.paths[q] # i
          BY <1>2, <2>2, <3>2
        <4> QED
          BY <1>1, <1>7, <3>2, <4>1 DEF Cached
      <3>3. ToSet(s.cache) = {j \in Impls : m1[j].path # NoFile /\ ~m1[j].proxy}
        <4>1. ToSet(s.cache) = {j \in Impls : s.impl[j].path # NoFile /\ ~s.impl[j].proxy}
          BY <1>1 DEF Cached
        <4> QED
          BY <1>5, <1>7, <1>11, <4>1
      <3>4. \A j \in ToSet(s.cache) : ~m1[j].deleted
        BY <1>1, <1>7, <2>2 DEF Cached
      <3> QED
        BY <1>1, <3>1, <3>2, <3>3, <3>4 DEF Cached
    <2>8. Viewed(m1, s.dir, S1, R1)
      <3> SUFFICES ASSUME NEW v \in Views
          PROVE  /\ s.dir[v] # NoImpl => m1[s.dir[v]].proxy
                 /\ IF S1[v] = NoImpl
                      THEN R1[v] = {} /\ (s.dir[v] = NoImpl \/ m1[s.dir[v]].deleted)
                    ELSE S1[v] = s.dir[v] /\ R1[v] = m1[S1[v]].files /\ ~m1[S1[v]].deleted
        BY DEF Viewed
      <3>1. s.dir[v] \in Impls \cup {NoImpl}
        BY <1>2
      <3>2. s.dir[v] # NoImpl => m1[s.dir[v]].proxy
        BY <1>1, <1>5, <1>7, <1>11, <3>1 DEF Viewed
      <3>3. CASE s.shown[v] = i
        <4>1. s.dir[v] = i /\ S1[v] = NoImpl /\ R1[v] = {}
          BY <1>1, <1>2, <2>5, <3>3 DEF Viewed
        <4> QED
          BY <1>5, <1>7, <3>2, <4>1
      <3>4. CASE s.shown[v] # i /\ s.shown[v] # NoImpl
        <4>1. s.shown[v] = s.dir[v] /\ S1[v] = s.dir[v] /\ R1[v] = s.rows[v] /\ s.dir[v] \in Impls
          BY <1>1, <2>5, <3>1, <3>4 DEF Viewed
        <4>2. m1[s.dir[v]] = s.impl[s.dir[v]]
          BY <1>7, <3>4, <4>1
        <4> QED
          BY <1>1, <3>2, <3>4, <4>1, <4>2 DEF Viewed
      <3>5. CASE s.shown[v] = NoImpl
        <4>1. S1[v] = NoImpl /\ R1[v] = {} /\ (s.dir[v] = NoImpl \/ s.impl[s.dir[v]].deleted)
          BY <1>1, <1>2, <2>5, <3>5 DEF Viewed
        <4> QED
          BY <1>5, <1>7, <3>1, <3>2, <4>1
      <3> QED
        BY <3>3, <3>4, <3>5
    <2>9. Sound(told)
      BY <1>8, <1>9, <1>10, <2>6, <2>7, <2>8 DEF Sound, Clean
    <2>10. Sound(t) /\ Dropped(told.monitors, t.monitors)
      BY <2>1, <2>9, UnrefSound
    <2> QED
      BY <1>3, <2>6, <2>10, DroppedTwice, StillNotServing
  <1>12. CASE ~s.impl[i].proxy
    <2> DEFINE P1 == [s.paths EXCEPT ![p] = NoImpl]
               c1 == RemoveFirst(s.cache, i)
               w == [s1 EXCEPT !.paths = P1, !.cache = c1]
    <2>1. t = ImplFree(w, i)
      BY <1>6, <1>8, <1>12 DEF FolderEmitDeleted, a, SameRest
    <2>2. /\ i \in ToSet(s.cache) /\ p \in Files /\ \A q \in Files : s.folders[q] # i
          /\ \A q \in Files : s.paths[q] = i => q = p
          /\ \A v \in Views : s.dir[v] # i
      BY <1>12, Pointers
    <2>3. /\ P1 \in [Files -> Impls \cup {NoImpl}]
          /\ \A q \in Files : P1[q] # i /\ P1[q] \in {s.paths[q], NoImpl}
      BY <1>2, <2>2
    <2>4. /\ c1 \in Seq(Impls) /\ ToSet(c1) = ToSet(s.cache) \ {i}
          /\ \A j, k \in DOMAIN c1 : c1[j] = c1[k] => j = k
      BY <1>1, <1>2, <2>2, FirstRemoved DEF Cached
    <2> HIDE DEF P1, c1
    <2>5. /\ w \in FolderStates /\ w.impl = m1 /\ w.monitors = s1.monitors
          /\ w.folders = s.folders /\ w.paths = P1 /\ w.cache = c1 /\ SameViews(s, w)
      BY <1>8, <2>3, <2>4 DEF FolderStates, SameRest, SameViews
    <2> HIDE DEF w
    <2>6. /\ t \in FolderStates /\ SameRest(w, t)
          /\ t.impl = [m1 EXCEPT ![i] = FreeImpl] /\ Clean(t.impl)
          /\ Owned(t.impl, t.monitors) /\ Dropped(s1.monitors, t.monitors)
      BY <1>9, <1>10, <2>1, <2>5, FolderIsFreed
    <2>7. t.impl = [s.impl EXCEPT ![i] = FreeImpl]
      BY <1>2, <2>6 DEF m1
    <2>8. t.folders = s.folders /\ t.paths = P1 /\ t.cache = c1 /\ SameViews(s, t)
      BY <2>5, <2>6 DEF SameRest, SameViews
    <2>9. Sound(t)
      <3>1. \A q \in Files : t.folders[q] # i /\ t.folders[q] \in {s.folders[q], NoImpl}
        BY <2>2, <2>8
      <3>2. \A q \in Files : t.paths[q] # i /\ t.paths[q] \in {s.paths[q], NoImpl}
        BY <2>3, <2>8
      <3>3. /\ ToSet(t.cache) = ToSet(s.cache) \ {i}
            /\ \A j, k \in DOMAIN t.cache : t.cache[j] = t.cache[k] => j = k
        BY <2>4, <2>8
      <3> QED
        BY <2>2, <2>6, <2>7, <2>8, <3>1, <3>2, <3>3, NobodyPointsToFreed
    <2> QED
      BY <1>3, <1>8, <2>6, <2>9, DroppedTwice, StillNotServing
  <1> QED
    BY <1>11, <1>12

(***************************************************************************)
(* Reloading                                                               *)
(***************************************************************************)
WithFiles(r, F) == [r EXCEPT !.files = F]

Reshown(s, t, i, F) ==
  \A v \in Views : t.rows[v] = IF v \in Showing(s, i) THEN F ELSE s.rows[v]

\* A folder has other files, and so have the views that show it.
LEMMA FilesSet ==
  ASSUME NEW s, Sound(s), NEW i \in Impls, s.impl[i].path # NoFile,
         NEW F \in SUBSET File, Single(F), NEW t \in FolderStates,
         t.impl = [s.impl EXCEPT ![i] = WithFiles(s.impl[i], F)], Reshown(s, t, i, F),
         t.monitors = s.monitors, t.folders = s.folders, t.cache = s.cache,
         t.paths = s.paths, t.dir = s.dir, t.shown = s.shown
  PROVE  Sound(t) /\ t.impl[i].path = s.impl[i].path /\ t.impl[i].files = F
  <1> DEFINE r == WithFiles(s.impl[i], F)
  <1>1. /\ s \in FolderStates /\ Clean(s.impl) /\ Owned(s.impl, s.monitors)
        /\ Cached(s.impl, s.folders, s.paths, s.cache) /\ Viewed(s.impl, s.dir, s.shown, s.rows)
    BY DEF Sound, Clean
  <1>2. s.impl \in [Impls -> Impl] /\ s.impl[i] \in Impl /\ ImplOK(s.impl[i])
    BY <1>1, Typed DEF Clean
  <1>3. /\ r \in Impl /\ r.files = F /\ ImplOK(r)
        /\ r.path = s.impl[i].path /\ r.proxy = s.impl[i].proxy /\ r.deleted = s.impl[i].deleted
        /\ r.request = s.impl[i].request
    <2>1. /\ r \in Impl /\ r.files = F
          /\ r.path = s.impl[i].path /\ r.proxy = s.impl[i].proxy
          /\ r.deleted = s.impl[i].deleted /\ r.request = s.impl[i].request
          /\ r.done = s.impl[i].done /\ r.idle = s.impl[i].idle /\ r.copy = s.impl[i].copy
      BY <1>2 DEF Impl, WithFiles
    <2> QED
      BY <1>2, <2>1 DEF ImplOK
  <1> HIDE DEF r
  <1>4. \A j \in Impls : t.impl[j] = IF j = i THEN r ELSE s.impl[j]
    BY <1>2 DEF r
  <1>5. \A j \in Impls : /\ t.impl[j].path = s.impl[j].path /\ t.impl[j].proxy = s.impl[j].proxy
                         /\ t.impl[j].deleted = s.impl[j].deleted
                         /\ t.impl[j].request = s.impl[j].request
    BY <1>3, <1>4
  <1>6. Clean(t.impl)
    BY <1>1, <1>3, <1>4 DEF Clean
  <1>7. Owned(t.impl, t.monitors) /\ Cached(t.impl, t.folders, t.paths, t.cache)
    <2> DEFINE m == s.impl
               m2 == t.impl
               M == s.monitors
               G == s.folders
               P == s.paths
               c == s.cache
    <2>1. Owned(m, M) /\ M \in [Ids -> Monitor] /\ m2 \in [Impls -> Impl]
      BY <1>1, Typed
    <2>2. \A j \in Impls : m2[j].path = m[j].path /\ m2[j].request = m[j].request
      BY <1>5
    <2>3. /\ Cached(m, G, P, c) /\ G \in [Files -> Impls \cup {NoImpl}]
          /\ P \in [Files -> Impls \cup {NoImpl}]
      BY <1>1, Typed
    <2>4. \A j \in Impls : m2[j].path = m[j].path /\ m2[j].proxy = m[j].proxy
                            /\ m2[j].deleted = m[j].deleted
      BY <1>5
    <2> HIDE DEF m, m2, M, G, P, c
    <2>5. Owned(m2, M)
      BY <2>1, <2>2, OwnedFrame
    <2>6. Cached(m2, G, P, c)
      BY <2>3, <2>4, CachedFrame
    <2> QED
      BY <2>5, <2>6 DEF m2, M, G, P, c
  <1>8. Viewed(t.impl, t.dir, t.shown, t.rows)
    <2> DEFINE m2 == t.impl
    <2> HIDE DEF m2
    <2> SUFFICES ASSUME NEW v \in Views
        PROVE  /\ s.dir[v] # NoImpl => m2[s.dir[v]].proxy
               /\ IF s.shown[v] = NoImpl
                    THEN t.rows[v] = {} /\ (s.dir[v] = NoImpl \/ m2[s.dir[v]].deleted)
                  ELSE s.shown[v] = s.dir[v] /\ t.rows[v] = m2[s.shown[v]].files
                       /\ ~m2[s.shown[v]].deleted
      BY DEF Viewed, m2
    <2>1. s.dir[v] \in Impls \cup {NoImpl} /\ i # NoImpl
      BY <1>1, Typed DEF Impls, NoImpl
    <2>2. /\ s.dir[v] # NoImpl => s.impl[s.dir[v]].proxy
          /\ s.shown[v] = NoImpl =>
               s.rows[v] = {} /\ (s.dir[v] = NoImpl \/ s.impl[s.dir[v]].deleted)
          /\ s.shown[v] # NoImpl => s.shown[v] = s.dir[v] /\ s.rows[v] = s.impl[s.shown[v]].files
                                    /\ ~s.impl[s.shown[v]].deleted
      BY <1>1 DEF Viewed
    <2>3. v \in Showing(s, i) <=> s.shown[v] = i
      BY <2>1, <2>2 DEF Showing
    <2>4. \A j \in Impls : /\ m2[j].proxy = s.impl[j].proxy /\ m2[j].deleted = s.impl[j].deleted
                           /\ j # i => m2[j] = s.impl[j]
      BY <1>4, <1>5 DEF m2
    <2>5. m2[i].files = F
      BY <1>3, <1>4 DEF m2
    <2>6. s.dir[v] # NoImpl => m2[s.dir[v]].proxy
      BY <2>1, <2>2, <2>4
    <2>7. CASE s.shown[v] = i
      BY <2>1, <2>2, <2>3, <2>4, <2>5, <2>6, <2>7 DEF Reshown
    <2>8. CASE s.shown[v] # i /\ s.shown[v] # NoImpl
      <3>1. t.rows[v] = s.rows[v] /\ m2[s.shown[v]] = s.impl[s.shown[v]]
        BY <2>1, <2>2, <2>3, <2>4, <2>8 DEF Reshown
      <3> QED
        BY <2>2, <2>6, <2>8, <3>1
    <2>9. CASE s.shown[v] = NoImpl
      BY <2>1, <2>2, <2>3, <2>4, <2>6, <2>9 DEF Reshown
    <2> QED
      BY <2>7, <2>8, <2>9
  <1> QED
    BY <1>3, <1>4, <1>6, <1>7, <1>8 DEF Sound, Clean

\* A name of no file has an object that neither list holds.
LEMMA FreshFile ==
  ASSUME NEW F, NEW C, Single(C), NEW n, n \notin NamesOf(F)
  PROVE  LET f == CHOOSE f \in {n} \X {0, 1} : f \notin F \cup C
         IN f \in {n} \X {0, 1} /\ f \notin F \cup C
  <1>1. <<n, 0>> \notin F /\ <<n, 1>> \notin F
    <2>1. <<n, 0>>[1] = n /\ <<n, 1>>[1] = n
      OBVIOUS
    <2> QED
      BY <2>1 DEF NamesOf
  <1>2. <<n, 0>> \notin C \/ <<n, 1>> \notin C
    <2>1. <<n, 0>>[1] = <<n, 1>>[1] /\ <<n, 0>> # <<n, 1>>
      OBVIOUS
    <2> QED
      BY <2>1 DEF Single
  <1>3. <<n, 0>> \in {n} \X {0, 1} /\ <<n, 1>> \in {n} \X {0, 1}
    OBVIOUS
  <1>4. \E f \in {n} \X {0, 1} : f \notin F \cup C
    BY <1>1, <1>2, <1>3
  <1> QED
    BY <1>4

LEMMA FilesCreatedSound ==
  ASSUME NEW s, Sound(s), NEW i \in Impls, s.impl[i].path # NoFile,
         NEW N \in SUBSET Names, N \cap NamesOf(s.impl[i].files) = {},
         NEW t, t = FilesCreated(s, i, N)
  PROVE  Sound(t) /\ t.impl[i].path = s.impl[i].path
  <1> DEFINE F == s.impl[i].files
             C == s.impl[i].copy
             G(n) == CHOOSE f \in {n} \X {0, 1} : f \notin F \cup C
             new == {G(n) : n \in N}
             m1 == [s.impl EXCEPT ![i] = [s.impl[i] EXCEPT !.files = F \cup new]]
             R1 == [v \in Views |-> IF v \in Showing(s, i) THEN s.rows[v] \cup new ELSE s.rows[v]]
             ok == \A v \in Showing(s, i) : s.rows[v] \cap new = {}
             s1 == [s EXCEPT !.impl = m1]
             u == [s1 EXCEPT !.rows = R1]
  <1>1. s \in FolderStates /\ s.impl \in [Impls -> Impl] /\ s.impl[i] \in Impl /\ ImplOK(s.impl[i])
        /\ Viewed(s.impl, s.dir, s.shown, s.rows) /\ s.rows \in [Views -> SUBSET File]
    BY Typed DEF Sound
  <1>2. F \in SUBSET File /\ Single(F) /\ Single(C)
    BY <1>1, TypedFolder DEF ImplOK
  <1> HIDE DEF F, C
  <1>3. \A n \in N : G(n) \in {n} \X {0, 1}
    BY <1>2, FreshFile DEF F
  <1> HIDE DEF G
  <1>4. new \in SUBSET File
    BY <1>3 DEF File
  <1>5. Single(F \cup new)
    <2>1. \A f \in F : f[1] \in NamesOf(F)
      BY DEF NamesOf
    <2>2. \A f \in new : \E n \in N : f = G(n) /\ f[1] = n
      BY <1>3
    <2>3. N \cap NamesOf(F) = {}
      BY DEF F
    <2> QED
      BY <1>2, <2>1, <2>2, <2>3 DEF Single
  <1> HIDE DEF new
  <1>6. [s EXCEPT !.impl[i].files = @ \cup new] = s1
    BY DEF F
  <1>7. m1 \in [Impls -> Impl] /\ R1 \in [Views -> SUBSET File]
    <2>1. [s.impl[i] EXCEPT !.files = F \cup new] \in Impl
      BY <1>1, <1>2, <1>4 DEF Impl
    <2> QED
      BY <1>1, <1>4, <2>1
  <1>8. \A v \in Views : R1[v] = IF v \in Showing(s, i) THEN F \cup new ELSE s.rows[v]
    <2> SUFFICES ASSUME NEW v \in Views, v \in Showing(s, i) PROVE s.rows[v] = F
      OBVIOUS
    <2>1. s.shown[v] = i /\ i # NoImpl
      BY DEF Showing, Impls, NoImpl
    <2> QED
      BY <1>1, <2>1 DEF Viewed, F
  <1> HIDE DEF R1
  <1>9. s1 \in FolderStates /\ s1.impl = m1 /\ s1.rows = s.rows /\ s1.shown = s.shown
    BY <1>1, <1>7 DEF FolderStates
  <1>10. Showing(s1, i) = Showing(s, i)
    <2>1. m1[i].proxy = s.impl[i].proxy
      BY <1>1 DEF Impl
    <2> QED
      BY <1>9, <2>1 DEF Showing
  <1>11. t = Asserted(u, ok)
    <2>1. t = FilesAdded(s1, i, new)
      BY <1>6 DEF FilesCreated, F, C, G, new
    <2> QED
      BY <1>9, <1>10, <2>1 DEF FilesAdded, R1
  <1> HIDE DEF m1
  <1>12. /\ u \in FolderStates /\ u.impl = m1 /\ u.rows = R1 /\ u.monitors = s.monitors
         /\ u.folders = s.folders /\ u.cache = s.cache /\ u.paths = s.paths
         /\ u.dir = s.dir /\ u.shown = s.shown
    BY <1>1, <1>7 DEF FolderStates
  <1> HIDE DEF u, ok
  <1>13. Sound(u) /\ u.impl[i].path = s.impl[i].path
    <2> DEFINE H == F \cup new
    <2>1. H \in SUBSET File /\ Single(H)
      BY <1>2, <1>4, <1>5
    <2>2. u.impl = [s.impl EXCEPT ![i] = WithFiles(s.impl[i], H)]
      BY <1>12 DEF m1, WithFiles
    <2>3. Reshown(s, u, i, H)
      BY <1>8, <1>12 DEF Reshown
    <2> HIDE DEF H
    <2> QED
      BY <1>12, <2>1, <2>2, <2>3, FilesSet
  <1> QED
    BY <1>11, <1>13, AssertedSound

LEMMA FilesDeletedSound ==
  ASSUME NEW s, Sound(s), NEW i \in Impls, s.impl[i].path # NoFile, NEW N,
         NEW t, t = FilesDeleted(s, i, N)
  PROVE  Sound(t) /\ t.impl[i].path = s.impl[i].path
  <1> DEFINE F == s.impl[i].files
             gone == {f \in F : f[1] \in N}
             m1 == [s.impl EXCEPT ![i] = [s.impl[i] EXCEPT !.files = F \ gone]]
             R1 == [v \in Views |-> IF v \in Showing(s, i) THEN s.rows[v] \ gone ELSE s.rows[v]]
             ok == \A v \in Showing(s, i) : gone \subseteq s.rows[v]
             s1 == [s EXCEPT !.impl = m1]
             u == [s1 EXCEPT !.rows = R1]
  <1>1. s \in FolderStates /\ s.impl \in [Impls -> Impl] /\ s.impl[i] \in Impl /\ ImplOK(s.impl[i])
        /\ Viewed(s.impl, s.dir, s.shown, s.rows) /\ s.rows \in [Views -> SUBSET File]
    BY Typed DEF Sound
  <1>2. F \in SUBSET File /\ Single(F)
    BY <1>1, TypedFolder DEF ImplOK
  <1>3. t = FilesRemoved([s EXCEPT !.impl[i].files = @ \ gone], i, gone)
    BY DEF FilesDeleted
  <1>4. [s EXCEPT !.impl[i].files = @ \ gone] = s1
    OBVIOUS
  <1> HIDE DEF F, gone
  <1>5. F \ gone \in SUBSET File /\ Single(F \ gone)
    BY <1>2 DEF Single
  <1>6. m1 \in [Impls -> Impl] /\ R1 \in [Views -> SUBSET File]
    <2>1. [s.impl[i] EXCEPT !.files = F \ gone] \in Impl
      BY <1>1, <1>5 DEF Impl
    <2> QED
      BY <1>1, <2>1
  <1>7. \A v \in Views : R1[v] = IF v \in Showing(s, i) THEN F \ gone ELSE s.rows[v]
    <2> SUFFICES ASSUME NEW v \in Views, v \in Showing(s, i) PROVE s.rows[v] = F
      OBVIOUS
    <2>1. s.shown[v] = i /\ i # NoImpl
      BY DEF Showing, Impls, NoImpl
    <2> QED
      BY <1>1, <2>1 DEF Viewed, F
  <1> HIDE DEF R1
  <1>8. s1 \in FolderStates /\ s1.impl = m1 /\ s1.rows = s.rows /\ s1.shown = s.shown
    BY <1>1, <1>6 DEF FolderStates
  <1>9. Showing(s1, i) = Showing(s, i)
    <2>1. m1[i].proxy = s.impl[i].proxy
      BY <1>1 DEF Impl
    <2> QED
      BY <1>8, <2>1 DEF Showing
  <1>10. t = Asserted(u, ok)
    BY <1>3, <1>4, <1>8, <1>9, ZenonT(30) DEF FilesRemoved, R1
  <1> HIDE DEF m1
  <1>11. /\ u \in FolderStates /\ u.impl = m1 /\ u.rows = R1 /\ u.monitors = s.monitors
         /\ u.folders = s.folders /\ u.cache = s.cache /\ u.paths = s.paths
         /\ u.dir = s.dir /\ u.shown = s.shown
    BY <1>1, <1>6 DEF FolderStates
  <1> HIDE DEF u, ok
  <1>12. Sound(u) /\ u.impl[i].path = s.impl[i].path
    <2> DEFINE H == F \ gone
    <2>1. H \in SUBSET File /\ Single(H)
      BY <1>5
    <2>2. u.impl = [s.impl EXCEPT ![i] = WithFiles(s.impl[i], H)]
      BY <1>11 DEF m1, WithFiles
    <2>3. Reshown(s, u, i, H)
      BY <1>7, <1>11 DEF Reshown
    <2> HIDE DEF H
    <2> QED
      BY <1>11, <2>1, <2>2, <2>3, FilesSet
  <1> QED
    BY <1>10, <1>12, AssertedSound

\* A folder is listed again, or its directory is gone.
LEMMA ReloadSound ==
  ASSUME NEW s, Sound(s), NEW i \in Impls, s.impl[i].path # NoFile,
         entries \in [Files -> SUBSET Names], NEW t, t = DoReload(s, i)
  PROVE  Sound(t)
  <1> DEFINE x == s.impl[i]
             r == [x EXCEPT !.reload = FALSE]
             s1 == [s EXCEPT !.impl[i].reload = FALSE]
  <1>1. s \in FolderStates /\ s.impl \in [Impls -> Impl] /\ x \in Impl /\ ImplOK(x)
    BY Typed DEF Sound
  <1>2. s1 = [s EXCEPT !.impl = [s.impl EXCEPT ![i] = r]]
    OBVIOUS
  <1> HIDE DEF x, s1
  <1>3. /\ r \in Impl /\ r.path = x.path /\ r.proxy = x.proxy /\ r.deleted = x.deleted
        /\ r.files = x.files /\ r.request = x.request /\ ImplOK(r)
    <2>1. /\ r \in Impl /\ r.path = x.path /\ r.proxy = x.proxy /\ r.deleted = x.deleted
          /\ r.files = x.files /\ r.request = x.request /\ r.copy = x.copy /\ r.idle = x.idle
          /\ r.done = x.done /\ ~r.reload
      BY <1>1 DEF Impl
    <2> QED
      BY <1>1, <2>1 DEF ImplOK
  <1> HIDE DEF r
  <1>4. [s.impl EXCEPT ![i] = r] \in [Impls -> Impl] /\ [s.impl EXCEPT ![i] = r][i] = r
    BY <1>1, <1>3
  <1>5. /\ s1 \in FolderStates /\ s1.impl = [s.impl EXCEPT ![i] = r] /\ s1.monitors = s.monitors
        /\ s1.folders = s.folders /\ s1.cache = s.cache /\ s1.paths = s.paths /\ SameViews(s, s1)
    BY <1>1, <1>2, <1>4 DEF FolderStates, SameViews
  <1>6. Sound(s1) /\ s1.impl[i].path = s.impl[i].path /\ s1.impl[i].files = s.impl[i].files
    BY <1>3, <1>4, <1>5, FolderTouched DEF x
  <1> DEFINE p == s.impl[i].path
             listed == NamesOf(s.impl[i].files)
             u == FilesCreated(s1, i, entries[p] \ listed)
  <1>7. t = IF ~Exists(p) THEN FolderEmitDeleted(s1, i) ELSE FilesDeleted(u, i, listed \ entries[p])
    BY DEF DoReload, s1
  <1>8. CASE ~Exists(p)
    BY <1>6, <1>7, <1>8, DeletedEmitted
  <1>9. CASE Exists(p)
    <2> DEFINE N == entries[p] \ listed
    <2>1. p \in Files
      BY <1>1, TypedFolder DEF x
    <2>2. N \in SUBSET Names /\ N \cap NamesOf(s1.impl[i].files) = {}
      BY <1>6, <2>1
    <2>3. u = FilesCreated(s1, i, N)
      OBVIOUS
    <2> HIDE DEF N, u
    <2>4. Sound(u) /\ u.impl[i].path # NoFile
      BY <1>6, <2>2, <2>3, FilesCreatedSound
    <2> QED
      BY <1>7, <1>9, <2>4, FilesDeletedSound
  <1> QED
    BY <1>8, <1>9

(***************************************************************************)
(* Looking at the files                                                    *)
(***************************************************************************)
Looking(s, i) ==
  s.impl[i].path # NoFile /\ s.impl[i].done # STAGE_MIME_TYPE

\* A folder whose place in the program is the same.
SameFolder(r, x) ==
  r.path = x.path /\ r.proxy = x.proxy /\ r.deleted = x.deleted /\ r.files = x.files

Put(s, i, r) == [s EXCEPT !.impl = [s.impl EXCEPT ![i] = r]]

LEMMA PutSound ==
  ASSUME NEW s, Sound(s), NEW i \in Impls, Looking(s, i), NEW r \in Impl,
         SameFolder(r, s.impl[i]), r.request = s.impl[i].request,
         Single(r.copy), r.idle => r.done # STAGE_MIME_TYPE,
         NEW t, t = Put(s, i, r)
  PROVE  /\ Sound(t) /\ SameViews(s, t) /\ t.monitors = s.monitors
         /\ t.impl[i] = r /\ r.request = 0
  <1>1. s \in FolderStates /\ s.impl \in [Impls -> Impl] /\ ImplOK(s.impl[i])
    BY Typed DEF Sound
  <1>2. r.request = 0 /\ ImplOK(r)
    BY <1>1 DEF ImplOK, Looking, SameFolder
  <1>3. [s.impl EXCEPT ![i] = r] \in [Impls -> Impl] /\ [s.impl EXCEPT ![i] = r][i] = r
    BY <1>1
  <1>4. /\ t \in FolderStates /\ t.impl = [s.impl EXCEPT ![i] = r] /\ t.monitors = s.monitors
        /\ t.folders = s.folders /\ t.cache = s.cache /\ t.paths = s.paths /\ SameViews(s, t)
    BY <1>1, <1>3 DEF FolderStates, SameViews, Put
  <1>5. Sound(t)
    BY <1>2, <1>4, FolderTouched DEF SameFolder
  <1> QED
    BY <1>2, <1>3, <1>4, <1>5

\* A new monitor of a folder that has none.
LEMMA MonitorStarted ==
  ASSUME NEW s, Sound(s), NEW i \in Impls, s.impl[i].path # NoFile, s.impl[i].request = 0,
         s.impl[i].done = STAGE_MIME_TYPE, FreshIn(s) # {}, fs \in [Files -> StatBuf],
         NEW t, t = StartMonitor(s, i)
  PROVE  Sound(t) /\ SameViews(s, t) /\ SameFolder(t.impl[i], s.impl[i])
  <1> DEFINE x == s.impl[i]
             f == x.path
             id == CHOOSE id \in FreshIn(s) : TRUE
             r == [x EXCEPT !.request = id]
             m1 == [s.impl EXCEPT ![i] = r]
             M1 == Created(s.monitors, id, f, i)
  <1>1. /\ s \in FolderStates /\ s.impl \in [Impls -> Impl] /\ x \in Impl /\ ImplOK(x)
        /\ s.monitors \in [Ids -> Monitor] /\ Clean(s.impl) /\ Owned(s.impl, s.monitors)
        /\ Cached(s.impl, s.folders, s.paths, s.cache) /\ Viewed(s.impl, s.dir, s.shown, s.rows)
    BY Typed DEF Sound, Clean
  <1>2. f \in Files
    BY <1>1, TypedFolder
  <1>3. id \in Ids /\ s.monitors[id].file = NoFile
    BY DEF FreshIn
  <1>4. t = IF Exists(f) THEN [s EXCEPT !.monitors = M1, !.impl[i].request = id] ELSE s
    BY DEF StartMonitor
  <1>5. CASE ~Exists(f)
    BY <1>4, <1>5 DEF SameViews, SameFolder
  <1>6. CASE Exists(f)
    <2>1. t = [s EXCEPT !.monitors = M1, !.impl = m1]
      BY <1>4, <1>6
    <2> HIDE DEF x, id, f
    <2>2. /\ r \in Impl /\ SameFolder(r, x) /\ r.request = id /\ ImplOK(r)
      <3>1. /\ r \in Impl /\ SameFolder(r, x) /\ r.request = id
            /\ r.copy = x.copy /\ r.idle = x.idle /\ r.done = x.done
        BY <1>1, <1>3 DEF Impl, SameFolder
      <3> QED
        BY <1>1, <1>2, <3>1 DEF ImplOK, SameFolder, x, f
    <2>3. m1 \in [Impls -> Impl] /\ \A j \in Impls : m1[j] = IF j = i THEN r ELSE s.impl[j]
      BY <1>1, <2>2
    <2>4. /\ M1 \in [Ids -> Monitor] /\ M1[id].file = f /\ M1[id].data = i
          /\ \A k \in Ids \ {id} : M1[k] = s.monitors[k]
      <3>1. /\ M1 \in [Ids -> Monitor] /\ M1[id].file = f
            /\ \A k \in Ids \ {id} : M1[k] = s.monitors[k]
        BY <1>1, <1>2, <1>3, CreatedType DEF Impls
      <3>2. M1[id].data = i
        BY <1>1, <1>3 DEF Created
      <3> QED
        BY <3>1, <3>2
    <2> HIDE DEF r, m1, M1
    <2>5. /\ t \in FolderStates /\ t.impl = m1 /\ t.monitors = M1 /\ t.folders = s.folders
          /\ t.cache = s.cache /\ t.paths = s.paths /\ SameViews(s, t)
      BY <1>1, <2>1, <2>3, <2>4 DEF FolderStates, SameViews
    <2>6. Owned(m1, M1)
      <3>1. ASSUME NEW k \in Ids, M1[k].file # NoFile
            PROVE  /\ M1[k].data \in Impls
                   /\ m1[M1[k].data].request = k /\ m1[M1[k].data].path = M1[k].file
        <4>1. CASE k = id
          BY <2>2, <2>3, <2>4, <4>1 DEF SameFolder, f
        <4>2. CASE k # id
          <5>1. M1[k] = s.monitors[k]
            BY <2>4, <4>2
          <5>2. /\ M1[k].data \in Impls /\ s.impl[M1[k].data].request = k
                /\ s.impl[M1[k].data].path = M1[k].file
            BY <1>1, <3>1, <5>1 DEF Owned
          <5>3. M1[k].data # i
            BY <5>2
          <5> QED
            BY <2>3, <5>2, <5>3
        <4> QED
          BY <4>1, <4>2
      <3>2. ASSUME NEW j \in Impls, m1[j].request # 0
            PROVE  M1[m1[j].request].file # NoFile /\ M1[m1[j].request].data = j
        <4>1. CASE j = i
          BY <1>2, <2>2, <2>3, <2>4, <4>1
        <4>2. CASE j # i
          <5>1. m1[j] = s.impl[j] /\ s.impl[j].request \in Ids
            BY <1>1, <2>3, <3>2, <4>2, TypedFolder
          <5>2. s.monitors[m1[j].request].file # NoFile /\ s.monitors[m1[j].request].data = j
            BY <1>1, <3>2, <5>1 DEF Owned
          <5>3. m1[j].request # id
            BY <1>3, <5>2
          <5> QED
            BY <2>4, <5>1, <5>2, <5>3
        <4> QED
          BY <4>1, <4>2
      <3> QED
        BY <3>1, <3>2 DEF Owned
    <2>7. \A j \in Impls : SameFolder(m1[j], s.impl[j])
      BY <2>2, <2>3 DEF SameFolder, x
    <2>8. Cached(m1, s.folders, s.paths, s.cache)
      <3>1. /\ s.folders \in [Files -> Impls \cup {NoImpl}]
            /\ s.paths \in [Files -> Impls \cup {NoImpl}]
            /\ \A j \in Impls : m1[j].path = s.impl[j].path /\ m1[j].proxy = s.impl[j].proxy
                               /\ m1[j].deleted = s.impl[j].deleted
        BY <1>1, <2>7, Typed DEF SameFolder
      <3> QED
        BY <1>1, <3>1, CachedFrame
    <2>9. Viewed(m1, s.dir, s.shown, s.rows)
      <3>1. /\ s.dir \in [Views -> Impls \cup {NoImpl}]
            /\ s.shown \in [Views -> Impls \cup {NoImpl}]
            /\ \A j \in Impls : m1[j].files = s.impl[j].files /\ m1[j].proxy = s.impl[j].proxy
                               /\ m1[j].deleted = s.impl[j].deleted
        BY <1>1, <2>7, Typed DEF SameFolder
      <3> QED
        BY <1>1, <3>1, ViewedFrame
    <2>10. Clean(m1)
      BY <1>1, <2>2, <2>3 DEF Clean
    <2> QED
      BY <2>3, <2>5, <2>6, <2>7, <2>8, <2>9, <2>10 DEF Sound, Clean, SameViews
  <1> QED
    BY <1>5, <1>6

LEMMA StillToSee ==
  ASSUME NEW s, Sound(s), NEW i \in Impls, NEW F
  PROVE  Remaining(s, i) \ F \in SUBSET File /\ Single(Remaining(s, i) \ F)
  <1>1. s.impl[i] \in Impl /\ ImplOK(s.impl[i])
    BY Typed DEF Sound
  <1>2. Remaining(s, i) \in SUBSET File /\ Single(Remaining(s, i))
    BY <1>1, TypedFolder DEF Remaining, ImplOK
  <1> QED
    BY <1>2 DEF Single

LEMMA Stages ==
  /\ STAGE_NAMES \in Stage /\ STAGE_STAT \in Stage /\ STAGE_MIME_TYPE \in Stage
  /\ STAGE_STAT # STAGE_MIME_TYPE /\ STAGE_NAMES # STAGE_MIME_TYPE
  BY DEF Stage, STAGE_NAMES, STAGE_STAT, STAGE_MIME_TYPE

LEMMA StatBitSound ==
  ASSUME NEW s, Sound(s), NEW i \in Impls, Looking(s, i), NEW F, NEW t, t = StatBit(s, i, F)
  PROVE  /\ Sound(t) /\ SameViews(s, t) /\ SameFolder(t.impl[i], s.impl[i])
         /\ t.monitors = s.monitors /\ Looking(t, i)
  <1> DEFINE y == FilesChanged(s, i, F \cap {<<DotDot, 0>>})
             C == Remaining(s, i) \ F
             x == s.impl[i]
             r1 == [x EXCEPT !.done = STAGE_STAT, !.copy = {}, !.idle = TRUE]
             r2 == [x EXCEPT !.copy = C, !.idle = TRUE]
  <1>1. Sound(y) /\ y.impl = s.impl /\ y.monitors = s.monitors /\ SameViews(s, y)
    BY AssertedSound DEF FilesChanged
  <1>2. x \in Impl /\ ImplOK(x) /\ x.path # NoFile /\ x.done # STAGE_MIME_TYPE
    BY Typed DEF Sound, Looking
  <1>3. C \in SUBSET File /\ Single(C) /\ Single({})
    BY StillToSee DEF Single
  <1>4. t = IF F = Remaining(s, i) THEN Put(y, i, r1) ELSE Put(y, i, r2)
    BY <1>1 DEF StatBit, Put
  <1> HIDE DEF y, C, x
  <1>5. /\ r1 \in Impl /\ SameFolder(r1, x) /\ r1.request = x.request /\ r1.copy = {}
        /\ r1.done = STAGE_STAT
    BY <1>2, Stages DEF Impl, SameFolder
  <1>6. /\ r2 \in Impl /\ SameFolder(r2, x) /\ r2.request = x.request /\ r2.copy = C
        /\ r2.done = x.done
    BY <1>2, <1>3 DEF Impl, SameFolder
  <1> HIDE DEF r1, r2
  <1>7. Looking(y, i) /\ y.impl[i] = x
    BY <1>1 DEF Looking, x
  <1>8. CASE F = Remaining(s, i)
    <2>1. Single(r1.copy) /\ (r1.idle => r1.done # STAGE_MIME_TYPE) /\ t = Put(y, i, r1)
      BY <1>3, <1>4, <1>5, <1>8, Stages
    <2>3. /\ Sound(y) /\ Looking(y, i) /\ r1 \in Impl
          /\ SameFolder(r1, y.impl[i]) /\ r1.request = y.impl[i].request
      BY <1>1, <1>5, <1>7
    <2>2. /\ Sound(t) /\ SameViews(y, t) /\ t.monitors = y.monitors /\ t.impl[i] = r1
      BY ONLY <2>1, <2>3, i \in Impls, PutSound
    <2> QED
      BY <1>1, <1>2, <1>5, <2>2, Stages DEF SameViews, SameFolder, Looking, x
  <1>9. CASE F # Remaining(s, i)
    <2>1. /\ Sound(t) /\ SameViews(y, t) /\ t.monitors = y.monitors /\ t.impl[i] = r2
      BY <1>1, <1>2, <1>3, <1>4, <1>6, <1>7, <1>9, PutSound
    <2> QED
      BY <1>1, <1>2, <1>6, <2>1 DEF SameViews, SameFolder, Looking, x
  <1> QED
    BY <1>8, <1>9

LEMMA IconsBitSound ==
  ASSUME NEW s, Sound(s), NEW i \in Impls, Looking(s, i), FreshIn(s) # {},
         fs \in [Files -> StatBuf], NEW F, NEW t, t = IconsBit(s, i, F)
  PROVE  Sound(t) /\ SameViews(s, t) /\ SameFolder(t.impl[i], s.impl[i])
  <1> DEFINE y == FilesChanged(s, i, F \cap s.impl[i].untyped)
             C == Remaining(s, i) \ F
             x == s.impl[i]
             r0 == [x EXCEPT !.untyped = x.untyped \ F]
             s1 == Put(y, i, r0)
             r1 == [r0 EXCEPT !.done = STAGE_MIME_TYPE, !.copy = {}, !.idle = FALSE]
             r2 == [r0 EXCEPT !.copy = C, !.idle = TRUE]
  <1>1. Sound(y) /\ y.impl = s.impl /\ y.monitors = s.monitors /\ SameViews(s, y)
    BY AssertedSound DEF FilesChanged
  <1>2. x \in Impl /\ ImplOK(x) /\ x.path # NoFile /\ x.done # STAGE_MIME_TYPE
        /\ x.untyped \in SUBSET File
    BY Typed, TypedFolder DEF Sound, Looking
  <1>3. C \in SUBSET File /\ Single(C) /\ Single({})
    BY StillToSee DEF Single
  <1>4. s1 = [y EXCEPT !.impl[i].untyped = @ \ F]
    BY <1>1 DEF Put
  <1>5. t = IF F = Remaining(s, i)
              THEN StartMonitor([s1 EXCEPT !.impl[i] = [@ EXCEPT !.done = STAGE_MIME_TYPE,
                                                                 !.copy = {}, !.idle = FALSE]], i)
            ELSE [s1 EXCEPT !.impl[i] = [@ EXCEPT !.copy = C, !.idle = TRUE]]
    <2> DEFINE z == [y EXCEPT !.impl[i].untyped = @ \ F]
    <2>1. t = IF F = Remaining(s, i)
                THEN StartMonitor([z EXCEPT !.impl[i] = [@ EXCEPT !.done = STAGE_MIME_TYPE,
                                                                  !.copy = {}, !.idle = FALSE]], i)
              ELSE [z EXCEPT !.impl[i] = [@ EXCEPT !.copy = C, !.idle = TRUE]]
      BY DEF IconsBit
    <2>2. s1 = z
      BY <1>4
    <2> HIDE DEF z, s1, y, C
    <2> QED
      BY <2>1, <2>2
  <1> HIDE DEF y, C, x
  <1>6. /\ r0 \in Impl /\ SameFolder(r0, x) /\ r0.request = x.request /\ r0.copy = x.copy
        /\ r0.done = x.done /\ r0.idle = x.idle
    BY <1>2 DEF Impl, SameFolder
  <1> HIDE DEF r0
  <1>7. /\ r1 \in Impl /\ SameFolder(r1, r0) /\ r1.request = r0.request /\ r1.copy = {}
        /\ r1.done = STAGE_MIME_TYPE /\ ~r1.idle
    BY <1>6, Stages DEF Impl, SameFolder
  <1>8. /\ r2 \in Impl /\ SameFolder(r2, r0) /\ r2.request = r0.request /\ r2.copy = C
        /\ r2.done = r0.done
    BY <1>3, <1>6 DEF Impl, SameFolder
  <1> HIDE DEF s1
  <1>9. Looking(y, i) /\ y.impl[i] = x
    BY <1>1 DEF Looking, x
  <1>10. /\ Sound(s1) /\ SameViews(y, s1) /\ s1.monitors = y.monitors /\ s1.impl[i] = r0
         /\ r0.request = 0
    <2>1. Single(r0.copy)
      BY <1>2, <1>6 DEF ImplOK
    <2> QED
      BY <1>1, <1>2, <1>6, <1>9, <2>1, PutSound DEF s1
  <1>11. Looking(s1, i)
    BY <1>2, <1>6, <1>10 DEF Looking, SameFolder
  <1>12. t = IF F = Remaining(s, i) THEN StartMonitor(Put(s1, i, r1), i) ELSE Put(s1, i, r2)
    BY <1>5, <1>10 DEF Put
  <1> HIDE DEF r1, r2
  <1>13. SameViews(s, s1) /\ SameFolder(r1, s.impl[i]) /\ SameFolder(r2, s.impl[i])
    BY <1>1, <1>6, <1>7, <1>8, <1>10 DEF SameViews, SameFolder, x
  <1>14. CASE F = Remaining(s, i)
    <2> DEFINE u == Put(s1, i, r1)
    <2>0. /\ Single(r1.copy) /\ (r1.idle => r1.done # STAGE_MIME_TYPE) /\ r1 \in Impl
          /\ SameFolder(r1, s1.impl[i]) /\ r1.request = s1.impl[i].request
      BY <1>3, <1>7, <1>10
    <2>1. Sound(u) /\ SameViews(s1, u) /\ u.monitors = s1.monitors /\ u.impl[i] = r1
      BY <1>10, <1>11, <2>0, PutSound
    <2> HIDE DEF u
    <2>2. u.impl[i].path # NoFile /\ u.impl[i].request = 0 /\ u.impl[i].done = STAGE_MIME_TYPE
      BY <1>2, <1>6, <1>7, <1>10, <2>1 DEF SameFolder
    <2>3. FreshIn(u) # {}
      BY <1>1, <1>10, <2>1 DEF FreshIn
    <2>4. t = StartMonitor(u, i)
      BY <1>12, <1>14 DEF u
    <2>5. Sound(t) /\ SameViews(u, t) /\ SameFolder(t.impl[i], u.impl[i])
      BY <2>1, <2>2, <2>3, <2>4, MonitorStarted
    <2> QED
      BY <1>13, <2>1, <2>5 DEF SameViews, SameFolder
  <1>15. CASE F # Remaining(s, i)
    <2>1. Sound(t) /\ SameViews(s1, t) /\ t.impl[i] = r2
      BY <1>2, <1>3, <1>6, <1>8, <1>10, <1>11, <1>12, <1>15, PutSound
    <2> QED
      BY <1>13, <2>1 DEF SameViews
  <1> QED
    BY <1>14, <1>15

LEMMA PopulatedSound ==
  ASSUME NEW s, Sound(s), NEW i \in Impls, Looking(s, i), FreshIn(s) # {},
         fs \in [Files -> StatBuf], NEW t \in Populated(s, i)
  PROVE  Sound(t) /\ SameViews(s, t) /\ SameFolder(t.impl[i], s.impl[i])
  <1> DEFINE Stats == {StatBit(s, i, F) : F \in Bits(Remaining(s, i))}
  <1>1. \/ \E F : t = IconsBit(s, i, F)
        \/ \E F : t = StatBit(s, i, F)
        \/ \E F, G : t = IconsBit(StatBit(s, i, F), i, G)
    BY DEF Populated
  <1>2. ASSUME NEW F, t = IconsBit(s, i, F)
        PROVE  Sound(t) /\ SameViews(s, t) /\ SameFolder(t.impl[i], s.impl[i])
    BY <1>2, IconsBitSound
  <1>3. ASSUME NEW F, t = StatBit(s, i, F)
        PROVE  Sound(t) /\ SameViews(s, t) /\ SameFolder(t.impl[i], s.impl[i])
    BY <1>3, StatBitSound
  <1>4. ASSUME NEW F, NEW G, t = IconsBit(StatBit(s, i, F), i, G)
        PROVE  Sound(t) /\ SameViews(s, t) /\ SameFolder(t.impl[i], s.impl[i])
    <2> DEFINE u == StatBit(s, i, F)
    <2>1. /\ Sound(u) /\ SameViews(s, u) /\ SameFolder(u.impl[i], s.impl[i])
          /\ u.monitors = s.monitors /\ Looking(u, i)
      BY StatBitSound
    <2>2. t = IconsBit(u, i, G)
      BY <1>4
    <2> HIDE DEF u
    <2>3. FreshIn(u) # {}
      BY <2>1 DEF FreshIn
    <2>4. Sound(t) /\ SameViews(u, t) /\ SameFolder(t.impl[i], u.impl[i])
      BY <2>1, <2>2, <2>3, IconsBitSound
    <2> QED
      BY <2>1, <2>4 DEF SameViews, SameFolder
  <1> QED
    BY <1>1, <1>2, <1>3, <1>4

(***************************************************************************)
(* Getting a folder                                                        *)
(***************************************************************************)
\* A queue or a table without a folder it may have had.
Without(c, d, i) ==
  /\ ToSet(d) = ToSet(c) \ {i}
  /\ \A j, k \in DOMAIN d : d[j] = d[k] => j = k

Forgotten(P, Q, i) == \A q \in Files : Q[q] # i /\ Q[q] \in {P[q], NoImpl}

\* The folder r of the path p is at i, and registered.
Registered(s, t, i, p, r) ==
  /\ t.impl = [s.impl EXCEPT ![i] = r] /\ t.folders = [s.folders EXCEPT ![p] = i]
  /\ t.monitors = s.monitors
  /\ r.path = p /\ r.proxy /\ ~r.deleted /\ r.request = s.impl[i].request

\* A folder nobody uses, or an address nobody has, becomes the folder of a path.
LEMMA FolderTaken ==
  ASSUME NEW s, Sound(s), NEW i \in Impls, ~s.impl[i].proxy, NEW p \in Files,
         s.impl[i].path \in {p, NoFile},
         NEW r \in Impl, ImplOK(r), NEW t \in FolderStates,
         Registered(s, t, i, p, r), SameViews(s, t),
         Without(s.cache, t.cache, i), Forgotten(s.paths, t.paths, i)
  PROVE  Sound(t) /\ t.impl[i] = r
  <1> DEFINE m == s.impl
             m2 == t.impl
             F2 == t.folders
             P2 == t.paths
             c2 == t.cache
  <1>0. /\ t.impl = [s.impl EXCEPT ![i] = r] /\ t.folders = [s.folders EXCEPT ![p] = i]
        /\ t.monitors = s.monitors
        /\ r.path = p /\ r.proxy /\ ~r.deleted /\ r.request = s.impl[i].request
    BY DEF Registered
  <1>1. /\ s \in FolderStates /\ m \in [Impls -> Impl] /\ Clean(m)
        /\ s.folders \in [Files -> Impls \cup {NoImpl}]
        /\ s.paths \in [Files -> Impls \cup {NoImpl}]
        /\ s.monitors \in [Ids -> Monitor] /\ s.dir \in [Views -> Impls \cup {NoImpl}]
        /\ s.shown \in [Views -> Impls \cup {NoImpl}]
        /\ Owned(m, s.monitors) /\ Cached(m, s.folders, s.paths, s.cache)
        /\ Viewed(m, s.dir, s.shown, s.rows)
    BY Typed DEF Sound, Clean
  <1>2. m2 \in [Impls -> Impl] /\ m2[i] = r /\ \A j \in Impls \ {i} : m2[j] = m[j]
    BY <1>0, <1>1
  <1>3. F2[p] = i /\ \A q \in Files \ {p} : F2[q] = s.folders[q]
    BY <1>0, <1>1
  <1>4. ToSet(c2) = ToSet(s.cache) \ {i} /\ \A j, k \in DOMAIN c2 : c2[j] = c2[k] => j = k
    BY DEF Without
  <1>5. \A q \in Files : P2[q] # i /\ P2[q] \in {s.paths[q], NoImpl}
    BY DEF Forgotten
  <1>6. p # NoFile
    OBVIOUS
  <1>7. Clean(m2)
    BY <1>1, <1>2 DEF Clean
  <1> HIDE DEF m, m2, F2, P2, c2
  <1>8. Owned(m2, s.monitors)
    <2>1. \A k \in Ids : s.monitors[k].file # NoFile =>
             /\ s.monitors[k].data \in Impls
             /\ m2[s.monitors[k].data].request = k
             /\ m2[s.monitors[k].data].path = s.monitors[k].file
      <3>1. ASSUME NEW k \in Ids, s.monitors[k].file # NoFile
            PROVE  /\ s.monitors[k].data \in Impls
                   /\ m2[s.monitors[k].data].request = k
                   /\ m2[s.monitors[k].data].path = s.monitors[k].file
        <4>1. /\ s.monitors[k].data \in Impls /\ m[s.monitors[k].data].request = k
              /\ m[s.monitors[k].data].path = s.monitors[k].file
          BY <1>1, <3>1 DEF Owned
        <4>2. s.monitors[k].data = i => m[i].path = p
          BY <3>1, <4>1 DEF m
        <4> QED
          BY <1>0, <1>2, <4>1, <4>2 DEF m
      <3> QED
        BY <3>1
    <2>2. \A j \in Impls : m2[j].request = m[j].request
      BY <1>0, <1>2 DEF m
    <2> QED
      BY <1>1, <2>1, <2>2 DEF Owned
  <1>9. Cached(m2, F2, P2, c2)
    <2>1. \A q \in Files : s.folders[q] # i
      BY <1>1 DEF Cached, m, Impls, NoImpl
    <2>2. ASSUME NEW q \in Files, F2[q] # NoImpl
          PROVE  m2[F2[q]].path = q /\ m2[F2[q]].proxy /\ ~m2[F2[q]].deleted
      <3>1. CASE q = p
        BY <1>0, <1>2, <1>3, <3>1
      <3>2. CASE q # p
        <4>1. F2[q] = s.folders[q] /\ F2[q] \in Impls \ {i}
          BY <1>1, <1>3, <2>1, <2>2, <3>2
        <4> QED
          BY <1>1, <1>2, <2>2, <4>1 DEF Cached
      <3> QED
        BY <3>1, <3>2
    <2>3. ASSUME NEW q \in Files, P2[q] # NoImpl
          PROVE  P2[q] \in ToSet(c2) /\ m2[P2[q]].path = q
      <3>1. P2[q] = s.paths[q] /\ P2[q] \in Impls \ {i}
        BY <1>1, <1>5, <2>3
      <3> QED
        BY <1>1, <1>2, <1>4, <2>3, <3>1 DEF Cached
    <2>4. ToSet(c2) = {j \in Impls : m2[j].path # NoFile /\ ~m2[j].proxy}
      <3>1. ToSet(s.cache) = {j \in Impls : m[j].path # NoFile /\ ~m[j].proxy}
        BY <1>1 DEF Cached
      <3> QED
        BY <1>0, <1>2, <1>4, <3>1
    <2>5. \A j \in ToSet(c2) : ~m2[j].deleted
      <3>1. \A j \in ToSet(s.cache) : j \in Impls /\ ~m[j].deleted
        BY <1>1 DEF Cached
      <3> QED
        BY <1>2, <1>4, <3>1
    <2> QED
      BY <1>4, <2>2, <2>3, <2>4, <2>5 DEF Cached
  <1>10. Viewed(m2, s.dir, s.shown, s.rows)
    <2>1. \A v \in Views : s.dir[v] # i /\ s.shown[v] # i
      BY <1>1 DEF Viewed, m, Impls, NoImpl
    <2>2. \A v \in Views : /\ s.dir[v] # NoImpl => m2[s.dir[v]] = m[s.dir[v]]
                           /\ s.shown[v] # NoImpl => m2[s.shown[v]] = m[s.shown[v]]
      BY <1>1, <1>2, <2>1
    <2> QED
      BY <1>1, <2>2 DEF Viewed
  <1> QED
    BY <1>0, <1>2, <1>7, <1>8, <1>9, <1>10 DEF Sound, Clean, SameViews, m, m2, F2, P2, c2

\* What a folder that is got from the file system is.
Got(s, i, t) ==
  Sound(t) /\ SameViews(s, t) /\ t.impl[i].proxy /\ ~t.impl[i].deleted

LEMMA FolderCached ==
  ASSUME NEW s, Sound(s), NEW p \in Files, s.paths[p] # NoImpl,
         NEW i, i = s.paths[p],
         NEW t, t = [s EXCEPT !.paths[p] = NoImpl, !.cache = RemoveFirst(@, i),
                              !.impl[i].proxy = TRUE, !.folders[p] = i]
  PROVE  i \in Impls /\ Got(s, i, t)
  <1> DEFINE x == s.impl[i]
             r == [x EXCEPT !.proxy = TRUE]
             c2 == RemoveFirst(s.cache, i)
             P2 == [s.paths EXCEPT ![p] = NoImpl]
             F2 == [s.folders EXCEPT ![p] = i]
             m2 == [s.impl EXCEPT ![i] = r]
  <1>1. /\ s \in FolderStates /\ s.impl \in [Impls -> Impl]
        /\ s.folders \in [Files -> Impls \cup {NoImpl}]
        /\ s.paths \in [Files -> Impls \cup {NoImpl}] /\ s.cache \in Seq(Impls)
        /\ Cached(s.impl, s.folders, s.paths, s.cache)
    BY Typed DEF Sound
  <1>2. /\ i \in Impls /\ i \in ToSet(s.cache) /\ x.path = p /\ x \in Impl /\ ImplOK(x)
        /\ i # NoImpl
    BY <1>1 DEF Cached, Sound
  <1>3. ~x.deleted /\ ~x.proxy /\ \A j, k \in DOMAIN s.cache : s.cache[j] = s.cache[k] => j = k
    BY <1>1, <1>2 DEF Cached
  <1>4. /\ c2 \in Seq(Impls) /\ ToSet(c2) = ToSet(s.cache) \ {i}
        /\ \A j, k \in DOMAIN c2 : c2[j] = c2[k] => j = k
    BY <1>1, <1>2, <1>3, FirstRemoved
  <1>5. t = [s EXCEPT !.paths = P2, !.cache = c2, !.impl = m2, !.folders = F2]
    OBVIOUS
  <1> HIDE DEF x, c2
  <1>6. /\ r \in Impl /\ r.path = x.path /\ r.proxy /\ r.deleted = x.deleted
        /\ r.request = x.request /\ r.files = x.files /\ r.copy = x.copy /\ r.idle = x.idle
        /\ r.reload = x.reload /\ r.done = x.done
    BY <1>2 DEF Impl
  <1> HIDE DEF r
  <1>7. ImplOK(r)
    BY <1>2, <1>6 DEF ImplOK
  <1>8. /\ m2 \in [Impls -> Impl] /\ P2 \in [Files -> Impls \cup {NoImpl}]
        /\ F2 \in [Files -> Impls \cup {NoImpl}]
    BY <1>1, <1>2, <1>6
  <1>9. \A q \in Files : P2[q] # i /\ P2[q] \in {s.paths[q], NoImpl}
    <2>1. \A q \in Files : s.paths[q] = i => q = p
      BY <1>2, Pointers DEF x
    <2> QED
      BY <1>1, <1>2, <2>1
  <1>10. m2 = [s.impl EXCEPT ![i] = r] /\ F2 = [s.folders EXCEPT ![p] = i]
    OBVIOUS
  <1> HIDE DEF m2, P2, F2
  <1>11. /\ t \in FolderStates /\ t.impl = m2 /\ t.paths = P2 /\ t.cache = c2
         /\ t.folders = F2 /\ t.monitors = s.monitors /\ SameViews(s, t)
    BY <1>1, <1>4, <1>5, <1>8, ZenonT(30) DEF FolderStates, SameViews
  <1>12. Sound(t) /\ t.impl[i] = r
    <2>1. ~s.impl[i].proxy /\ s.impl[i].path \in {p, NoFile}
      BY <1>2, <1>3 DEF x
    <2>2. Without(s.cache, t.cache, i) /\ Forgotten(s.paths, t.paths, i)
      <3>1. Without(s.cache, c2, i) /\ Forgotten(s.paths, P2, i)
        BY <1>4, <1>9 DEF Without, Forgotten
      <3> QED
        BY <1>11, <3>1
    <2>3. Registered(s, t, i, p, r)
      BY <1>2, <1>3, <1>6, <1>10, <1>11 DEF Registered, x
    <2> QED
      BY ONLY Sound(s), p \in Files, <1>2, <1>6, <1>7, <1>11, <2>1, <2>2, <2>3, FolderTaken
  <1> QED
    BY <1>2, <1>3, <1>6, <1>11, <1>12 DEF Got

LEMMA FolderIsNew ==
  ASSUME NEW s, Sound(s), NEW p \in Files, s.paths[p] = NoImpl,
         NEW i \in FreshImpls(s), FreshIn(s) # {},
         fs \in [Files -> StatBuf], entries \in [Files -> SUBSET Names],
         NEW t \in Populated(NewFolder(s, p, i), i)
  PROVE  i \in Impls /\ Got(s, i, t)
  <1> DEFINE names == {<<n, 0>> : n \in entries[p]}
             N == names \cup {<<DotDot, 0>>}
             r == [FreeImpl EXCEPT !.path = p, !.proxy = TRUE, !.files = N, !.untyped = N]
             u == NewFolder(s, p, i)
             F2 == [s.folders EXCEPT ![p] = i]
             m2 == [s.impl EXCEPT ![i] = r]
  <1>1. /\ s \in FolderStates /\ s.impl \in [Impls -> Impl]
        /\ s.folders \in [Files -> Impls \cup {NoImpl}]
        /\ s.paths \in [Files -> Impls \cup {NoImpl}] /\ s.cache \in Seq(Impls)
        /\ Cached(s.impl, s.folders, s.paths, s.cache)
    BY Typed DEF Sound
  <1>2. i \in Impls /\ s.impl[i].path = NoFile
    BY DEF FreshImpls
  <1>3. ~s.impl[i].proxy /\ s.impl[i].request = 0 /\ s.impl[i] \in Impl
    BY <1>1, <1>2 DEF Sound, ImplOK
  <1>4. N \in SUBSET File /\ Single(N)
    BY DEF File, Single
  <1>5. u = [s EXCEPT !.impl = m2, !.folders = F2]
    BY DEF NewFolder
  <1> HIDE DEF N
  <1>6. /\ r \in Impl /\ r.path = p /\ r.proxy /\ ~r.deleted /\ r.request = 0
        /\ r.files = N /\ r.copy = {} /\ ~r.idle /\ ~r.reload /\ r.done = STAGE_NAMES
    BY <1>4, FreeFolder DEF Impl
  <1> HIDE DEF r
  <1>7. ImplOK(r)
    <2>1. Single({})
      BY DEF Single
    <2> QED
      BY <1>4, <1>6, <2>1, Stages DEF ImplOK
  <1>8. m2 \in [Impls -> Impl] /\ F2 \in [Files -> Impls \cup {NoImpl}]
    BY <1>1, <1>2, <1>6
  <1>9. m2 = [s.impl EXCEPT ![i] = r] /\ F2 = [s.folders EXCEPT ![p] = i]
    OBVIOUS
  <1> HIDE DEF m2, F2, u
  <1>10. /\ u \in FolderStates /\ u.impl = m2 /\ u.paths = s.paths /\ u.cache = s.cache
         /\ u.folders = F2 /\ u.monitors = s.monitors /\ SameViews(s, u)
    BY <1>1, <1>5, <1>8 DEF FolderStates, SameViews
  <1>11. i \notin ToSet(s.cache)
    BY <1>1, <1>2 DEF Cached
  <1>12. Sound(u) /\ u.impl[i] = r
    <2>1. Without(s.cache, u.cache, i)
      <3>1. Without(s.cache, s.cache, i)
        BY <1>1, <1>11 DEF Cached, Without
      <3> QED
        BY <1>10, <3>1
    <2>2. Forgotten(s.paths, u.paths, i)
      <3>1. \A q \in Files : s.paths[q] # i
        BY <1>1, <1>2, <1>11 DEF Cached, Impls, NoImpl
      <3> QED
        BY <1>10, <3>1 DEF Forgotten
    <2>3. s.impl[i].path \in {p, NoFile} /\ Registered(s, u, i, p, r)
      BY <1>2, <1>3, <1>6, <1>9, <1>10 DEF Registered
    <2> QED
      BY <1>2, <1>3, <1>6, <1>7, <1>10, <2>1, <2>2, <2>3, FolderTaken
  <1>13. Looking(u, i)
    BY <1>6, <1>12, Stages DEF Looking
  <1>14. FreshIn(u) # {}
    BY <1>10 DEF FreshIn
  <1>15. t \in Populated(u, i)
    BY DEF u
  <1>16. Sound(t) /\ SameViews(u, t) /\ SameFolder(t.impl[i], u.impl[i])
    BY <1>2, <1>12, <1>13, <1>14, <1>15, PopulatedSound
  <1> QED
    BY <1>2, <1>6, <1>10, <1>12, <1>16 DEF Got, SameViews, SameFolder

\* moo_file_view_chdir_real asks for a folder it gets.
CanGet(s, p) ==
  \/ s.folders[p] # NoImpl \/ s.paths[p] # NoImpl
  \/ FreshImpls(s) # {} /\ FreshIn(s) # {}

LEMMA GotFolder ==
  ASSUME NEW s, Sound(s), NEW p \in Files, CanGet(s, p),
         fs \in [Files -> StatBuf], entries \in [Files -> SUBSET Names],
         NEW r \in GetFolder(s, p)
  PROVE  r[1] \in Impls /\ Got(s, r[1], r[2])
  <1>1. CASE s.folders[p] # NoImpl
    <2>1. r = <<s.folders[p], s>>
      BY <1>1 DEF GetFolder
    <2>2. /\ s.folders[p] \in Impls /\ s.impl[s.folders[p]].proxy
          /\ ~s.impl[s.folders[p]].deleted
      BY <1>1, Typed DEF Sound, Cached
    <2> QED
      BY <2>1, <2>2 DEF Got, SameViews
  <1>2. CASE s.folders[p] = NoImpl /\ s.paths[p] # NoImpl
    <2> DEFINE i == s.paths[p]
               u == [s EXCEPT !.paths[p] = NoImpl, !.cache = RemoveFirst(@, i),
                              !.impl[i].proxy = TRUE, !.folders[p] = i]
    <2>1. r = <<i, u>>
      BY <1>2 DEF GetFolder
    <2>2. i \in Impls /\ Got(s, i, u)
      BY <1>2, FolderCached
    <2> HIDE DEF i, u
    <2> QED
      BY <2>1, <2>2
  <1>3. CASE s.folders[p] = NoImpl /\ s.paths[p] = NoImpl
    <2> DEFINE i == CHOOSE i \in FreshImpls(s) : TRUE
    <2>1. PICK t \in Populated(NewFolder(s, p, i), i) : r = <<i, t>>
      BY <1>3 DEF GetFolder
    <2>2. i \in FreshImpls(s) /\ FreshIn(s) # {}
      BY <1>3 DEF CanGet
    <2> HIDE DEF i
    <2>3. i \in Impls /\ Got(s, i, t)
      BY <1>3, <2>2, FolderIsNew
    <2> QED
      BY <2>1, <2>3
  <1> QED
    BY <1>1, <1>2, <1>3

(***************************************************************************)
(* A view goes from one folder to another                                  *)
(***************************************************************************)
\* The view v has the folder i, and shows it.
WithView(s, v, i) ==
  [s EXCEPT !.dir[v] = i, !.shown[v] = i,
            !.rows[v] = IF i = NoImpl THEN {} ELSE s.impl[i].files]

LEMMA ViewSet ==
  ASSUME NEW s, Sound(s), NEW v \in Views, NEW i \in Impls \cup {NoImpl},
         i # NoImpl => s.impl[i].proxy /\ ~s.impl[i].deleted,
         NEW t, t = WithView(s, v, i)
  PROVE  Sound(t)
  <1> DEFINE F == IF i = NoImpl THEN {} ELSE s.impl[i].files
             D2 == [s.dir EXCEPT ![v] = i]
             S2 == [s.shown EXCEPT ![v] = i]
             R2 == [s.rows EXCEPT ![v] = F]
  <1>1. /\ s \in FolderStates /\ s.impl \in [Impls -> Impl]
        /\ s.dir \in [Views -> Impls \cup {NoImpl}] /\ s.shown \in [Views -> Impls \cup {NoImpl}]
        /\ s.rows \in [Views -> SUBSET File] /\ Viewed(s.impl, s.dir, s.shown, s.rows)
    BY Typed DEF Sound
  <1>2. F \in SUBSET File
    BY <1>1, TypedFolder
  <1>3. t = [s EXCEPT !.dir = D2, !.shown = S2, !.rows = R2]
    BY DEF WithView
  <1>4. F = IF i = NoImpl THEN {} ELSE s.impl[i].files
    OBVIOUS
  <1> HIDE DEF F
  <1>5. /\ D2 \in [Views -> Impls \cup {NoImpl}] /\ S2 \in [Views -> Impls \cup {NoImpl}]
        /\ R2 \in [Views -> SUBSET File]
        /\ D2[v] = i /\ S2[v] = i /\ R2[v] = F
        /\ \A w \in Views \ {v} : D2[w] = s.dir[w] /\ S2[w] = s.shown[w] /\ R2[w] = s.rows[w]
    BY <1>1, <1>2
  <1> HIDE DEF D2, S2, R2
  <1>6. /\ t \in FolderStates /\ t.impl = s.impl /\ t.folders = s.folders /\ t.cache = s.cache
        /\ t.paths = s.paths /\ t.monitors = s.monitors
        /\ t.dir = D2 /\ t.shown = S2 /\ t.rows = R2
    BY <1>1, <1>3, <1>5 DEF FolderStates
  <1>7. Viewed(s.impl, D2, S2, R2)
    <2>1. ASSUME NEW w \in Views
          PROVE  /\ D2[w] # NoImpl => s.impl[D2[w]].proxy
                 /\ IF S2[w] = NoImpl
                      THEN R2[w] = {} /\ (D2[w] = NoImpl \/ s.impl[D2[w]].deleted)
                    ELSE S2[w] = D2[w] /\ R2[w] = s.impl[S2[w]].files /\ ~s.impl[S2[w]].deleted
      <3>1. CASE w = v
        BY <1>4, <1>5, <3>1
      <3>2. CASE w # v
        BY <1>1, <1>5, <3>2 DEF Viewed
      <3> QED
        BY <3>1, <3>2
    <2> QED
      BY <2>1 DEF Viewed
  <1> QED
    BY <1>6, <1>7 DEF Sound

\* moo_file_view_set_current_dir takes the new folder, shows it, and lets go of
\* the one before, which nobody holds any more then if this view was the last.
LEMMA CurrentDirSet ==
  ASSUME NEW s, NEW v \in Views, NEW i \in Impls, Sound(s), s.impl[i].proxy, ~s.impl[i].deleted,
         NEW t, t = SetCurrentDir(s, v, i)
  PROVE  Sound(t)
  <1> DEFINE a == WithView(s, v, i)
             b == [s EXCEPT !.dir[v] = i]
             x == s.shown[v]
             y == s.dir[v]
             c == Unref(a, x)
  <1>1. CASE i = y
    BY <1>1 DEF SetCurrentDir
  <1>2. CASE i # y
    <2>1. s \in FolderStates /\ s.dir \in [Views -> Impls \cup {NoImpl}]
          /\ s.shown \in [Views -> Impls \cup {NoImpl}]
      BY Typed DEF Sound
    <2>2. t = Unref(ModelSetFolder(b, v, i), y)
      BY <1>2 DEF SetCurrentDir
    <2>3. [b EXCEPT !.shown[v] = i,
                    !.rows[v] = IF i = NoImpl THEN {} ELSE b.impl[i].files] = a
      BY <2>1 DEF FolderStates, WithView
    <2>4. b.shown[v] = x
      BY <2>1 DEF FolderStates
    <2> HIDE DEF a, b, x, y
    <2>5. ModelSetFolder(b, v, i) = Unref(a, x)
      BY <2>3, <2>4 DEF ModelSetFolder
    <2>6. Sound(a)
      BY ViewSet DEF a
    <2>7. x \in Impls \cup {NoImpl} /\ y \in Impls \cup {NoImpl}
      BY <2>1 DEF x, y
    <2>8. Sound(c)
      BY <2>6, <2>7, UnrefSound
    <2>9. t = Unref(c, y)
      BY <2>2, <2>5
    <2> HIDE DEF c
    <2> QED
      BY <2>7, <2>8, <2>9, UnrefSound
  <1> QED
    BY <1>1, <1>2

\* moo_file_view_finalize
Left(s, v) ==
  LET i == s.shown[v]
      s1 == IF i = NoImpl THEN s ELSE [s EXCEPT !.hung[i] = TRUE]
      s2 == ModelSetFolder(s1, v, NoImpl)
  IN Unref([s2 EXCEPT !.dir[v] = NoImpl], s.dir[v])

LEMMA ViewLeft ==
  ASSUME NEW s, Sound(s), NEW v \in Views, s.dir[v] # NoImpl, NEW t, t = Left(s, v)
  PROVE  Sound(t)
  <1> DEFINE x == s.shown[v]
             y == s.dir[v]
             h == IF x = NoImpl THEN s.hung ELSE [s.hung EXCEPT ![x] = TRUE]
             s1 == [s EXCEPT !.hung = h]
             k == [s1 EXCEPT !.shown[v] = NoImpl, !.rows[v] = {}]
             a == WithView(s1, v, NoImpl)
  <1>1. /\ s \in FolderStates /\ s.hung \in [Impls -> BOOLEAN]
        /\ s.dir \in [Views -> Impls \cup {NoImpl}] /\ s.shown \in [Views -> Impls \cup {NoImpl}]
        /\ Viewed(s.impl, s.dir, s.shown, s.rows)
    BY Typed DEF Sound
  <1>2. y \in Impls /\ x \in {y, NoImpl}
    BY <1>1 DEF Viewed
  <1>3. (IF x = NoImpl THEN s ELSE [s EXCEPT !.hung[x] = TRUE]) = s1
    <2>1. s = [s EXCEPT !.hung = s.hung]
      BY <1>1 DEF FolderStates
    <2> QED
      BY <2>1
  <1>4. h \in [Impls -> BOOLEAN]
    BY <1>1, <1>2
  <1> HIDE DEF h
  <1>5. /\ s1 \in FolderStates /\ s1.impl = s.impl /\ s1.folders = s.folders
        /\ s1.cache = s.cache /\ s1.paths = s.paths /\ s1.monitors = s.monitors
        /\ SameViews(s, s1)
    BY <1>1, <1>4 DEF FolderStates, SameViews
  <1>6. Sound(s1)
    BY <1>5 DEF Sound, SameViews
  <1>7. t = Unref([ModelSetFolder(s1, v, NoImpl) EXCEPT !.dir[v] = NoImpl], y)
    BY <1>3 DEF Left
  <1> HIDE DEF s1
  <1>8. ModelSetFolder(s1, v, NoImpl) = Unref(k, x)
    BY <1>5 DEF ModelSetFolder, SameViews
  <1>9. k.dir = s.dir
    BY <1>5 DEF FolderStates, SameViews
  <1>10. Unref(k, x) = k
    <2>1. x = NoImpl \/ k.dir[v] = x
      BY <1>2, <1>9
    <2> HIDE DEF k, x
    <2> QED
      BY <2>1 DEF Unref
  <1>11. [k EXCEPT !.dir[v] = NoImpl] = a
    BY <1>5 DEF FolderStates, WithView
  <1> HIDE DEF k, a
  <1>12. t = Unref(a, y)
    BY <1>7, <1>8, <1>10, <1>11
  <1>13. Sound(a)
    BY <1>6, ViewSet DEF a
  <1> QED
    BY <1>2, <1>12, <1>13, UnrefSound

(***************************************************************************)
(* What fam_callback does of its own                                       *)
(***************************************************************************)
LEMMA ReloadWanted ==
  ASSUME NEW s, Sound(s), NEW i \in Impls, s.impl[i].path # NoFile,
         NEW t, t = [s EXCEPT !.impl[i].reload = TRUE]
  PROVE  Sound(t) /\ t.monitors = s.monitors
  <1> DEFINE x == s.impl[i]
             r == [x EXCEPT !.reload = TRUE]
             m2 == [s.impl EXCEPT ![i] = r]
  <1>1. s \in FolderStates /\ s.impl \in [Impls -> Impl] /\ x \in Impl /\ ImplOK(x)
    BY Typed DEF Sound
  <1>2. t = [s EXCEPT !.impl = m2]
    OBVIOUS
  <1> HIDE DEF x
  <1>3. /\ r \in Impl /\ SameFolder(r, x) /\ r.request = x.request /\ r.copy = x.copy
        /\ r.idle = x.idle /\ r.done = x.done
    BY <1>1 DEF Impl, SameFolder
  <1>4. x.path # NoFile
    BY DEF x
  <1> HIDE DEF r
  <1>5. ImplOK(r)
    BY <1>1, <1>3, <1>4 DEF ImplOK, SameFolder
  <1>6. m2 \in [Impls -> Impl] /\ m2 = [s.impl EXCEPT ![i] = r]
    BY <1>1, <1>3
  <1> HIDE DEF m2
  <1>7. /\ t \in FolderStates /\ t.impl = [s.impl EXCEPT ![i] = r] /\ t.monitors = s.monitors
        /\ t.folders = s.folders /\ t.cache = s.cache /\ t.paths = s.paths /\ SameViews(s, t)
    BY <1>1, <1>2, <1>6 DEF FolderStates, SameViews
  <1>8. /\ r.path = s.impl[i].path /\ r.proxy = s.impl[i].proxy
        /\ r.deleted = s.impl[i].deleted /\ r.files = s.impl[i].files
        /\ r.request = s.impl[i].request
    BY <1>3 DEF SameFolder, x
  <1> QED
    BY <1>3, <1>5, <1>7, <1>8, FolderTouched

LEMMA StopSound ==
  ASSUME NEW s, Sound(s), NEW i \in Impls, NEW t, t = StopMonitor(s, i)
  PROVE  Sound(t) /\ t.impl[i].path = s.impl[i].path /\ Dropped(s.monitors, t.monitors)
  <1> DEFINE x == s.impl[i]
             r == [x EXCEPT !.request = 0]
             m2 == t.impl
  <1>1. /\ s \in FolderStates /\ s.impl \in [Impls -> Impl] /\ x \in Impl /\ ImplOK(x)
        /\ s.folders \in [Files -> Impls \cup {NoImpl}]
        /\ s.paths \in [Files -> Impls \cup {NoImpl}]
        /\ s.dir \in [Views -> Impls \cup {NoImpl}] /\ s.shown \in [Views -> Impls \cup {NoImpl}]
        /\ Owned(s.impl, s.monitors) /\ Cached(s.impl, s.folders, s.paths, s.cache)
        /\ Viewed(s.impl, s.dir, s.shown, s.rows) /\ Clean(s.impl)
    BY Typed DEF Sound, Clean
  <1>2. /\ t \in FolderStates /\ SameRest(s, t) /\ t.impl = [s.impl EXCEPT ![i] = r]
        /\ Owned(t.impl, t.monitors) /\ Dropped(s.monitors, t.monitors)
    BY <1>1, MonitorStopped
  <1> HIDE DEF x
  <1>3. /\ r \in Impl /\ SameFolder(r, x) /\ r.request = 0 /\ r.copy = x.copy
        /\ r.idle = x.idle /\ r.done = x.done /\ r.reload = x.reload
    BY <1>1 DEF Impl, SameFolder
  <1> HIDE DEF r
  <1>4. ImplOK(r)
    BY <1>1, <1>3 DEF ImplOK, SameFolder
  <1>5. m2 \in [Impls -> Impl] /\ m2[i] = r /\ \A j \in Impls \ {i} : m2[j] = s.impl[j]
    BY <1>1, <1>2, <1>3
  <1> HIDE DEF m2
  <1>6. \A j \in Impls : SameFolder(m2[j], s.impl[j])
    BY <1>3, <1>5 DEF SameFolder, x
  <1>7. Cached(m2, s.folders, s.paths, s.cache)
    <2>1. \A j \in Impls : m2[j].path = s.impl[j].path /\ m2[j].proxy = s.impl[j].proxy
                            /\ m2[j].deleted = s.impl[j].deleted
      BY <1>6 DEF SameFolder
    <2> QED
      BY <1>1, <2>1, CachedFrame
  <1>8. Viewed(m2, s.dir, s.shown, s.rows)
    <2>1. \A j \in Impls : m2[j].files = s.impl[j].files /\ m2[j].proxy = s.impl[j].proxy
                            /\ m2[j].deleted = s.impl[j].deleted
      BY <1>6 DEF SameFolder
    <2> QED
      BY <1>1, <2>1, ViewedFrame
  <1>9. Clean(m2)
    BY <1>1, <1>4, <1>5 DEF Clean
  <1> QED
    BY <1>2, <1>6, <1>7, <1>8, <1>9 DEF Sound, SameRest, Clean, SameFolder, m2

(***************************************************************************)
(* Steps                                                                   *)
(***************************************************************************)
LEMMA StateFields ==
  /\ State.impl = impl /\ State.folders = folders /\ State.cache = cache
  /\ State.paths = paths /\ State.monitors = monitors /\ State.dir = dir
  /\ State.shown = shown /\ State.rows = rows /\ State.hung = hung /\ State.fault = fault
  BY DEF State

\* The next state of the program is s.
LEMMA NextState ==
  ASSUME NEW s, Sound(s), Becomes(s)
  PROVE  Sound(State)' /\ monitors' \in [Ids -> Monitor]
  <1>1. s \in FolderStates
    BY DEF Sound
  <1>2. State' \in FolderStates
    BY <1>1, Typed DEF Becomes, State, FolderStates
  <1>3. /\ State'.impl = s.impl /\ State'.folders = s.folders /\ State'.cache = s.cache
        /\ State'.paths = s.paths /\ State'.monitors = s.monitors /\ State'.dir = s.dir
        /\ State'.shown = s.shown /\ State'.rows = s.rows
    BY DEF Becomes, State
  <1>4. Sound(State')
    BY <1>2, <1>3 DEF Sound
  <1> QED
    BY <1>1, <1>4, Typed DEF Becomes

\* A handler leaves the poll, the event and the files alone.
LEMMA Handled ==
  ASSUME Inv, NEW s, Sound(s), Handler(s)
  PROVE  Inv'
  <1>1. Becomes(s) /\ UNCHANGED <<fs, now, poll, entries, event>> /\ ~poll.running
    BY DEF Handler
  <1>2. WatchTypeOK'
    BY <1>1, NextState DEF Inv, WatchTypeOK
  <1>3. poll = NoPoll /\ event = NoEvent /\ NoEvent \in Events
    BY <1>1 DEF Inv, Polled
  <1>4. Polled'
    BY <1>1, <1>3 DEF Polled, NoPoll
  <1> QED
    BY <1>1, <1>2, <1>4, NextState DEF Inv

\* Nothing of the program changes.
LEMMA Undisturbed ==
  ASSUME Inv, WatchTypeOK', entries' \in [Files -> SUBSET Names],
         UNCHANGED <<monitors, poll, folderVars, event>>
  PROVE  Inv'
  <1>1. State' = State
    BY DEF State, folderVars
  <1>2. Polled'
    BY DEF Inv, Polled, Requests
  <1> QED
    BY <1>1, <1>2 DEF Inv

LEMMA ElsewhereStep ==
  ASSUME Inv, Elsewhere
  PROVE  Inv'
  <1>1. WatchTypeOK /\ entries \in [Files -> SUBSET Names]
    BY DEF Inv
  <1>2. ASSUME WatchNext, UNCHANGED <<monitors, poll, folderVars, event>>,
               entries' \in [Files -> SUBSET Names]
        PROVE  Inv'
    BY <1>1, <1>2, WatchNextTypeOK, Undisturbed
  <1>3. ASSUME Tick, UNCHANGED <<entries, folderVars, event>> PROVE Inv'
    BY <1>1, <1>2, <1>3 DEF Tick, WatchNext, Environment
  <1>4. ASSUME NEW p \in Files, HideFile(p), UNCHANGED <<entries, folderVars, event>> PROVE Inv'
    BY <1>1, <1>2, <1>4 DEF HideFile, WatchNext, Environment
  <1>5. ASSUME NEW p \in Files, NEW E \in SUBSET Names, ChangeEntries(p, E) PROVE Inv'
    <2>1. ReplaceFile(p, now) /\ entries' = [entries EXCEPT ![p] = E]
          /\ UNCHANGED <<folderVars, event>>
      BY <1>5 DEF ChangeEntries
    <2>2. WatchNext
      BY <1>1, <2>1 DEF WatchTypeOK, WatchNext, Environment
    <2> QED
      BY <1>1, <1>2, <2>1, <2>2 DEF ReplaceFile
  <1>6. ASSUME NEW p \in Files, RemoveDir(p) PROVE Inv'
    BY <1>1, <1>2, <1>6 DEF RemoveDir, DeleteFile, WatchNext, Environment
  <1>7. ASSUME NEW p \in Files, MakeDir(p) PROVE Inv'
    <2>1. ReplaceFile(p, now) /\ UNCHANGED <<entries, folderVars, event>>
      BY <1>7 DEF MakeDir
    <2>2. WatchNext
      BY <1>1, <2>1 DEF WatchTypeOK, WatchNext, Environment
    <2> QED
      BY <1>1, <1>2, <2>1, <2>2 DEF ReplaceFile
  <1> QED
    BY <1>3, <1>4, <1>5, <1>6, <1>7 DEF Elsewhere

LEMMA UserStep ==
  ASSUME Inv, User
  PROVE  Inv'
  <1>1. /\ Sound(State) /\ fs \in [Files -> StatBuf] /\ entries \in [Files -> SUBSET Names]
        /\ State \in FolderStates
        /\ dir \in [Views -> Impls \cup {NoImpl}] /\ shown \in [Views -> Impls \cup {NoImpl}]
        /\ Viewed(impl, dir, shown, rows)
    BY Typed, StateFields DEF Inv, Sound, WatchTypeOK
  <1>2. ASSUME NEW i \in Impls, impl[i].proxy PROVE State.impl[i].path # NoFile
    BY <1>1, <1>2, StateFields DEF Sound, ImplOK
  <1>3. ASSUME NEW v \in Views, NEW p \in Files, Chdir(v, p) PROVE Inv'
    <2>1. CanGet(State, p)
      BY <1>3, StateFields DEF Chdir, CanGet
    <2>2. PICK r \in GetFolder(State, p) : Handler(SetCurrentDir(r[2], v, r[1]))
      BY <1>3 DEF Chdir
    <2> DEFINE i == r[1]
               s == r[2]
               t == SetCurrentDir(s, v, i)
    <2>3. i \in Impls /\ Got(State, i, s)
      BY <1>1, <2>1, GotFolder
    <2> HIDE DEF i, s
    <2>4. Sound(t)
      BY <2>3, CurrentDirSet DEF Got
    <2>5. Handler(t)
      BY <2>2 DEF i, s
    <2> HIDE DEF t
    <2> QED
      BY <2>4, <2>5, Handled
  <1>4. ASSUME NEW v \in Views, CloseView(v) PROVE Inv'
    <2>1. dir[v] # NoImpl /\ Handler(Left(State, v))
      BY <1>4, StateFields DEF CloseView, Left
    <2>2. Sound(Left(State, v))
      BY <1>1, <2>1, ViewLeft, StateFields
    <2> QED
      BY <2>1, <2>2, Handled
  <1>5. ASSUME NEW v \in Views, Reload(v) PROVE Inv'
    <2>1. dir[v] # NoImpl /\ Handler(DoReload(State, dir[v]))
      BY <1>5 DEF Reload
    <2>2. dir[v] \in Impls /\ impl[dir[v]].proxy
      BY <1>1, <2>1 DEF Viewed
    <2>3. Sound(DoReload(State, dir[v]))
      BY <1>1, <1>2, <2>2, ReloadSound
    <2> QED
      BY <2>1, <2>3, Handled
  <1>6. ASSUME NEW v \in Views, NEW n \in Names, ActivateVanished(v, n) PROVE Inv'
    <2>1. shown[v] # NoImpl /\ Handler(FilesDeleted(State, shown[v], {n}))
      BY <1>6 DEF ActivateVanished
    <2>2. shown[v] \in Impls /\ impl[shown[v]].proxy
      BY <1>1, <2>1 DEF Viewed
    <2>3. Sound(FilesDeleted(State, shown[v], {n}))
      BY <1>1, <1>2, <2>2, FilesDeletedSound
    <2> QED
      BY <2>1, <2>3, Handled
  <1> QED
    BY <1>3, <1>4, <1>5, <1>6 DEF User

\* The state of the folders is the same, but for what a poll does to its monitors.
LEMMA PollOwned ==
  ASSUME Sound(State), UNCHANGED folderVars, monitors' \in [Ids -> Monitor],
         \A id \in Ids : /\ monitors'[id].file = monitors[id].file
                         /\ monitors[id].file # NoFile => monitors'[id].data = monitors[id].data
  PROVE  Sound(State)'
  <1>1. /\ State \in FolderStates /\ impl \in [Impls -> Impl] /\ monitors \in [Ids -> Monitor]
        /\ \A i \in Impls : ImplOK(impl[i])
        /\ Owned(impl, monitors) /\ Cached(impl, folders, paths, cache)
        /\ Viewed(impl, dir, shown, rows)
    BY Typed, StateFields DEF Sound
  <1>2. State' \in FolderStates
    BY <1>1, Typed, StateFields DEF folderVars, State, FolderStates
  <1>3. /\ State'.impl = impl /\ State'.folders = folders /\ State'.cache = cache
        /\ State'.paths = paths /\ State'.monitors = monitors' /\ State'.dir = dir
        /\ State'.shown = shown /\ State'.rows = rows
    BY DEF folderVars, State
  <1>4. Owned(impl, monitors')
    <2>1. \A i \in Impls : impl[i].request \in Ids \cup {0}
      BY <1>1, TypedFolder
    <2> QED
      BY <1>1, <2>1 DEF Owned
  <1>5. Sound(State')
    BY <1>1, <1>2, <1>3, <1>4 DEF Sound
  <1> QED
    BY <1>5

\* What do_stat does to the table and to the poll for one id.
LEMMA MonitorLookedAt ==
  ASSUME WatchTypeOK, NEW id \in Ids, StatMonitor(id)
  PROVE  /\ \A k \in Ids : monitors'[k].file = monitors[k].file
                           /\ monitors'[k].data = monitors[k].data
         /\ poll'.running /\ poll'.gone = IF EventCode(id) = "deleted" THEN poll.gone \cup {id}
                                          ELSE poll.gone
         /\ EventCode(id) # "none" => id \in Requests
         /\ EventCode(id) \in {"none", "changed", "deleted", "error"}
  <1>1. monitors \in [Ids -> Monitor] /\ poll \in Poll
    BY DEF WatchTypeOK
  <1>2. \A k \in Ids : monitors'[k].file = monitors[k].file /\ monitors'[k].data = monitors[k].data
    <2>1. \/ monitors' = monitors
          \/ monitors' = [monitors EXCEPT ![id].alive = FALSE]
          \/ monitors' = [monitors EXCEPT ![id].mtime = fs[monitors[id].file].mtime]
      BY DEF StatMonitor
    <2> QED
      BY <1>1, <2>1 DEF Monitor
  <1>3. /\ EventCode(id) # "none" => id \in Requests
        /\ EventCode(id) \in {"none", "changed", "deleted", "error"}
    BY DEF EventCode
  <1>4. /\ poll'.running /\ poll'.gone = IF EventCode(id) = "deleted" THEN poll.gone \cup {id}
                                         ELSE poll.gone
    BY <1>1 DEF StatMonitor, Poll
  <1> QED
    BY <1>2, <1>3, <1>4

LEMMA PollMonitorStep ==
  ASSUME Inv, NEW id \in Ids, PollMonitor(id)
  PROVE  Inv'
  <1>1. /\ WatchTypeOK /\ Sound(State) /\ entries \in [Files -> SUBSET Names] /\ Polled
        /\ StatMonitor(id) /\ event = NoEvent /\ UNCHANGED <<entries, folderVars>>
    BY DEF Inv, PollMonitor
  <1>2. WatchTypeOK'
    BY <1>1, WatchNextTypeOK DEF WatchNext, DoStat
  <1>3. /\ \A k \in Ids : monitors'[k].file = monitors[k].file
                          /\ monitors'[k].data = monitors[k].data
        /\ poll'.running /\ poll'.gone = IF EventCode(id) = "deleted" THEN poll.gone \cup {id}
                                         ELSE poll.gone
        /\ EventCode(id) # "none" => id \in Requests
        /\ EventCode(id) \in {"none", "changed", "deleted", "error"}
    BY <1>1, MonitorLookedAt
  <1>4. Sound(State)'
    <2>1. monitors' \in [Ids -> Monitor]
      BY <1>2 DEF WatchTypeOK
    <2> QED
      BY <1>1, <1>3, <2>1, PollOwned
  <1>5. Requests' = Requests
    BY <1>3 DEF Requests
  <1>6. poll.gone \cap Requests = {}
    BY <1>1 DEF Polled, NoEvent
  <1>7. monitors[id].data \in Impls \cup {NoImpl}
    BY <1>1 DEF WatchTypeOK, Monitor, Impls, NoImpl
  <1>8. Polled'
    <2>1. CASE EventCode(id) = "none"
      <3>1. event' = NoEvent /\ NoEvent \in Events /\ poll'.gone = poll.gone
        BY <1>1, <1>3, <2>1 DEF PollMonitor, Polled
      <3> QED
        BY <1>3, <1>5, <1>6, <3>1 DEF Polled
    <2>2. CASE EventCode(id) # "none"
      <3>1. event' = [id |-> id, code |-> EventCode(id), data |-> monitors[id].data]
        BY <2>2 DEF PollMonitor
      <3>2. /\ event' \in Events /\ event'.id = id /\ event'.code = EventCode(id)
            /\ event'.data = monitors[id].data
        BY <1>3, <1>7, <3>1 DEF Events
      <3> QED
        BY <1>3, <1>5, <1>6, <2>2, <3>2 DEF Polled
    <2> QED
      BY <2>1, <2>2
  <1> QED
    BY <1>1, <1>2, <1>4, <1>8 DEF Inv

\* fam_callback leaves the poll with nothing to remove that a folder waits for.
LEMMA Answered ==
  ASSUME Inv, NEW s, Sound(s), Becomes(s), event' = NoEvent,
         UNCHANGED <<fs, now, poll, entries>>,
         \A id \in poll.gone : id \in Ids => s.monitors[id].file = NoFile
  PROVE  Inv'
  <1>1. WatchTypeOK'
    BY NextState DEF Inv, WatchTypeOK
  <1>2. NoEvent \in Events
    BY DEF Events, NoEvent
  <1>3. poll.gone \cap Requests' = {}
    BY DEF Becomes, Requests
  <1>4. ~poll.running => poll = NoPoll
    BY DEF Inv, Polled
  <1>5. Polled'
    BY <1>2, <1>3, <1>4 DEF Polled
  <1> QED
    BY <1>1, <1>5, NextState DEF Inv

LEMMA FamCallbackStep ==
  ASSUME Inv, FamCallback
  PROVE  Inv'
  <1> DEFINE i == event.data
             k == event.id
             code == event.code
  <1>1. /\ WatchTypeOK /\ Sound(State) /\ Polled /\ event # NoEvent /\ event \in Events
        /\ monitors \in [Ids -> Monitor] /\ Owned(impl, monitors)
        /\ event' = NoEvent /\ UNCHANGED <<fs, now, poll, entries>>
    BY StateFields DEF Inv, FamCallback, Polled, Sound, WatchTypeOK
  <1>2. /\ k \in Requests /\ k \in Ids /\ monitors[k].data = i
        /\ poll.gone \cap Requests \subseteq (IF code = "deleted" THEN {k} ELSE {})
    BY <1>1 DEF Polled, Requests
  <1>3. code \in {"changed", "deleted", "error"}
    BY <1>1 DEF Polled, Events
  <1>4. Becomes(CASE code = "changed" -> [State EXCEPT !.impl[i].reload = TRUE]
                  [] code = "deleted" -> FolderEmitDeleted(State, i)
                  [] code = "error" -> [StopMonitor(State, i) EXCEPT !.impl[i].reload = TRUE])
    BY DEF FamCallback
  <1> HIDE DEF i, k, code
  <1>5. i \in Impls /\ impl[i].path # NoFile
    BY <1>1, <1>2 DEF Owned, Requests
  <1>6. \A id \in poll.gone : id \in Ids /\ id # k => monitors[id].file = NoFile
    BY <1>2 DEF Requests
  <1>7. State.monitors = monitors /\ State.impl = impl
    BY StateFields
  <1>8. CASE code = "changed"
    <2> DEFINE t == [State EXCEPT !.impl[i].reload = TRUE]
    <2>1. Becomes(t)
      BY <1>4, <1>8
    <2>2. Sound(t) /\ t.monitors = monitors
      BY <1>1, <1>5, <1>7, ReloadWanted
    <2>3. \A id \in poll.gone : id \in Ids => t.monitors[id].file = NoFile
      BY <1>2, <1>8, <2>2 DEF Requests
    <2> HIDE DEF t
    <2> QED
      BY <1>1, <2>1, <2>2, <2>3, Answered
  <1>9. CASE code = "deleted"
    <2> DEFINE t == FolderEmitDeleted(State, i)
    <2>1. Becomes(t)
      BY <1>4, <1>9
    <2>2. Sound(t) /\ Dropped(monitors, t.monitors) /\ NotServing(t.monitors, i)
      BY <1>1, <1>5, <1>7, DeletedEmitted
    <2> HIDE DEF t
    <2>3. \A id \in poll.gone : id \in Ids => t.monitors[id].file = NoFile
      BY <1>2, <1>6, <2>2, FreeEntry DEF Dropped, NotServing
    <2> QED
      BY <1>1, <2>1, <2>2, <2>3, Answered
  <1>10. CASE code = "error"
    <2> DEFINE u == StopMonitor(State, i)
               t == [u EXCEPT !.impl[i].reload = TRUE]
    <2>1. Becomes(t)
      BY <1>4, <1>10
    <2>2. Sound(u) /\ u.impl[i].path # NoFile /\ Dropped(monitors, u.monitors)
      BY <1>1, <1>5, <1>7, StopSound
    <2> HIDE DEF u
    <2>3. Sound(t) /\ t.monitors = u.monitors
      BY <1>5, <2>2, ReloadWanted
    <2>4. \A id \in poll.gone : id \in Ids => t.monitors[id].file = NoFile
      BY <1>2, <1>10, <2>2, <2>3, FreeEntry DEF Dropped, Requests
    <2> HIDE DEF t
    <2> QED
      BY <1>1, <2>1, <2>3, <2>4, Answered
  <1> QED
    BY <1>3, <1>8, <1>9, <1>10

LEMMA FinishPollStep ==
  ASSUME Inv, FinishPoll
  PROVE  Inv'
  <1>1. /\ WatchTypeOK /\ Sound(State) /\ entries \in [Files -> SUBSET Names] /\ Polled
        /\ PollEnd /\ event = NoEvent /\ UNCHANGED <<entries, folderVars, event>>
        /\ NoEvent \in Events
    BY DEF Inv, FinishPoll, Polled
  <1>2. WatchTypeOK'
    BY <1>1, WatchNextTypeOK DEF WatchNext, DoStat
  <1>3. monitors' = [id \in Ids |-> IF id \in poll.gone THEN FreeMonitor ELSE monitors[id]]
    BY <1>1 DEF PollEnd
  <1>4. \A id \in Ids : id \in poll.gone => monitors[id].file = NoFile
    BY <1>1 DEF Polled, NoEvent, Requests
  <1>5. Sound(State)'
    <2>1. monitors' \in [Ids -> Monitor]
      BY <1>2 DEF WatchTypeOK
    <2>2. \A id \in Ids : /\ monitors'[id].file = monitors[id].file
                          /\ monitors[id].file # NoFile => monitors'[id].data = monitors[id].data
      BY <1>3, <1>4, FreeEntry
    <2> QED
      BY <1>1, <2>1, <2>2, PollOwned
  <1>6. Polled'
    BY <1>1 DEF PollEnd, Polled, NoPoll
  <1> QED
    BY <1>1, <1>2, <1>5, <1>6 DEF Inv

LEMMA MainLoopStep ==
  ASSUME Inv, MainLoop
  PROVE  Inv'
  <1>1. /\ WatchTypeOK /\ Sound(State) /\ fs \in [Files -> StatBuf]
        /\ entries \in [Files -> SUBSET Names] /\ Polled
    BY DEF Inv, WatchTypeOK
  <1>2. ASSUME NEW i \in Impls, PopulateTimeout(i) PROVE Inv'
    <2>1. PICK t \in Populated(State, i) : Handler(t)
      BY <1>2 DEF PopulateTimeout
    <2>2. Looking(State, i) /\ FreshIn(State) # {}
      BY <1>1, <1>2, StateFields DEF PopulateTimeout, Looking, Sound, ImplOK
    <2>3. Sound(t)
      BY <1>1, <2>2, PopulatedSound
    <2> QED
      BY <2>1, <2>3, Handled
  <1>3. ASSUME NEW i \in Impls, ReloadIdle(i) PROVE Inv'
    <2>1. Handler(DoReload(State, i)) /\ State.impl[i].path # NoFile
      BY <1>1, <1>3, StateFields DEF ReloadIdle, Sound, ImplOK
    <2>2. Sound(DoReload(State, i))
      BY <1>1, <2>1, ReloadSound
    <2> QED
      BY <2>1, <2>2, Handled
  <1>4. ASSUME StartPoll PROVE Inv'
    <2>1. PollBegin /\ UNCHANGED <<entries, folderVars, event>>
      BY <1>4 DEF StartPoll
    <2>2. WatchTypeOK'
      BY <1>1, <2>1, WatchNextTypeOK DEF WatchNext, DoStat
    <2>3. State' = State /\ Requests' = Requests
      BY <2>1 DEF State, folderVars, PollBegin, Requests
    <2>4. Polled'
      BY <1>1, <2>1, <2>3 DEF PollBegin, Polled
    <2> QED
      BY <1>1, <2>1, <2>2, <2>3, <2>4 DEF Inv
  <1> QED
    BY <1>2, <1>3, <1>4, PollMonitorStep, FamCallbackStep, FinishPollStep DEF MainLoop

LEMMA InvInit ==
  ASSUME FoldersInit
  PROVE  Inv
  <1>1. WatchTypeOK
    BY WatchInitTypeOK DEF FoldersInit
  <1>2. State \in FolderStates
    BY <1>1, FreeFolder DEF FoldersInit, WatchTypeOK, State, FolderStates
  <1>3. \A i \in Impls : ImplOK(impl[i])
    BY FreeFolder DEF FoldersInit
  <1>4. Owned(impl, monitors)
    BY FreeFolder, FreeEntry DEF FoldersInit, WatchInit, Owned
  <1>5. Cached(impl, folders, paths, cache)
    BY FreeFolder DEF FoldersInit, Cached, ToSet
  <1>6. Viewed(impl, dir, shown, rows)
    BY DEF FoldersInit, Viewed
  <1>7. Polled
    BY DEF FoldersInit, WatchInit, Polled, NoPoll, NoEvent, Events
  <1> QED
    BY <1>1, <1>2, <1>3, <1>4, <1>5, <1>6, <1>7, StateFields DEF Inv, Sound, FoldersInit

(***************************************************************************)
(* Theorems                                                                *)
(***************************************************************************)
\* The invariant: whatever the user does and other processes change, whenever
\* timeouts, idles and callbacks run, monitors, registry, cache and views agree
\* with the folders.
THEOREM FoldersSound == FoldersSpec => []Inv
  <1>1. FoldersInit => Inv
    BY InvInit
  <1>2. Inv /\ [FoldersNext]_vars => Inv'
    <2>1. ASSUME Inv, UNCHANGED vars PROVE Inv'
      <3>1. /\ UNCHANGED <<monitors, poll, folderVars, event>>
            /\ UNCHANGED watchVars /\ entries' = entries
        BY <2>1 DEF vars, watchVars
      <3>2. WatchTypeOK' /\ entries' \in [Files -> SUBSET Names]
        BY <2>1, <3>1 DEF Inv, WatchTypeOK, watchVars
      <3> QED
        BY <2>1, <3>1, <3>2, Undisturbed
    <2> QED
      BY <2>1, ElsewhereStep, MainLoopStep, UserStep DEF FoldersNext
  <1> QED
    BY <1>1, <1>2, PTL DEF FoldersSpec

\* Each view lists just the files of its folder, object by object: created and
\* deleted files reach every view that shows the folder, whoever made it reload.
THEOREM ViewsMatchFolders == FoldersSpec => []RowsMatch
  <1>1. Inv => RowsMatch
    <2> SUFFICES ASSUME Inv PROVE RowsMatch
      OBVIOUS
    <2>1. Viewed(impl, dir, shown, rows) /\ dir \in [Views -> Impls \cup {NoImpl}]
      BY Typed, StateFields DEF Inv, Sound
    <2> QED
      BY <2>1 DEF Viewed, RowsMatch
  <1> QED
    BY <1>1, FoldersSound, PTL

\* do_stat calls fam_callback with a folder that is alive and waits for just
\* this monitor, although folders are freed in the callbacks of others.
THEOREM MonitorsAreServed == FoldersSpec => []MonitorsServed
  <1>1. Inv => MonitorsServed
    <2> SUFFICES ASSUME Inv PROVE MonitorsServed
      OBVIOUS
    <2>1. Owned(impl, monitors) /\ monitors \in [Ids -> Monitor]
      BY Typed, StateFields DEF Inv, Sound
    <2> QED
      BY <2>1 DEF Owned, MonitorsServed, Live, Requests
  <1> QED
    BY <1>1, FoldersSound, PTL

\* A folder that is got by its path, from the registry or from the cache, was
\* neither freed nor deleted, and is the folder of that path.
THEOREM CacheIsSound == FoldersSpec => []CacheSound
  <1>1. Inv => CacheSound
    <2> SUFFICES ASSUME Inv PROVE CacheSound
      OBVIOUS
    <2>1. Cached(impl, folders, paths, cache)
      BY StateFields DEF Inv, Sound
    <2>2. \A i \in ToSet(cache) : i \in Impls /\ impl[i].path # NoFile /\ ~impl[i].proxy
                                 /\ ~impl[i].deleted
      BY <2>1 DEF Cached
    <2> QED
      BY <2>1, <2>2 DEF Cached, CacheSound, Live
  <1> QED
    BY <1>1, FoldersSound, PTL
==============================================================================
