--------------------------- MODULE UndoStackProofs ---------------------------
(***************************************************************************)
(* Undo and redo lead along the texts the edits led through, and a buffer  *)
(* that says it is unmodified has the saved text: for every alphabet, any  *)
(* text lengths and any number of edits, groups and nested actions.        *)
(***************************************************************************)
EXTENDS UndoStack, SequenceTheorems, TLAPS

-----------------------------------------------------------------------------
(* Lemmas about texts *)

\* Texts put one after the other are a text,
LEMMA ConcatText ==
  ASSUME NEW u \in Text, NEW v \in Text
  PROVE  /\ u \o v \in Text
         /\ Len(u \o v) = Len(u) + Len(v)
         /\ Len(u) \in Nat
         /\ Len(v) \in Nat
         /\ \A i \in 1 .. Len(u) + Len(v) :
              (u \o v)[i] = IF i <= Len(u) THEN u[i] ELSE v[i - Len(u)]
<1>1. Len(u) \in Nat /\ Len(v) \in Nat
  BY LenProperties DEF Text
<1> QED
  BY <1>1, ConcatProperties, Zenon DEF Text

\* in whatever order they are put together.
LEMMA ConcatTextAssociative ==
  ASSUME NEW u \in Text, NEW v \in Text, NEW w \in Text
  PROVE  (u \o v) \o w = u \o (v \o w)
BY ConcatAssociative DEF Text

\* The parts of a text that was put together.
LEMMA ConcatParts ==
  ASSUME NEW u \in Text, NEW v \in Text
  PROVE  /\ SubSeq(u \o v, 1, Len(u)) = u
         /\ SubSeq(u \o v, Len(u) + 1, Len(u) + Len(v)) = v
<1> DEFINE x == u \o v
<1>1. /\ x \in Text
      /\ Len(x) = Len(u) + Len(v)
      /\ Len(u) \in Nat
      /\ Len(v) \in Nat
      /\ \A i \in 1 .. Len(u) + Len(v) : x[i] = IF i <= Len(u) THEN u[i] ELSE v[i - Len(u)]
  BY ConcatText
<1> HIDE DEF x
<1>2. \A i \in 1 .. Len(x) : x[i] \in Char
  BY <1>1, ElementOfSeq DEF Text
<1>3. SubSeq(x, 1, Len(u)) = u
  <2>1. /\ SubSeq(x, 1, Len(u)) \in Seq(Char)
        /\ Len(SubSeq(x, 1, Len(u))) = Len(u)
        /\ \A i \in 1 .. Len(u) : SubSeq(x, 1, Len(u))[i] = x[i]
    BY <1>1, <1>2, SubSeqProperties
  <2>2. \A i \in 1 .. Len(u) : x[i] = u[i]
    BY <1>1
  <2> QED
    BY <2>1, <2>2, SeqEqual DEF Text
<1>4. SubSeq(x, Len(u) + 1, Len(u) + Len(v)) = v
  <2> DEFINE y == SubSeq(x, Len(u) + 1, Len(u) + Len(v))
  <2>0. \A i \in Len(u) + 1 .. Len(u) + Len(v) : x[i] \in Char
    BY <1>1, <1>2
  <2>1. /\ y \in Seq(Char)
        /\ Len(y) = Len(v)
        /\ \A i \in 1 .. Len(v) : y[i] = x[Len(u) + i]
    BY <1>1, <2>0, SubSeqProperties
  <2> HIDE DEF y
  <2>2. ASSUME NEW i \in 1 .. Len(v) PROVE y[i] = v[i]
    <3>1. y[i] = x[Len(u) + i]
      BY <2>1
    <3>2. /\ Len(u) + i \in 1 .. Len(u) + Len(v)
          /\ ~(Len(u) + i <= Len(u))
          /\ (Len(u) + i) - Len(u) = i
      BY <1>1
    <3> QED
      BY <1>1, <3>1, <3>2
  <2> QED
    BY <2>1, <2>2, SeqEqual DEF Text, y
<1> QED
  BY <1>3, <1>4 DEF x

\* A text splits anywhere.
LEMMA SplitText ==
  ASSUME NEW t \in Text, NEW p \in 0 .. Len(t)
  PROVE  \E u, v \in Text : t = u \o v /\ Len(u) = p
<1> DEFINE u == SubSeq(t, 1, p)
           v == SubSeq(t, p + 1, Len(t))
<1>0. Len(t) \in Nat /\ p \in Nat /\ p <= Len(t)
  BY LenProperties DEF Text
<1>1. \A i \in 1 .. Len(t) : t[i] \in Char
  BY ElementOfSeq DEF Text
<1>2. u \in Text /\ Len(u) = p
  BY <1>0, <1>1, SubSeqProperties DEF Text
<1>3. v \in Text
  <2>1. \A i \in p + 1 .. Len(t) : t[i] \in Char
    BY <1>0, <1>1
  <2> HIDE DEF u
  <2> QED
    BY <1>0, <2>1, SubSeqProperties DEF Text
<1>4. t = u \o v
  <2>1. 1 \in 1 .. Len(t) + 1 /\ p \in 1 - 1 .. Len(t) /\ Len(t) \in p .. Len(t)
    BY <1>0
  <2>2. t \in Seq(Char)
    BY DEF Text
  <2>3. u \o v = SubSeq(t, 1, Len(t))
    BY <2>1, <2>2, ConcatAdjacentSubSeq, Zenon
  <2> QED
    BY <2>2, <2>3, SubSeqFull
<1> HIDE DEF u, v
<1> QED
  BY <1>2, <1>3, <1>4

\* Insertion between two parts of a text.
LEMMA InsertBetween ==
  ASSUME NEW u \in Text, NEW v \in Text, NEW s \in Text
  PROVE  InsertAt(u \o v, Len(u), s) = (u \o s) \o v
<1>1. Len(u \o v) = Len(u) + Len(v)
  BY ConcatText
<1>2. SubSeq(u \o v, 1, Len(u)) = u /\ SubSeq(u \o v, Len(u) + 1, Len(u) + Len(v)) = v
  BY ConcatParts
<1>3. SubSeq(u \o v, Len(u) + 1, Len(u \o v)) = v
  BY <1>1, <1>2
<1> QED
  BY <1>2, <1>3, Zenon DEF InsertAt

\* Deletion of the middle one of three parts of a text.
LEMMA DeleteBetween ==
  ASSUME NEW u \in Text, NEW s \in Text, NEW v \in Text
  PROVE  DeleteAt((u \o s) \o v, Len(u), Len(s)) = u \o v
<1>1. u \o s \in Text /\ s \o v \in Text /\ Len(u \o s) = Len(u) + Len(s)
  BY ConcatText
<1>2. /\ Len((u \o s) \o v) = Len(u \o s) + Len(v)
      /\ SubSeq((u \o s) \o v, Len(u \o s) + 1, Len(u \o s) + Len(v)) = v
  BY <1>1, ConcatText, ConcatParts
<1>3. SubSeq(u \o (s \o v), 1, Len(u)) = u
  BY <1>1, ConcatParts
<1> QED
  BY <1>1, <1>2, <1>3, ConcatTextAssociative DEF DeleteAt

\* Deleting what was inserted restores the text.
LEMMA DeleteInserted ==
  ASSUME NEW t \in Text, NEW p \in 0 .. Len(t), NEW s \in Text
  PROVE  /\ InsertAt(t, p, s) \in Text
         /\ Len(InsertAt(t, p, s)) = Len(t) + Len(s)
         /\ DeleteAt(InsertAt(t, p, s), p, Len(s)) = t
<1>1. PICK u \in Text, v \in Text : t = u \o v /\ Len(u) = p
  BY SplitText
<1>2. InsertAt(t, p, s) = (u \o s) \o v
  BY <1>1, InsertBetween
<1>3. u \o s \in Text /\ Len(u \o s) = Len(u) + Len(s) /\ Len(t) = Len(u) + Len(v)
  BY <1>1, ConcatText
<1>4. /\ (u \o s) \o v \in Text
      /\ Len((u \o s) \o v) = Len(u) + Len(s) + Len(v)
      /\ Len(u) \in Nat /\ Len(v) \in Nat /\ Len(s) \in Nat
  BY <1>3, ConcatText
<1>5. DeleteAt(InsertAt(t, p, s), p, Len(s)) = t
  <2>1. DeleteAt((u \o s) \o v, Len(u), Len(s)) = u \o v
    BY DeleteBetween
  <2> QED
    BY <1>1, <1>2, <2>1, Zenon
<1>6. Len(InsertAt(t, p, s)) = Len(t) + Len(s)
  BY <1>2, <1>3, <1>4
<1> QED
  BY <1>2, <1>4, <1>5, <1>6, Zenon

\* Inserting what was deleted restores the text.
LEMMA InsertDeleted ==
  ASSUME NEW t \in Text, NEW p \in Nat, NEW n \in Nat, p + n <= Len(t)
  PROVE  /\ SubSeq(t, p + 1, p + n) \in Text
         /\ Len(SubSeq(t, p + 1, p + n)) = n
         /\ DeleteAt(t, p, n) \in Text
         /\ Len(DeleteAt(t, p, n)) = Len(t) - n
         /\ InsertAt(DeleteAt(t, p, n), p, SubSeq(t, p + 1, p + n)) = t
<1>0. Len(t) \in Nat
  BY LenProperties DEF Text
<1>1. PICK x \in Text, v \in Text : t = x \o v /\ Len(x) = p + n
  <2>1. p + n \in 0 .. Len(t)
    BY <1>0
  <2> QED
    BY <2>1, SplitText, Zenon
<1>2. PICK u \in Text, s \in Text : x = u \o s /\ Len(u) = p
  <2>1. p \in 0 .. Len(x)
    BY <1>1
  <2> QED
    BY <2>1, SplitText, Zenon
<1>3. Len(x) = Len(u) + Len(s) /\ Len(t) = Len(x) + Len(v) /\ Len(s) \in Nat /\ Len(v) \in Nat
  BY <1>1, <1>2, ConcatText
<1>4. Len(s) = n
  BY <1>1, <1>2, <1>3
<1>5. SubSeq(t, p + 1, p + n) = s
  <2>1. s \o v \in Text /\ t = u \o (s \o v)
    <3>0. s \o v \in Text
      BY ConcatText
    <3>1. (u \o s) \o v = u \o (s \o v)
      BY ConcatTextAssociative, SMTT(30)
    <3>2. t = (u \o s) \o v
      BY <1>1, <1>2
    <3> QED
      BY <3>0, <3>1, <3>2, Zenon
  <2>2. SubSeq(x, p + 1, p + n) = s
    BY <1>2, <1>4, ConcatParts
  <2>3. CASE n = 0
    <3>1. s = <<>>
      BY <1>4, <2>3, EmptySeq DEF Text
    <3>2. SubSeq(t, p + 1, p + n) = <<>>
      BY <2>3, SubSeqEmpty
    <3> QED
      BY <3>1, <3>2
  <2>4. CASE n > 0
    <3>1. p + 1 \in 1 .. Len(x) /\ p + n \in 1 .. Len(x)
      BY <1>1, <2>4
    <3> QED
      BY <1>1, <2>2, <3>1, SubSeqOfConcat1 DEF Text
  <2> QED
    BY <2>3, <2>4
<1>6. DeleteAt(t, p, n) = u \o v
  BY <1>1, <1>2, <1>4, DeleteBetween
<1>7. u \o v \in Text /\ Len(u \o v) = Len(u) + Len(v)
  BY ConcatText
<1>8. InsertAt(u \o v, p, s) = t
  BY <1>1, <1>2, InsertBetween
<1>9. Len(DeleteAt(t, p, n)) = Len(t) - n
  <2>1. Len(x) = p + n /\ Len(u) = p
    BY <1>1, <1>2
  <2>2. Len(u \o v) = Len(t) - n
    BY <1>3, <1>7, <2>1
  <2> QED
    BY <1>6, <2>2, Zenon
<1> QED
  BY <1>4, <1>5, <1>6, <1>7, <1>8, <1>9

\* Text inserted behind or before other inserted text is one insertion.
LEMMA InsertJoined ==
  ASSUME NEW t \in Text, NEW p \in 0 .. Len(t), NEW r \in Text, NEW s \in Text
  PROVE  /\ InsertAt(InsertAt(t, p, r), p + Len(r), s) = InsertAt(t, p, r \o s)
         /\ InsertAt(InsertAt(t, p, s), p, r) = InsertAt(t, p, r \o s)
<1>1. PICK u \in Text, v \in Text : t = u \o v /\ Len(u) = p
  BY SplitText
<1>2. r \o s \in Text /\ u \o r \in Text /\ s \o v \in Text /\ Len(u \o r) = p + Len(r)
  BY <1>1, ConcatText
<1>3. InsertAt(t, p, r \o s) = (u \o (r \o s)) \o v
  BY <1>1, <1>2, InsertBetween
<1>4. InsertAt(t, p, r) = (u \o r) \o v
  BY <1>1, InsertBetween
<1>5. InsertAt(InsertAt(t, p, r), p + Len(r), s) = ((u \o r) \o s) \o v
  <2>1. InsertAt((u \o r) \o v, Len(u \o r), s) = ((u \o r) \o s) \o v
    BY <1>2, InsertBetween
  <2> QED
    BY <1>2, <1>4, <2>1, Zenon
<1>6. InsertAt(t, p, s) = u \o (s \o v)
  <2>1. InsertAt(u \o v, Len(u), s) = (u \o s) \o v
    BY InsertBetween
  <2>2. (u \o s) \o v = u \o (s \o v)
    BY ConcatTextAssociative
  <2> QED
    BY <1>1, <2>1, <2>2, Zenon
<1>7. InsertAt(InsertAt(t, p, s), p, r) = (u \o r) \o (s \o v)
  <2>1. InsertAt(u \o (s \o v), Len(u), r) = (u \o r) \o (s \o v)
    BY <1>2, InsertBetween
  <2> QED
    BY <1>1, <1>6, <2>1, Zenon
<1>8. /\ (u \o r) \o s = u \o (r \o s)
      /\ (u \o r) \o (s \o v) = ((u \o r) \o s) \o v
  <2>1. (u \o r) \o s = u \o (r \o s)
    BY ConcatTextAssociative
  <2> DEFINE y == u \o r
  <2>2. y \in Text
    BY <1>2
  <2> HIDE DEF y
  <2>3. (y \o s) \o v = y \o (s \o v)
    BY <2>2, ConcatTextAssociative
  <2> QED
    BY <2>1, <2>3, Zenon DEF y
<1> QED
  BY <1>3, <1>5, <1>7, <1>8, Zenon

-----------------------------------------------------------------------------
(* Lemmas about stacks *)

Stack == Seq(Action)

\* Pushing on a stack of actions gives one.
LEMMA PushStack ==
  ASSUME NEW s \in Stack, NEW a \in Action
  PROVE  /\ Push(a, s) \in Stack
         /\ Len(s) \in Nat
         /\ Len(Push(a, s)) = Len(s) + 1
         /\ DOMAIN Push(a, s) = 1 .. Len(s) + 1
         /\ Push(a, s)[1] = a
         /\ \A k \in 1 .. Len(s) : Push(a, s)[k + 1] = s[k]
         /\ Push(a, s) # <<>>
<1>1. <<a>> \in Seq(Action) /\ Len(<<a>>) = 1 /\ <<a>>[1] = a
  OBVIOUS
<1>2. /\ Push(a, s) \in Seq(Action)
      /\ Len(Push(a, s)) = 1 + Len(s)
      /\ \A i \in 1 .. 1 + Len(s) : Push(a, s)[i] = IF i <= 1 THEN <<a>>[i] ELSE s[i - 1]
  BY <1>1, ConcatProperties, Zenon DEF Push, Stack
<1>3. Len(s) \in Nat
  BY LenProperties DEF Stack
<1> DEFINE p == Push(a, s)
<1>4. DOMAIN p = 1 .. Len(p)
  BY <1>2, LenProperties
<1> HIDE DEF p
<1>5. p[1] = a
  BY <1>1, <1>2, <1>3 DEF p
<1>6. \A k \in 1 .. Len(s) : p[k + 1] = s[k]
  <2>1. SUFFICES ASSUME NEW k \in 1 .. Len(s) PROVE p[k + 1] = s[k]
    OBVIOUS
  <2>2. k + 1 \in 1 .. 1 + Len(s) /\ ~(k + 1 <= 1) /\ (k + 1) - 1 = k
    BY <1>3
  <2> QED
    BY <1>2, <2>2 DEF p
<1>7. p # <<>>
  BY <1>2, <1>3 DEF p
<1> QED
  BY <1>2, <1>3, <1>4, <1>5, <1>6, <1>7 DEF p, Stack

\* A stack that is not empty is its head pushed on its tail.
LEMMA HeadOfStack ==
  ASSUME NEW s \in Stack, s # <<>>
  PROVE  /\ s[1] \in Action
         /\ Tail(s) \in Stack
         /\ s = Push(s[1], Tail(s))
         /\ Len(s) = Len(Tail(s)) + 1
<1>1. /\ Tail(s) \in Seq(Action)
      /\ Len(Tail(s)) = Len(s) - 1
      /\ \A i \in 1 .. Len(Tail(s)) : Tail(s)[i] = s[i + 1]
  BY HeadTailProperties DEF Stack
<1>2. Len(s) \in Nat \ {0}
  BY EmptySeq DEF Stack
<1>3. s[1] \in Action
  BY <1>2, ElementOfSeq DEF Stack
<1> DEFINE t == Tail(s)
           p == Push(s[1], t)
<1>4. /\ p \in Stack
      /\ Len(p) = Len(t) + 1
      /\ p[1] = s[1]
      /\ \A k \in 1 .. Len(t) : p[k + 1] = t[k]
  BY <1>1, <1>3, PushStack DEF Stack
<1> HIDE DEF p, t
<1>5. ASSUME NEW i \in 1 .. Len(s) PROVE s[i] = p[i]
  <2>1. CASE i = 1
    BY <2>1, <1>4
  <2>2. CASE i # 1
    <3>1. i - 1 \in 1 .. Len(t) /\ (i - 1) + 1 = i
      BY <1>1, <1>2, <2>2 DEF t
    <3>2. p[(i - 1) + 1] = t[i - 1] /\ t[i - 1] = s[(i - 1) + 1]
      BY <1>1, <1>4, <3>1 DEF t
    <3> QED
      BY <3>1, <3>2
  <2> QED
    BY <2>1, <2>2
<1>6. Len(s) = Len(p)
  BY <1>1, <1>2, <1>4 DEF t
<1>7. s = p
  BY <1>4, <1>5, <1>6, SeqEqual DEF Stack
<1> QED
  BY <1>1, <1>2, <1>3, <1>7 DEF p, t, Stack

\* a leads from one text to another by what it inserts or deletes.
Sound(a) ==
  \/ a.type = "insert" /\ a.pos \in 0 .. Len(a.from) /\ a.to = InsertedText(a, a.from)
  \/ a.type = "delete" /\ a.pos \in 0 .. Len(a.to) /\ a.from = InsertedText(a, a.to)

\* An action undone, and redone, leads between the same two texts.
LEMMA SoundUndoneRedone ==
  ASSUME NEW a \in Action, Sound(a)
  PROVE  Undone(a, a.to) = a.from /\ Redone(a, a.from) = a.to
<1>1. a.from \in Text /\ a.to \in Text /\ a.str \in Text
  BY DEF Action
<1>2. CASE a.type = "insert"
  BY <1>1, <1>2, DeleteInserted DEF Sound, Undone, Redone, InsertedText, DeletedText
<1>3. CASE a.type = "delete"
  BY <1>1, <1>3, DeleteInserted DEF Sound, Undone, Redone, InsertedText, DeletedText
<1> QED
  BY <1>2, <1>3 DEF Action

\* Undoing the actions of s one after another leads away from text t.
UndoChain(s, t) ==
  \A k \in 1 .. Len(s) : Sound(s[k]) /\ s[k].to = IF k = 1 THEN t ELSE s[k - 1].from

\* Redoing the actions of s one after another leads away from text t.
RedoChain(s, t) ==
  \A k \in 1 .. Len(s) : Sound(s[k]) /\ s[k].from = IF k = 1 THEN t ELSE s[k - 1].to

\* When a stack with one more action is a chain to undo,
LEMMA UndoChainPush ==
  ASSUME NEW s \in Stack, NEW a \in Action
  PROVE  UndoChain(Push(a, s), a.to) <=> Sound(a) /\ UndoChain(s, a.from)
<1> DEFINE p == Push(a, s)
<1>1. /\ Len(s) \in Nat /\ Len(p) = Len(s) + 1
      /\ p[1] = a
      /\ \A k \in 1 .. Len(s) : p[k + 1] = s[k]
  BY PushStack
<1> HIDE DEF p
<1>2. ASSUME UndoChain(p, a.to) PROVE Sound(a)
  <2>1. 1 \in 1 .. Len(p)
    BY <1>1
  <2> QED
    BY <1>1, <1>2, <2>1 DEF UndoChain
<1>3. ASSUME UndoChain(p, a.to), NEW k \in 1 .. Len(s)
      PROVE  Sound(s[k]) /\ s[k].to = IF k = 1 THEN a.from ELSE s[k - 1].from
  <2>1. k + 1 \in 1 .. Len(p) /\ k + 1 # 1 /\ (k + 1) - 1 = k
    BY <1>1
  <2>2. Sound(s[k]) /\ s[k].to = p[k].from
    BY <1>1, <1>3, <2>1 DEF UndoChain
  <2>3. CASE k = 1
    BY <1>1, <2>2, <2>3
  <2>4. CASE k # 1
    <3>1. k - 1 \in 1 .. Len(s) /\ (k - 1) + 1 = k
      BY <1>1, <2>4
    <3>2. p[k] = s[k - 1]
      BY <1>1, <3>1
    <3> QED
      BY <2>2, <2>4, <3>2
  <2> QED
    BY <2>3, <2>4
<1>4. ASSUME Sound(a), UndoChain(s, a.from), NEW k \in 1 .. Len(p)
      PROVE  Sound(p[k]) /\ p[k].to = IF k = 1 THEN a.to ELSE p[k - 1].from
  <2>1. CASE k = 1
    BY <1>1, <1>4, <2>1
  <2>2. CASE k # 1
    <3>1. k - 1 \in 1 .. Len(s) /\ (k - 1) + 1 = k
      BY <1>1, <2>2
    <3>2. p[k] = s[k - 1]
      BY <1>1, <3>1
    <3>3. Sound(p[k]) /\ p[k].to = IF k - 1 = 1 THEN a.from ELSE s[(k - 1) - 1].from
      BY <1>4, <3>1, <3>2 DEF UndoChain
    <3>4. CASE k = 2
      BY <1>1, <3>3, <3>4
    <3>5. CASE k # 2
      <4>1. k - 2 \in 1 .. Len(s) /\ (k - 2) + 1 = k - 1 /\ (k - 1) - 1 = k - 2 /\ k - 1 # 1
        BY <2>2, <3>1, <3>5
      <4>2. p[k - 1] = s[k - 2]
        BY <1>1, <4>1
      <4> QED
        BY <2>2, <3>3, <4>1, <4>2
    <3> QED
      BY <3>4, <3>5
  <2> QED
    BY <2>1, <2>2
<1> QED
  BY <1>2, <1>3, <1>4 DEF p, UndoChain

\* and when it is a chain to redo.
LEMMA RedoChainPush ==
  ASSUME NEW s \in Stack, NEW a \in Action
  PROVE  RedoChain(Push(a, s), a.from) <=> Sound(a) /\ RedoChain(s, a.to)
<1> DEFINE p == Push(a, s)
<1>1. /\ Len(s) \in Nat /\ Len(p) = Len(s) + 1
      /\ p[1] = a
      /\ \A k \in 1 .. Len(s) : p[k + 1] = s[k]
  BY PushStack
<1> HIDE DEF p
<1>2. ASSUME RedoChain(p, a.from) PROVE Sound(a)
  <2>1. 1 \in 1 .. Len(p)
    BY <1>1
  <2> QED
    BY <1>1, <1>2, <2>1 DEF RedoChain
<1>3. ASSUME RedoChain(p, a.from), NEW k \in 1 .. Len(s)
      PROVE  Sound(s[k]) /\ s[k].from = IF k = 1 THEN a.to ELSE s[k - 1].to
  <2>1. k + 1 \in 1 .. Len(p) /\ k + 1 # 1 /\ (k + 1) - 1 = k
    BY <1>1
  <2>2. Sound(s[k]) /\ s[k].from = p[k].to
    BY <1>1, <1>3, <2>1 DEF RedoChain
  <2>3. CASE k = 1
    BY <1>1, <2>2, <2>3
  <2>4. CASE k # 1
    <3>1. k - 1 \in 1 .. Len(s) /\ (k - 1) + 1 = k
      BY <1>1, <2>4
    <3>2. p[k] = s[k - 1]
      BY <1>1, <3>1
    <3> QED
      BY <2>2, <2>4, <3>2
  <2> QED
    BY <2>3, <2>4
<1>4. ASSUME Sound(a), RedoChain(s, a.to), NEW k \in 1 .. Len(p)
      PROVE  Sound(p[k]) /\ p[k].from = IF k = 1 THEN a.from ELSE p[k - 1].to
  <2>1. CASE k = 1
    BY <1>1, <1>4, <2>1
  <2>2. CASE k # 1
    <3>1. k - 1 \in 1 .. Len(s) /\ (k - 1) + 1 = k
      BY <1>1, <2>2
    <3>2. p[k] = s[k - 1]
      BY <1>1, <3>1
    <3>3. Sound(p[k]) /\ p[k].from = IF k - 1 = 1 THEN a.to ELSE s[(k - 1) - 1].to
      BY <1>4, <3>1, <3>2 DEF RedoChain
    <3>4. CASE k = 2
      BY <1>1, <3>3, <3>4
    <3>5. CASE k # 2
      <4>1. k - 2 \in 1 .. Len(s) /\ (k - 2) + 1 = k - 1 /\ (k - 1) - 1 = k - 2 /\ k - 1 # 1
        BY <2>2, <3>1, <3>5
      <4>2. p[k - 1] = s[k - 2]
        BY <1>1, <4>1
      <4> QED
        BY <2>2, <3>3, <4>1, <4>2
    <3> QED
      BY <3>4, <3>5
  <2> QED
    BY <2>1, <2>2
<1> QED
  BY <1>2, <1>3, <1>4 DEF p, RedoChain

OnlyOnce(s) == \A i, j \in 1 .. Len(s) : s[i].id = s[j].id => i = j

OldestOpens(s) == s # <<>> => s[Len(s)].opens

\* The action with address m in s leads from, or to, text x.
LeadsFrom(m, s, x) == \E k \in 1 .. Len(s) : s[k].id = m /\ s[k].from = x
LeadsTo(m, s, x) == \E k \in 1 .. Len(s) : s[k].id = m /\ s[k].to = x

\* The actions of a stack after a push,
LEMMA ElementsOfPush ==
  ASSUME NEW s \in Stack, NEW a \in Action
  PROVE  /\ 1 \in 1 .. Len(Push(a, s)) /\ Push(a, s)[1] = a
         /\ \A k \in 1 .. Len(s) : k + 1 \in 1 .. Len(Push(a, s)) /\ Push(a, s)[k + 1] = s[k]
         /\ \A k \in 1 .. Len(Push(a, s)) :
              k = 1 \/ (k - 1 \in 1 .. Len(s) /\ Push(a, s)[k] = s[k - 1])
<1> DEFINE p == Push(a, s)
<1>1. /\ Len(s) \in Nat /\ Len(p) = Len(s) + 1
      /\ p[1] = a
      /\ \A k \in 1 .. Len(s) : p[k + 1] = s[k]
  BY PushStack
<1> HIDE DEF p
<1>2. ASSUME NEW k \in 1 .. Len(p), k # 1 PROVE k - 1 \in 1 .. Len(s) /\ p[k] = s[k - 1]
  <2>1. k - 1 \in 1 .. Len(s) /\ (k - 1) + 1 = k
    BY <1>1, <1>2
  <2> QED
    BY <1>1, <2>1
<1>3. ASSUME NEW k \in 1 .. Len(s) PROVE k + 1 \in 1 .. Len(p)
  BY <1>1
<1>4. 1 \in 1 .. Len(p)
  BY <1>1
<1> QED
  BY <1>1, <1>2, <1>3, <1>4 DEF p

\* the ids in a stack,
LEMMA IdsOfStack ==
  ASSUME NEW s \in Stack
  PROVE  IdsOf(s) = {s[k].id : k \in 1 .. Len(s)}
BY LenProperties DEF IdsOf, Stack

\* and those after a push.
LEMMA IdsOfPush ==
  ASSUME NEW s \in Stack, NEW a \in Action
  PROVE  /\ IdsOf(Push(a, s)) = {a.id} \cup IdsOf(s)
         /\ OnlyOnce(Push(a, s)) <=> a.id \notin IdsOf(s) /\ OnlyOnce(s)
<1> DEFINE p == Push(a, s)
<1>1. /\ 1 \in 1 .. Len(p) /\ p[1] = a
      /\ \A k \in 1 .. Len(s) : k + 1 \in 1 .. Len(p) /\ p[k + 1] = s[k]
      /\ \A k \in 1 .. Len(p) : k = 1 \/ (k - 1 \in 1 .. Len(s) /\ p[k] = s[k - 1])
  BY ElementsOfPush
<1>2. /\ IdsOf(s) = {s[k].id : k \in 1 .. Len(s)}
      /\ IdsOf(p) = {p[k].id : k \in 1 .. Len(p)}
      /\ Len(s) \in Nat /\ Len(p) \in Nat
  BY IdsOfStack, PushStack
<1> HIDE DEF p
<1>3. IdsOf(p) = {a.id} \cup IdsOf(s)
  <2>1. ASSUME NEW k \in 1 .. Len(p) PROVE p[k].id \in {a.id} \cup IdsOf(s)
    BY <1>1, <1>2
  <2>2. a.id \in IdsOf(p)
    BY <1>1, <1>2
  <2>3. ASSUME NEW k \in 1 .. Len(s) PROVE s[k].id \in IdsOf(p)
    BY <1>1, <1>2
  <2> QED
    BY <1>2, <2>1, <2>2, <2>3
<1>4. ASSUME OnlyOnce(p) PROVE a.id \notin IdsOf(s) /\ OnlyOnce(s)
  <2>1. ASSUME NEW k \in 1 .. Len(s) PROVE s[k].id # a.id
    <3>1. k + 1 # 1 /\ k + 1 \in 1 .. Len(p) /\ p[k + 1] = s[k]
      BY <1>1, <1>2
    <3> QED
      BY <1>1, <1>4, <3>1 DEF OnlyOnce
  <2>2. ASSUME NEW i \in 1 .. Len(s), NEW j \in 1 .. Len(s), s[i].id = s[j].id PROVE i = j
    <3>1. i + 1 = j + 1
      BY <1>1, <1>4, <2>2, SMTT(30) DEF OnlyOnce
    <3> QED
      BY <1>2, <3>1
  <2> QED
    BY <1>2, <2>1, <2>2 DEF OnlyOnce
<1>5. ASSUME a.id \notin IdsOf(s), OnlyOnce(s),
             NEW i \in 1 .. Len(p), NEW j \in 1 .. Len(p), p[i].id = p[j].id
      PROVE  i = j
  <2>1. CASE i = 1 /\ j = 1
    BY <2>1
  <2>2. CASE i # 1 /\ j # 1
    <3>0. /\ i - 1 \in 1 .. Len(s) /\ j - 1 \in 1 .. Len(s)
          /\ s[i - 1].id = s[j - 1].id
      BY <1>1, <1>5, <2>2
    <3>1. i - 1 = j - 1
      BY <1>5, <3>0, Zenon DEF OnlyOnce
    <3> QED
      BY <1>2, <3>1
  <2>3. CASE i = 1 /\ j # 1
    <3>1. p[j].id \in IdsOf(s)
      BY <1>1, <1>2, <2>3
    <3> QED
      BY <1>1, <1>5, <2>3, <3>1
  <2>4. CASE i # 1 /\ j = 1
    <3>1. p[i].id \in IdsOf(s)
      BY <1>1, <1>2, <2>4
    <3>2. p[i].id = a.id
      BY <1>1, <1>5, <2>4
    <3> QED
      BY <1>5, <3>1, <3>2
  <2> QED
    BY <2>1, <2>2, <2>3, <2>4
<1>6. a.id \notin IdsOf(s) /\ OnlyOnce(s) => OnlyOnce(p)
  BY <1>5 DEF OnlyOnce
<1> QED
  BY <1>3, <1>4, <1>6 DEF p

\* The text the action with an id leads from, after a push,
LEMMA LeadsFromPush ==
  ASSUME NEW s \in Stack, NEW a \in Action, NEW m, NEW x
  PROVE  LeadsFrom(m, Push(a, s), x) <=> (a.id = m /\ a.from = x) \/ LeadsFrom(m, s, x)
<1>1. ASSUME LeadsFrom(m, Push(a, s), x) PROVE (a.id = m /\ a.from = x) \/ LeadsFrom(m, s, x)
  <2>1. PICK k \in 1 .. Len(Push(a, s)) : Push(a, s)[k].id = m /\ Push(a, s)[k].from = x
    BY <1>1 DEF LeadsFrom
  <2> QED
    BY <2>1, ElementsOfPush DEF LeadsFrom
<1>2. ASSUME a.id = m, a.from = x PROVE LeadsFrom(m, Push(a, s), x)
  BY <1>2, ElementsOfPush DEF LeadsFrom
<1>3. ASSUME LeadsFrom(m, s, x) PROVE LeadsFrom(m, Push(a, s), x)
  <2>1. PICK k \in 1 .. Len(s) : s[k].id = m /\ s[k].from = x
    BY <1>3 DEF LeadsFrom
  <2> QED
    BY <2>1, ElementsOfPush DEF LeadsFrom
<1> QED
  BY <1>1, <1>2, <1>3

\* and the one it leads to.
LEMMA LeadsToPush ==
  ASSUME NEW s \in Stack, NEW a \in Action, NEW m, NEW x
  PROVE  LeadsTo(m, Push(a, s), x) <=> (a.id = m /\ a.to = x) \/ LeadsTo(m, s, x)
<1>1. ASSUME LeadsTo(m, Push(a, s), x) PROVE (a.id = m /\ a.to = x) \/ LeadsTo(m, s, x)
  <2>1. PICK k \in 1 .. Len(Push(a, s)) : Push(a, s)[k].id = m /\ Push(a, s)[k].to = x
    BY <1>1 DEF LeadsTo
  <2> QED
    BY <2>1, ElementsOfPush DEF LeadsTo
<1>2. ASSUME a.id = m, a.to = x PROVE LeadsTo(m, Push(a, s), x)
  BY <1>2, ElementsOfPush DEF LeadsTo
<1>3. ASSUME LeadsTo(m, s, x) PROVE LeadsTo(m, Push(a, s), x)
  <2>1. PICK k \in 1 .. Len(s) : s[k].id = m /\ s[k].to = x
    BY <1>3 DEF LeadsTo
  <2> QED
    BY <2>1, ElementsOfPush DEF LeadsTo
<1> QED
  BY <1>1, <1>2, <1>3

\* Only what is in the stack leads anywhere.
LEMMA LeadsInIds ==
  ASSUME NEW s \in Stack, NEW m, NEW x
  PROVE  /\ LeadsFrom(m, s, x) => m \in IdsOf(s)
         /\ LeadsTo(m, s, x) => m \in IdsOf(s)
BY IdsOfStack DEF LeadsFrom, LeadsTo

\* Whether the oldest action of a stack opens a group, after a push.
LEMMA OldestOpensPush ==
  ASSUME NEW s \in Stack, NEW a \in Action
  PROVE  OldestOpens(Push(a, s)) <=> IF s = <<>> THEN a.opens ELSE OldestOpens(s)
<1>1. /\ Len(s) \in Nat /\ Len(Push(a, s)) = Len(s) + 1
      /\ Push(a, s)[1] = a
      /\ \A k \in 1 .. Len(s) : Push(a, s)[k + 1] = s[k]
      /\ Push(a, s) # <<>>
  BY PushStack
<1>2. CASE s = <<>>
  <2>1. Push(a, s)[Len(Push(a, s))] = a
    BY <1>1, <1>2
  <2> QED
    BY <1>1, <1>2, <2>1 DEF OldestOpens
<1>3. CASE s # <<>>
  <2>1. Len(s) \in 1 .. Len(s)
    BY <1>1, <1>3, EmptySeq DEF Stack
  <2>2. Push(a, s)[Len(Push(a, s))] = s[Len(s)]
    BY <1>1, <2>1
  <2> QED
    BY <1>1, <1>3, <2>2 DEF OldestOpens
<1> QED
  BY <1>2, <1>3

\* The empty stack is in order.
LEMMA EmptyStack ==
  /\ <<>> \in Stack
  /\ \A t : UndoChain(<<>>, t) /\ RedoChain(<<>>, t)
  /\ OnlyOnce(<<>>)
  /\ OldestOpens(<<>>)
  /\ IdsOf(<<>>) = {}
  /\ \A m, x : ~LeadsFrom(m, <<>>, x) /\ ~LeadsTo(m, <<>>, x)
BY DEF Stack, UndoChain, RedoChain, OnlyOnce, OldestOpens, IdsOf, LeadsFrom, LeadsTo

-----------------------------------------------------------------------------
(* Lemmas about merging *)

\* An action that takes in the next one leads over both.
LEMMA MergedSound ==
  ASSUME NEW last \in Action, NEW a \in Action, NEW m,
         Sound(last), Sound(a), a.from = last.to, Merges(last, a, m)
  PROVE  /\ Merged(last, a) \in Action
         /\ Sound(Merged(last, a))
         /\ Merged(last, a).id = last.id
         /\ Merged(last, a).opens = last.opens
         /\ Merged(last, a).from = last.from
         /\ Merged(last, a).to = a.to
<1> DEFINE b == Merged(last, a)
<1>0. /\ last.str \in Text /\ a.str \in Text /\ last.from \in Text /\ a.from \in Text
      /\ last.to \in Text /\ a.to \in Text /\ last.pos \in Nat /\ a.pos \in Nat
      /\ last.type = a.type
  BY DEF Action, Merges
<1>1. Len(last.str) \in Nat /\ Len(a.str) \in Nat
  BY <1>0, ConcatText
<1>2. last.str \o a.str \in Text /\ a.str \o last.str \in Text
  BY <1>0, ConcatText
<1>3. /\ b \in Action /\ b.id = last.id /\ b.opens = last.opens
      /\ b.from = last.from /\ b.to = a.to /\ b.type = last.type
  BY <1>0, <1>2 DEF Merged, Action
<1>4. CASE a.type = "insert"
  <2>1. a.pos = last.pos + Len(last.str)
    BY <1>4, Zenon DEF Merges, Continues
  <2>2. b.pos = last.pos /\ b.str = last.str \o a.str
    BY <1>0, <1>4 DEF Merged, Action
  <2>3. /\ last.pos \in 0 .. Len(last.from)
        /\ last.to = InsertAt(last.from, last.pos, last.str)
        /\ a.to = InsertAt(a.from, a.pos, a.str)
    BY <1>0, <1>4 DEF Sound, InsertedText
  <2>4. InsertAt(InsertAt(last.from, last.pos, last.str), last.pos + Len(last.str), a.str)
          = InsertAt(last.from, last.pos, last.str \o a.str)
    <3>1. /\ last.from \in Text /\ last.str \in Text /\ a.str \in Text
          /\ last.pos \in 0 .. Len(last.from)
      BY <1>0, <2>3, Zenon
    <3> QED
      BY <3>1, InsertJoined, Zenon
  <2>5. b.to = InsertAt(b.from, b.pos, b.str)
    BY <1>3, <2>1, <2>2, <2>3, <2>4, Zenon
  <2> QED
    BY <1>0, <1>3, <1>4, <2>2, <2>3, <2>5 DEF Sound, InsertedText
<1>5. CASE a.type = "delete"
  <2>1. \/ last.pos = a.pos
        \/ last.pos = a.pos + Len(a.str)
    BY <1>5, Zenon DEF Merges, Continues
  <2>2. /\ b.pos = a.pos
        /\ b.str = IF last.pos # a.pos THEN a.str \o last.str ELSE last.str \o a.str
    BY <1>0, <1>5 DEF Merged, Action
  <2>3. /\ last.from = InsertAt(last.to, last.pos, last.str)
        /\ a.pos \in 0 .. Len(a.to)
        /\ a.from = InsertAt(a.to, a.pos, a.str)
    BY <1>0, <1>5 DEF Sound, InsertedText
  <2>4. /\ InsertAt(InsertAt(a.to, a.pos, a.str), a.pos + Len(a.str), last.str)
             = InsertAt(a.to, a.pos, a.str \o last.str)
        /\ InsertAt(InsertAt(a.to, a.pos, a.str), a.pos, last.str)
             = InsertAt(a.to, a.pos, last.str \o a.str)
    <3>1. /\ a.to \in Text /\ last.str \in Text /\ a.str \in Text
          /\ a.pos \in 0 .. Len(a.to)
      BY <1>0, <2>3, Zenon
    <3> QED
      BY <3>1, InsertJoined, Zenon
  <2>5. b.from = InsertAt(b.to, b.pos, b.str)
    <3>1. CASE last.pos = a.pos
      BY <1>3, <2>2, <2>3, <2>4, <3>1, Zenon
    <3>2. CASE last.pos # a.pos
      BY <1>3, <2>1, <2>2, <2>3, <2>4, <3>2, Zenon
    <3> QED
      BY <3>1, <3>2
  <2> QED
    BY <1>0, <1>3, <1>5, <2>2, <2>3, <2>5 DEF Sound, InsertedText
<1>6. Sound(b)
  BY <1>4, <1>5 DEF Action
<1> QED
  BY <1>3, <1>6 DEF b

\* An action that is sealed, or marked as one that opens a group, leads where it did.
LEMMA MarkedSound ==
  ASSUME NEW a \in Action, Sound(a), NEW b \in BOOLEAN
  PROVE  /\ [a EXCEPT !.opens = b] \in Action
         /\ Sound([a EXCEPT !.opens = b])
         /\ [a EXCEPT !.opens = b].id = a.id
         /\ [a EXCEPT !.opens = b].opens = b
         /\ [a EXCEPT !.opens = b].from = a.from
         /\ [a EXCEPT !.opens = b].to = a.to
BY DEF Action, Sound, InsertedText

\* Merging with no more leaves the newest action what it was.
LEMMA SealedSound ==
  ASSUME NEW last \in Action, Sound(last), NEW a \in Action
  PROVE  /\ Sealed(last, a) \in Action
         /\ Sound(Sealed(last, a))
         /\ Sealed(last, a).id = last.id
         /\ Sealed(last, a).opens = last.opens
         /\ Sealed(last, a).from = last.from
         /\ Sealed(last, a).to = last.to
BY DEF Action, Sound, InsertedText, Sealed

-----------------------------------------------------------------------------
(* The inductive invariant *)

Linked ==
  /\ UndoChain(undo_stack, text)
  /\ RedoChain(redo_stack, text)
  /\ OnlyOnce(undo_stack)
  /\ OnlyOnce(redo_stack)
  /\ IdsOf(undo_stack) \cap IdsOf(redo_stack) = {}

SavedFound ==
  /\ ~modified => modifying_action = 0 /\ text = saved
  /\ modifying_action # 0 =>
       \/ LeadsFrom(modifying_action, undo_stack, saved)
       \/ LeadsTo(modifying_action, redo_stack, saved)

Bracketed ==
  /\ continue_group = IF user_action_count > 0 THEN 1 ELSE 0
  /\ walk = "none" =>
       /\ frozen \in Nesting
       /\ frozen > 0 => undo_stack = <<>> /\ redo_stack = <<>>
  /\ walk # "none" => frozen = 1

Grouped ==
  /\ OldestOpens(undo_stack)
  /\ walk = "undo" => undo_stack # <<>>
  /\ walk = "redo" => redo_stack # <<>>
  /\ redo_stack # <<>> /\ (walk = "none" \/ undo_stack = <<>>) => redo_stack[1].opens

Inv == TypeOK /\ Linked /\ SavedFound /\ Bracketed /\ Grouped

\* The invariant holds in the beginning.
LEMMA InitInv == Init => Inv
<1> SUFFICES ASSUME Init PROVE Inv
  OBVIOUS
<1>1. text \in Text /\ saved \in Text
  BY EmptySeq DEF Init, Text
<1>2. undo_stack \in Seq(Action) /\ redo_stack \in Seq(Action)
  BY EmptySeq DEF Init
<1>3. TypeOK
  <2>1. /\ 0 \in Nesting /\ 0 \in 0 .. MaxNesting + 1
        /\ 0 \in ActionIds \cup {0} /\ FALSE \in BOOLEAN
        /\ "none" \in {"none", "undo", "redo"}
    BY UndoStackAssumption DEF Nesting, UndoStackAssumption
  <2> QED
    BY <1>1, <1>2, <2>1, Zenon DEF Init, TypeOK
<1>4. Linked
  BY EmptyStack DEF Init, Linked
<1>5. SavedFound /\ Bracketed /\ Grouped
  BY EmptyStack, UndoStackAssumption
  DEF Init, SavedFound, Bracketed, Grouped, Nesting, UndoStackAssumption
<1> QED
  BY <1>3, <1>4, <1>5 DEF Inv

\* The new undo stack when action a is added; m is modifying_action by then.
LEMMA AddedToStack ==
  ASSUME TypeOK, Linked, OldestOpens(undo_stack),
         NEW a \in Action, Sound(a), a.from = text,
         a.id \notin IdsOf(undo_stack), NEW m, AddAction(a, m)
  PROVE  /\ undo_stack' \in Stack
         /\ undo_stack' # <<>>
         /\ UndoChain(undo_stack', a.to)
         /\ OnlyOnce(undo_stack')
         /\ OldestOpens(undo_stack')
         /\ \A x : LeadsFrom(m, undo_stack, x) => LeadsFrom(m, undo_stack', x)
         /\ m = a.id => LeadsFrom(m, undo_stack', text)
<1>0. undo_stack \in Stack
  BY DEF TypeOK, Stack
<1>1. CASE undo_stack = <<>> \/ new_group
  <2> DEFINE b == [a EXCEPT !.opens = TRUE]
  <2>1. /\ b \in Action /\ Sound(b) /\ b.id = a.id /\ b.opens = TRUE
        /\ b.from = a.from /\ b.to = a.to
    BY MarkedSound
  <2>2. undo_stack' = Push(b, undo_stack)
    BY <1>1 DEF AddAction
  <2> HIDE DEF b
  <2>3. undo_stack' \in Stack /\ undo_stack' # <<>>
    BY <1>0, <2>1, <2>2, PushStack
  <2>4. UndoChain(undo_stack', a.to)
    BY <1>0, <2>1, <2>2, UndoChainPush DEF Linked
  <2>5. OnlyOnce(undo_stack')
    BY <1>0, <2>1, <2>2, IdsOfPush DEF Linked
  <2>6. OldestOpens(undo_stack')
    BY <1>0, <2>1, <2>2, OldestOpensPush
  <2>7. \A x : LeadsFrom(m, undo_stack', x) <=> (b.id = m /\ b.from = x) \/ LeadsFrom(m, undo_stack, x)
    BY <1>0, <2>1, <2>2, LeadsFromPush
  <2> QED
    BY <2>1, <2>3, <2>4, <2>5, <2>6, <2>7
<1>2. CASE undo_stack # <<>> /\ ~new_group
  <2> DEFINE h == undo_stack[1]
             r == Tail(undo_stack)
  <2>1. h \in Action /\ r \in Stack /\ undo_stack = Push(h, r)
    BY <1>0, <1>2, HeadOfStack
  <2>2. UndoChain(undo_stack, text) /\ OnlyOnce(undo_stack)
    BY DEF Linked
  <2>3. h.to = text
    <3>1. 1 \in 1 .. Len(undo_stack)
      BY <1>0, <1>2, EmptySeq DEF Stack
    <3> QED
      BY <2>2, <3>1 DEF UndoChain
  <2>4. CASE Merges(h, a, m)
    <3> DEFINE b == Merged(h, a)
    <3>1. undo_stack' = Push(b, r)
      BY <1>2, <2>4 DEF AddAction
    <3> HIDE DEF h, r
    <3>2. Sound(h) /\ UndoChain(r, h.from)
      BY <2>1, <2>2, <2>3, UndoChainPush
    <3>3. /\ b \in Action /\ Sound(b) /\ b.id = h.id /\ b.opens = h.opens
          /\ b.from = h.from /\ b.to = a.to
      BY <2>1, <2>3, <2>4, <3>2, MergedSound
    <3> HIDE DEF b
    <3>4. undo_stack' \in Stack /\ undo_stack' # <<>>
      BY <2>1, <3>1, <3>3, PushStack
    <3>5. UndoChain(undo_stack', a.to)
      BY <2>1, <3>1, <3>2, <3>3, UndoChainPush
    <3>6. OnlyOnce(undo_stack')
      BY <2>1, <2>2, <3>1, <3>3, IdsOfPush
    <3>7. OldestOpens(undo_stack')
      BY <2>1, <3>1, <3>3, OldestOpensPush
    <3>8. \A x : LeadsFrom(m, undo_stack', x) <=> LeadsFrom(m, undo_stack, x)
      BY <2>1, <3>1, <3>3, LeadsFromPush
    <3>9. m # a.id
      BY <2>4 DEF Merges
    <3> QED
      BY <3>4, <3>5, <3>6, <3>7, <3>8, <3>9
  <2>5. CASE ~Merges(h, a, m)
    <3> DEFINE c == Sealed(h, a)
               q == Push(c, r)
               b == [a EXCEPT !.opens = ~do_continue]
    <3>1. undo_stack' = Push(b, q)
      BY <1>2, <2>5 DEF AddAction
    <3>2. /\ b \in Action /\ Sound(b) /\ b.id = a.id /\ b.from = a.from /\ b.to = a.to
      <4>1. (~do_continue) \in BOOLEAN
        OBVIOUS
      <4> QED
        BY <4>1, MarkedSound
    <3> HIDE DEF h, r, b
    <3>3. Sound(h) /\ UndoChain(r, h.from)
      BY <2>1, <2>2, <2>3, UndoChainPush
    <3>4. /\ c \in Action /\ Sound(c) /\ c.id = h.id /\ c.opens = h.opens
          /\ c.from = h.from /\ c.to = h.to
      BY <2>1, <3>3, SealedSound
    <3> HIDE DEF c
    <3>5. q \in Stack /\ q # <<>>
      BY <2>1, <3>4, PushStack
    <3>6. UndoChain(q, text)
      BY <2>1, <2>3, <3>3, <3>4, UndoChainPush
    <3>7. OnlyOnce(q) /\ a.id \notin IdsOf(q)
      BY <2>1, <2>2, <3>4, IdsOfPush
    <3>8. OldestOpens(q)
      BY <2>1, <3>4, OldestOpensPush
    <3>9. \A x : LeadsFrom(m, q, x) <=> LeadsFrom(m, undo_stack, x)
      BY <2>1, <3>4, LeadsFromPush
    <3> HIDE DEF q
    <3>10. undo_stack' \in Stack /\ undo_stack' # <<>>
      BY <3>1, <3>2, <3>5, PushStack
    <3>11. UndoChain(undo_stack', a.to)
      BY <3>1, <3>2, <3>5, <3>6, UndoChainPush
    <3>12. OnlyOnce(undo_stack')
      BY <3>1, <3>2, <3>5, <3>7, IdsOfPush
    <3>13. OldestOpens(undo_stack')
      BY <3>1, <3>2, <3>5, <3>8, OldestOpensPush
    <3>14. \A x : LeadsFrom(m, undo_stack', x) <=> (b.id = m /\ b.from = x) \/ LeadsFrom(m, q, x)
      BY <3>1, <3>2, <3>5, LeadsFromPush
    <3> QED
      BY <3>2, <3>9, <3>10, <3>11, <3>12, <3>13, <3>14
  <2> QED
    BY <2>4, <2>5
<1> QED
  BY <1>1, <1>2 DEF TypeOK

\* An edit keeps the invariant if the action that records it is sound.
LEMMA EditTextInv ==
  ASSUME Inv, NEW type \in {"insert", "delete"}, NEW p \in Nat, NEW s \in Text,
         NEW forward \in BOOLEAN, NEW t \in Text, EditText(type, p, s, forward, t),
         type = "insert" => p \in 0 .. Len(text) /\ t = InsertAt(text, p, s),
         type = "delete" => p \in 0 .. Len(t) /\ text = InsertAt(t, p, s)
  PROVE  Inv'
<1> DEFINE a == NewAction(type, p, s, forward, t)
           m == IF modified THEN modifying_action ELSE a.id
<1> USE DEF Inv
<1>0. /\ walk = "none" /\ walk' = "none" /\ text' = t /\ modified' = TRUE
      /\ UNCHANGED <<user_action_count, non_interactive, frozen, continue_group, saved>>
  BY DEF EditText
<1>1. CASE frozen > 0
  <2>1. UNCHANGED <<undo_stack, redo_stack, modifying_action, new_group, do_continue>>
    BY <1>1 DEF EditText
  <2>2. undo_stack = <<>> /\ redo_stack = <<>>
    BY <1>0, <1>1 DEF Bracketed
  <2>3. TypeOK'
    BY <1>0, <2>1 DEF TypeOK
  <2>4. Linked'
    BY <2>1, <2>2, EmptyStack DEF Linked
  <2>5. SavedFound'
    BY <1>0, <2>1, <2>2, EmptyStack DEF SavedFound
  <2>6. Bracketed' /\ Grouped'
    BY <1>0, <2>1 DEF Bracketed, Grouped
  <2> QED
    BY <2>3, <2>4, <2>5, <2>6
<1>2. CASE ~(frozen > 0)
  <2>1. FreeIds # {} /\ AddAction(a, m)
    BY <1>2, Zenon DEF EditText
  <2>2. a.id \in ActionIds /\ a.id \notin IdsOf(undo_stack) /\ a.id \notin IdsOf(redo_stack)
    BY <2>1 DEF NewAction, FreeIds
  <2>3. /\ a \in Action /\ a.from = text /\ a.to = t
        /\ a.type = type /\ a.pos = p /\ a.str = s
    <3>1. text \in Text
      BY DEF TypeOK
    <3>2. /\ (non_interactive = 0 /\ user_action_count > 0) \in BOOLEAN
          /\ (forward /\ (non_interactive = 0 /\ user_action_count > 0) /\ type = "delete")
               \in BOOLEAN
          /\ (Len(s) = 1 /\ s[1] \notin Newlines) \in BOOLEAN
      OBVIOUS
    <3>3. (CHOOSE i \in FreeIds : TRUE) \in ActionIds
      BY <2>1 DEF FreeIds
    <3> QED
      BY <3>1, <3>2, <3>3 DEF NewAction, Action
  <2>4. Sound(a)
    BY <2>3 DEF Sound, InsertedText
  <2> HIDE DEF a
  <2>5. TypeOK /\ Linked /\ OldestOpens(undo_stack)
    BY DEF Grouped
  <2>6. /\ undo_stack' \in Stack
        /\ undo_stack' # <<>>
        /\ UndoChain(undo_stack', t)
        /\ OnlyOnce(undo_stack')
        /\ OldestOpens(undo_stack')
        /\ \A x : LeadsFrom(m, undo_stack, x) => LeadsFrom(m, undo_stack', x)
        /\ m = a.id => LeadsFrom(m, undo_stack', text)
    <3> HIDE DEF m
    <3> QED
      BY <2>1, <2>2, <2>3, <2>4, <2>5, AddedToStack
  <2>7. /\ redo_stack' = <<>>
        /\ modifying_action' = IF m \in IdsOf(redo_stack) THEN 0 ELSE m
        /\ new_group' = FALSE
        /\ do_continue' = (do_continue \/ continue_group > 0)
    BY <2>1, Zenon DEF AddAction, AfterDestroy
  <2>8. m \in ActionIds \cup {0}
    BY <2>2 DEF TypeOK
  <2>9. TypeOK'
    <3>1. undo_stack' \in Seq(Action) /\ redo_stack' \in Seq(Action)
      BY <2>6, <2>7, EmptyStack DEF Stack
    <3>2. modifying_action' \in ActionIds \cup {0}
      BY <2>7, <2>8
    <3>3. do_continue' \in BOOLEAN /\ new_group' \in BOOLEAN
      BY <2>7
    <3> QED
      BY <1>0, <3>1, <3>2, <3>3 DEF TypeOK
  <2>10. Linked'
    BY <1>0, <2>6, <2>7, EmptyStack DEF Linked
  <2>11. SavedFound'
    <3>1. CASE ~modified
      <4>1. m = a.id /\ text = saved
        BY <3>1 DEF SavedFound
      <4>2. modifying_action' = a.id
        BY <2>2, <2>7, <4>1
      <4>3. LeadsFrom(modifying_action', undo_stack', saved')
        BY <1>0, <2>6, <4>1, <4>2
      <4> QED
        BY <1>0, <4>3 DEF SavedFound
    <3>2. CASE modified
      <4>1. m = modifying_action
        BY <3>2
      <4>2. ASSUME modifying_action' # 0
            PROVE  LeadsFrom(modifying_action', undo_stack', saved')
        <5>1. modifying_action' = m /\ m \notin IdsOf(redo_stack) /\ m # 0
          BY <2>7, <4>2
        <5>2. ~LeadsTo(m, redo_stack, saved)
          BY <5>1, LeadsInIds DEF TypeOK, Stack
        <5>3. LeadsFrom(m, undo_stack, saved)
          BY <4>1, <5>1, <5>2 DEF SavedFound
        <5> QED
          BY <1>0, <2>6, <5>1, <5>3
      <4> QED
        BY <1>0, <4>2 DEF SavedFound
    <3> QED
      BY <3>1, <3>2
  <2>12. Bracketed'
    BY <1>0, <1>2 DEF Bracketed, TypeOK, Nesting
  <2>13. Grouped'
    BY <1>0, <2>6, <2>7 DEF Grouped
  <2> QED
    BY <2>9, <2>10, <2>11, <2>12, <2>13
<1> QED
  BY <1>1, <1>2

\* Inserting text keeps the invariant,
LEMMA InsertInv ==
  ASSUME Inv, NEW p \in 0 .. Len(text), NEW n \in 1 .. MaxLength, NEW s \in [1 .. n -> Char],
         Insert(p, s)
  PROVE  Inv'
<1>1. s \in Text /\ p \in Nat /\ text \in Text
  BY DEF Inv, TypeOK, Text
<1>2. InsertAt(text, p, s) \in Text
  BY <1>1, DeleteInserted
<1>3. EditText("insert", p, s, FALSE, InsertAt(text, p, s))
  BY DEF Insert
<1> QED
  BY <1>1, <1>2, <1>3, EditTextInv

\* deleting text keeps it,
LEMMA DeleteInv ==
  ASSUME Inv, NEW p \in 0 .. Len(text), NEW n \in 1 .. MaxLength, NEW forward \in BOOLEAN,
         Delete(p, n, forward)
  PROVE  Inv'
<1> DEFINE s == SubSeq(text, p + 1, p + n)
           t == DeleteAt(text, p, n)
<1>1. p \in Nat /\ n \in Nat /\ text \in Text /\ p + n <= Len(text) /\ Len(text) \in Nat
  <2>1. text \in Text
    BY DEF Inv, TypeOK
  <2> QED
    BY <2>1, UndoStackAssumption, LenProperties DEF Delete, Text, UndoStackAssumption
<1>2. s \in Text /\ t \in Text /\ Len(t) = Len(text) - n /\ text = InsertAt(t, p, s)
  BY <1>1, InsertDeleted
<1>3. EditText("delete", p, s, forward, t)
  BY DEF Delete
<1> HIDE DEF s, t
<1>4. p \in 0 .. Len(t)
  BY <1>1, <1>2
<1> QED
  BY <1>1, <1>2, <1>3, <1>4, EditTextInv

\* Undoing one action keeps the invariant.
LEMMA UndoActionInv ==
  ASSUME Inv, UndoAction
  PROVE  Inv'
<1> DEFINE a == undo_stack[1]
           r == Tail(undo_stack)
<1> USE DEF Inv
<1>0. walk = "undo" /\ undo_stack # <<>> /\ frozen = 1
  BY DEF UndoAction, Grouped, Bracketed
<1>1. undo_stack \in Stack /\ redo_stack \in Stack /\ text \in Text
  BY DEF TypeOK, Stack
<1>2. a \in Action /\ r \in Stack /\ undo_stack = Push(a, r) /\ Len(undo_stack) = Len(r) + 1
  BY <1>0, <1>1, HeadOfStack
<1>3. /\ undo_stack' = r
      /\ redo_stack' = Push(a, redo_stack)
      /\ text' = Undone(a, text)
      /\ UndoOrRedo(a)
      /\ EndWalk(a.opens)
      /\ UNCHANGED <<user_action_count, non_interactive, continue_group, do_continue,
                     new_group, saved>>
  BY DEF UndoAction
<1>4. a.to = text
  <2>1. 1 \in 1 .. Len(undo_stack)
    BY <1>0, <1>1, EmptySeq DEF Stack
  <2> QED
    BY <2>1 DEF Linked, UndoChain
<1> HIDE DEF a, r
<1>5. Sound(a) /\ UndoChain(r, a.from)
  BY <1>2, <1>4, UndoChainPush DEF Linked
<1>6. text' = a.from /\ a.from \in Text /\ a.id \in ActionIds
  BY <1>2, <1>3, <1>4, <1>5, SoundUndoneRedone DEF Action
<1>7. redo_stack' \in Stack /\ redo_stack' # <<>> /\ redo_stack'[1] = a
  BY <1>1, <1>2, <1>3, PushStack
<1>8. /\ IdsOf(undo_stack) = {a.id} \cup IdsOf(r)
      /\ a.id \notin IdsOf(r) /\ OnlyOnce(r)
      /\ IdsOf(redo_stack') = {a.id} \cup IdsOf(redo_stack)
  BY <1>1, <1>2, <1>3, IdsOfPush DEF Linked
<1>9. a.id \notin IdsOf(redo_stack)
  BY <1>8 DEF Linked
<1>10. Linked'
  <2>1. RedoChain(redo_stack', text')
    BY <1>1, <1>2, <1>3, <1>4, <1>5, <1>6, RedoChainPush DEF Linked
  <2>2. OnlyOnce(redo_stack')
    BY <1>1, <1>2, <1>3, <1>9, IdsOfPush DEF Linked
  <2>3. IdsOf(undo_stack') \cap IdsOf(redo_stack') = {}
    BY <1>3, <1>8 DEF Linked
  <2> QED
    BY <1>3, <1>5, <1>6, <1>8, <2>1, <2>2, <2>3 DEF Linked
<1>11. modified' = ~(modified /\ modifying_action = a.id)
  BY <1>3 DEF UndoOrRedo
<1>12. modifying_action' = IF ~modified /\ modifying_action = 0 THEN a.id
                           ELSE IF modified /\ modifying_action = a.id THEN 0
                           ELSE modifying_action
  BY <1>3 DEF UndoOrRedo
<1>13. a.id # 0
  BY <1>6, UndoStackAssumption DEF UndoStackAssumption
<1>14. SavedFound'
  <2>1. CASE ~modified
    <3>1. modifying_action = 0 /\ text = saved
      BY <2>1 DEF SavedFound
    <3>2. modified' /\ modifying_action' = a.id
      BY <1>11, <1>12, <2>1, <3>1
    <3>3. LeadsTo(modifying_action', redo_stack', saved')
      BY <1>1, <1>2, <1>3, <1>4, <3>1, <3>2, LeadsToPush
    <3> QED
      BY <3>2, <3>3 DEF SavedFound
  <2>2. CASE modified /\ modifying_action = a.id
    <3>1. ~LeadsTo(a.id, redo_stack, saved) /\ ~LeadsFrom(a.id, r, saved)
      BY <1>1, <1>2, <1>8, <1>9, LeadsInIds
    <3>2. a.from = saved
      BY <1>2, <1>13, <2>2, <3>1, LeadsFromPush DEF SavedFound
    <3> QED
      BY <1>3, <1>6, <1>11, <1>12, <2>2, <3>2 DEF SavedFound
  <2>3. CASE modified /\ modifying_action # a.id
    <3>1. modified' /\ modifying_action' = modifying_action
      BY <1>11, <1>12, <2>3
    <3>2. ASSUME modifying_action # 0
          PROVE  \/ LeadsFrom(modifying_action, r, saved)
                 \/ LeadsTo(modifying_action, redo_stack', saved)
      <4>1. \/ LeadsFrom(modifying_action, undo_stack, saved)
            \/ LeadsTo(modifying_action, redo_stack, saved)
        BY <3>2 DEF SavedFound
      <4> QED
        BY <1>1, <1>2, <1>3, <2>3, <4>1, LeadsFromPush, LeadsToPush
    <3> QED
      BY <1>3, <3>1, <3>2 DEF SavedFound
  <2> QED
    BY <2>1, <2>2, <2>3
<1>15. TypeOK'
  <2>1. frozen' \in 0 .. MaxNesting + 1 /\ walk' \in {"none", "undo", "redo"}
    BY <1>0, <1>3, UndoStackAssumption DEF EndWalk, TypeOK, UndoStackAssumption
  <2>2. modified' \in BOOLEAN /\ modifying_action' \in ActionIds \cup {0}
    BY <1>6, <1>11, <1>12 DEF TypeOK
  <2>3. undo_stack' \in Seq(Action) /\ redo_stack' \in Seq(Action) /\ text' \in Text
    BY <1>2, <1>3, <1>6, <1>7 DEF Stack
  <2> QED
    BY <1>3, <2>1, <2>2, <2>3 DEF TypeOK
<1>16. a.opens \in BOOLEAN
  BY <1>2 DEF Action
<1>17. OldestOpens(r) /\ (r = <<>> => a.opens)
  BY <1>2, OldestOpensPush, EmptyStack DEF Grouped
<1>18. Bracketed'
  <2>1. CASE a.opens
    <3>1. walk' = "none" /\ frozen' = 0
      BY <1>0, <1>3, <2>1 DEF EndWalk
    <3> QED
      BY <1>3, <3>1, UndoStackAssumption DEF Bracketed, Nesting, UndoStackAssumption
  <2>2. CASE ~a.opens
    <3>1. walk' = "undo" /\ frozen' = 1
      BY <1>0, <1>3, <2>2 DEF EndWalk
    <3> QED
      BY <1>3, <3>1 DEF Bracketed
  <2> QED
    BY <2>1, <2>2
<1>19. Grouped'
  <2>1. CASE a.opens
    <3>1. walk' = "none"
      BY <1>3, <2>1 DEF EndWalk
    <3> QED
      BY <1>3, <1>7, <1>17, <2>1, <3>1 DEF Grouped
  <2>2. CASE ~a.opens
    <3>1. walk' = "undo" /\ r # <<>>
      BY <1>0, <1>3, <1>17, <2>2 DEF EndWalk
    <3> QED
      BY <1>3, <1>17, <3>1 DEF Grouped
  <2> QED
    BY <2>1, <2>2
<1> QED
  BY <1>10, <1>14, <1>15, <1>18, <1>19

\* Redoing one action keeps the invariant.
LEMMA RedoActionInv ==
  ASSUME Inv, RedoAction
  PROVE  Inv'
<1> DEFINE a == redo_stack[1]
           r == Tail(redo_stack)
           last == r = <<>> \/ r[1].opens
<1> USE DEF Inv
<1>0. walk = "redo" /\ redo_stack # <<>> /\ frozen = 1
  BY DEF RedoAction, Grouped, Bracketed
<1>1. undo_stack \in Stack /\ redo_stack \in Stack /\ text \in Text
  BY DEF TypeOK, Stack
<1>2. a \in Action /\ r \in Stack /\ redo_stack = Push(a, r)
  BY <1>0, <1>1, HeadOfStack
<1>3. /\ redo_stack' = r
      /\ undo_stack' = Push(a, undo_stack)
      /\ text' = Redone(a, text)
      /\ UndoOrRedo(a)
      /\ EndWalk(last)
      /\ UNCHANGED <<user_action_count, non_interactive, continue_group, do_continue,
                     new_group, saved>>
  BY DEF RedoAction
<1>4. a.from = text
  <2>1. 1 \in 1 .. Len(redo_stack)
    BY <1>0, <1>1, EmptySeq DEF Stack
  <2> QED
    BY <2>1 DEF Linked, RedoChain
<1>5. undo_stack = <<>> => a.opens
  BY <1>0 DEF Grouped
<1> HIDE DEF a, r, last
<1>6. Sound(a) /\ RedoChain(r, a.to)
  BY <1>2, <1>4, RedoChainPush DEF Linked
<1>7. text' = a.to /\ a.to \in Text /\ a.id \in ActionIds
  BY <1>2, <1>3, <1>4, <1>6, SoundUndoneRedone DEF Action
<1>8. undo_stack' \in Stack /\ undo_stack' # <<>>
  BY <1>1, <1>2, <1>3, PushStack
<1>9. /\ IdsOf(redo_stack) = {a.id} \cup IdsOf(r)
      /\ a.id \notin IdsOf(r) /\ OnlyOnce(r)
      /\ IdsOf(undo_stack') = {a.id} \cup IdsOf(undo_stack)
  BY <1>1, <1>2, <1>3, IdsOfPush DEF Linked
<1>10. a.id \notin IdsOf(undo_stack)
  BY <1>9 DEF Linked
<1>11. Linked'
  <2>1. UndoChain(undo_stack', text')
    BY <1>1, <1>2, <1>3, <1>4, <1>6, <1>7, UndoChainPush DEF Linked
  <2>2. OnlyOnce(undo_stack')
    BY <1>1, <1>2, <1>3, <1>10, IdsOfPush DEF Linked
  <2>3. IdsOf(undo_stack') \cap IdsOf(redo_stack') = {}
    BY <1>3, <1>9 DEF Linked
  <2> QED
    BY <1>3, <1>6, <1>7, <1>9, <2>1, <2>2, <2>3 DEF Linked
<1>12. modified' = ~(modified /\ modifying_action = a.id)
  BY <1>3 DEF UndoOrRedo
<1>13. modifying_action' = IF ~modified /\ modifying_action = 0 THEN a.id
                           ELSE IF modified /\ modifying_action = a.id THEN 0
                           ELSE modifying_action
  BY <1>3 DEF UndoOrRedo
<1>14. a.id # 0
  BY <1>7, UndoStackAssumption DEF UndoStackAssumption
<1>15. SavedFound'
  <2>1. CASE ~modified
    <3>1. modifying_action = 0 /\ text = saved
      BY <2>1 DEF SavedFound
    <3>2. modified' /\ modifying_action' = a.id
      BY <1>12, <1>13, <2>1, <3>1
    <3>3. LeadsFrom(modifying_action', undo_stack', saved')
      BY <1>1, <1>2, <1>3, <1>4, <3>1, <3>2, LeadsFromPush
    <3> QED
      BY <3>2, <3>3 DEF SavedFound
  <2>2. CASE modified /\ modifying_action = a.id
    <3>1. ~LeadsFrom(a.id, undo_stack, saved) /\ ~LeadsTo(a.id, r, saved)
      BY <1>1, <1>2, <1>9, <1>10, LeadsInIds
    <3>2. a.to = saved
      BY <1>2, <1>14, <2>2, <3>1, LeadsToPush DEF SavedFound
    <3> QED
      BY <1>3, <1>7, <1>12, <1>13, <2>2, <3>2 DEF SavedFound
  <2>3. CASE modified /\ modifying_action # a.id
    <3>1. modified' /\ modifying_action' = modifying_action
      BY <1>12, <1>13, <2>3
    <3>2. ASSUME modifying_action # 0
          PROVE  \/ LeadsFrom(modifying_action, undo_stack', saved)
                 \/ LeadsTo(modifying_action, r, saved)
      <4>1. \/ LeadsFrom(modifying_action, undo_stack, saved)
            \/ LeadsTo(modifying_action, redo_stack, saved)
        BY <3>2 DEF SavedFound
      <4> QED
        BY <1>1, <1>2, <1>3, <2>3, <4>1, LeadsFromPush, LeadsToPush
    <3> QED
      BY <1>3, <3>1, <3>2 DEF SavedFound
  <2> QED
    BY <2>1, <2>2, <2>3
<1>16. TypeOK'
  <2>1. frozen' \in 0 .. MaxNesting + 1 /\ walk' \in {"none", "undo", "redo"}
    BY <1>0, <1>3, UndoStackAssumption DEF EndWalk, TypeOK, UndoStackAssumption
  <2>2. modified' \in BOOLEAN /\ modifying_action' \in ActionIds \cup {0}
    BY <1>7, <1>12, <1>13 DEF TypeOK
  <2>3. undo_stack' \in Seq(Action) /\ redo_stack' \in Seq(Action) /\ text' \in Text
    BY <1>2, <1>3, <1>7, <1>8 DEF Stack
  <2> QED
    BY <1>3, <2>1, <2>2, <2>3 DEF TypeOK
<1>17. OldestOpens(undo_stack')
  BY <1>1, <1>2, <1>3, <1>5, OldestOpensPush DEF Grouped
<1>18. CASE last
  <2>1. walk' = "none" /\ frozen' = 0
    BY <1>0, <1>3, <1>18 DEF EndWalk
  <2>2. Bracketed'
    BY <1>3, <2>1, UndoStackAssumption DEF Bracketed, Nesting, UndoStackAssumption
  <2>3. Grouped'
    BY <1>3, <1>17, <1>18, <2>1 DEF Grouped, last
  <2> QED
    BY <1>11, <1>15, <1>16, <2>2, <2>3
<1>19. CASE ~last
  <2>1. walk' = "redo" /\ frozen' = 1 /\ r # <<>>
    BY <1>0, <1>3, <1>19 DEF EndWalk, last
  <2>2. Bracketed'
    BY <1>3, <2>1 DEF Bracketed
  <2>3. Grouped'
    BY <1>3, <1>8, <1>17, <2>1 DEF Grouped
  <2> QED
    BY <1>11, <1>15, <1>16, <2>2, <2>3
<1> QED
  BY <1>18, <1>19

\* The steps that move no action keep the invariant.
LEMMA BracketsInv ==
  ASSUME Inv, Brackets
  PROVE  Inv'
<1> USE DEF Inv
<1> DEFINE sameText == UNCHANGED <<text, modified, modifying_action, saved>>
           sameStacks == UNCHANGED <<undo_stack, redo_stack>>
<1>1. CASE BeginUserAction
  <2>1. user_action_count' \in Nesting /\ continue_group' \in Nesting
    BY <1>1, UndoStackAssumption
    DEF BeginUserAction, Bracketed, TypeOK, Nesting, UndoStackAssumption
  <2>2. TypeOK'
    BY <1>1, <2>1 DEF BeginUserAction, TypeOK
  <2>3. Bracketed'
    BY <1>1 DEF BeginUserAction, Bracketed, TypeOK, Nesting
  <2>4. Linked' /\ SavedFound' /\ Grouped'
    BY <1>1 DEF BeginUserAction, Linked, SavedFound, Grouped
  <2> QED
    BY <2>2, <2>3, <2>4
<1>2. CASE EndUserAction
  <2>1. user_action_count' \in Nesting /\ continue_group' \in Nesting
    BY <1>2, UndoStackAssumption
    DEF EndUserAction, Bracketed, TypeOK, Nesting, UndoStackAssumption
  <2>5. do_continue' \in BOOLEAN
    <3>1. CASE user_action_count = 1
      BY <1>2, <3>1, Zenon DEF EndUserAction
    <3>2. CASE user_action_count # 1
      BY <1>2, <3>2 DEF EndUserAction, TypeOK
    <3> QED
      BY <3>1, <3>2
  <2>2. TypeOK'
    BY <1>2, <2>1, <2>5 DEF EndUserAction, TypeOK
  <2>3. Bracketed'
    BY <1>2 DEF EndUserAction, Bracketed, TypeOK, Nesting
  <2>4. Linked' /\ SavedFound' /\ Grouped'
    BY <1>2 DEF EndUserAction, Linked, SavedFound, Grouped
  <2> QED
    BY <2>2, <2>3, <2>4
<1>3. CASE BeginNonUndoableAction
  <2>1. /\ walk = "none" /\ frozen < MaxNesting /\ frozen' = frozen + 1
        /\ UNCHANGED <<continue_group, do_continue, text, modified, user_action_count,
                       non_interactive, walk, saved>>
    BY <1>3 DEF BeginNonUndoableAction
  <2>2. frozen \in Nesting
    BY <2>1 DEF Bracketed
  <2>3. frozen' \in Nesting /\ frozen' > 0 /\ frozen' \in 0 .. MaxNesting + 1
    BY <2>1, <2>2, UndoStackAssumption DEF Nesting, UndoStackAssumption
  <2>4. CASE frozen = 0
    <3>1. /\ undo_stack' = <<>> /\ redo_stack' = <<>> /\ new_group' = FALSE
          /\ modifying_action' =
               IF modifying_action \in IdsOf(undo_stack) \cup IdsOf(redo_stack)
                 THEN 0 ELSE modifying_action
      BY <1>3, <2>4, Zenon DEF BeginNonUndoableAction, AfterDestroy
    <3>2. modifying_action' = 0
      <4>1. undo_stack \in Stack /\ redo_stack \in Stack
        BY DEF TypeOK, Stack
      <4>2. modifying_action # 0 =>
              modifying_action \in IdsOf(undo_stack) \cup IdsOf(redo_stack)
        BY <4>1, LeadsInIds DEF SavedFound
      <4> QED
        BY <3>1, <4>2
    <3>3. TypeOK'
      BY <2>1, <2>3, <3>1, <3>2, EmptyStack DEF TypeOK, Stack
    <3>4. Linked' /\ SavedFound'
      BY <2>1, <3>1, <3>2, EmptyStack DEF Linked, SavedFound
    <3>5. Bracketed' /\ Grouped'
      BY <2>1, <2>3, <3>1, EmptyStack DEF Bracketed, Grouped
    <3> QED
      BY <3>3, <3>4, <3>5
  <2>5. CASE frozen # 0
    <3>1. UNCHANGED <<undo_stack, redo_stack, modifying_action, new_group>>
      BY <1>3, <2>5 DEF BeginNonUndoableAction
    <3>2. undo_stack = <<>> /\ redo_stack = <<>>
      BY <2>1, <2>2, <2>5 DEF Bracketed, Nesting
    <3>3. TypeOK'
      BY <2>1, <2>3, <3>1 DEF TypeOK
    <3>4. Linked' /\ SavedFound' /\ Bracketed' /\ Grouped'
      BY <2>1, <2>3, <3>1, <3>2 DEF Linked, SavedFound, Bracketed, Grouped
    <3> QED
      BY <3>3, <3>4
  <2> QED
    BY <2>4, <2>5
<1>4. CASE EndNonUndoableAction
  <2>1. frozen \in Nesting /\ frozen > 0 /\ undo_stack = <<>> /\ redo_stack = <<>>
    BY <1>4 DEF EndNonUndoableAction, Bracketed
  <2>2. frozen' \in Nesting /\ frozen' \in 0 .. MaxNesting + 1
    BY <1>4, <2>1, UndoStackAssumption DEF EndNonUndoableAction, Nesting, UndoStackAssumption
  <2>3. TypeOK'
    BY <1>4, <2>2 DEF EndNonUndoableAction, TypeOK, bufferVars
  <2>4. Linked' /\ SavedFound' /\ Bracketed' /\ Grouped'
    BY <1>4, <2>1, <2>2
    DEF EndNonUndoableAction, bufferVars, Linked, SavedFound, Bracketed, Grouped
  <2> QED
    BY <2>3, <2>4
<1>5. CASE \E n \in Nesting : NonInteractive(n)
  <2>1. TypeOK'
    BY <1>5 DEF NonInteractive, TypeOK, stackVars
  <2>2. Linked' /\ SavedFound' /\ Bracketed' /\ Grouped'
    BY <1>5 DEF NonInteractive, stackVars, Linked, SavedFound, Bracketed, Grouped
  <2> QED
    BY <2>1, <2>2
<1> QED
  BY <1>1, <1>2, <1>3, <1>4, <1>5 DEF Brackets

\* starting to undo or redo keeps it,
LEMMA StartWalkInv ==
  ASSUME Inv, NEW direction \in {"undo", "redo"}, StartWalk(direction)
  PROVE  Inv'
<1> USE DEF Inv
<1>1. /\ walk = "none" /\ walk' = direction /\ frozen' = frozen + 1 /\ new_group' = TRUE
      /\ direction = "undo" => undo_stack # <<>>
      /\ direction = "redo" => redo_stack # <<>>
      /\ UNCHANGED <<undo_stack, redo_stack, continue_group, do_continue, bufferVars, saved>>
  BY DEF StartWalk
<1>2. frozen = 0
  BY <1>1 DEF Bracketed, Nesting
<1>3. frozen' \in 0 .. MaxNesting + 1
  BY <1>1, <1>2, UndoStackAssumption DEF UndoStackAssumption
<1>4. TypeOK'
  BY <1>1, <1>3 DEF TypeOK, bufferVars
<1>5. Linked' /\ SavedFound'
  BY <1>1 DEF Linked, SavedFound, bufferVars
<1>6. Bracketed' /\ Grouped'
  BY <1>1, <1>2 DEF Bracketed, Grouped, bufferVars
<1> QED
  BY <1>4, <1>5, <1>6

\* setting the modified flag keeps it,
LEMMA SetModifiedInv ==
  ASSUME Inv, NEW b \in BOOLEAN, SetModified(b)
  PROVE  Inv'
<1> USE DEF Inv
<1>1. TypeOK'
  BY DEF SetModified, TypeOK, stackVars
<1>2. SavedFound'
  BY DEF SetModified, SavedFound, TypeOK, stackVars
<1>3. Linked' /\ Bracketed' /\ Grouped'
  BY DEF SetModified, stackVars, Linked, Bracketed, Grouped
<1> QED
  BY <1>1, <1>2, <1>3

\* and so does every step.
LEMMA NextInv == Inv /\ [Next]_vars => Inv'
<1> SUFFICES ASSUME Inv, [Next]_vars PROVE Inv'
  OBVIOUS
<1>1. ASSUME NEW p \in 0 .. Len(text), NEW n \in 1 .. MaxLength, NEW s \in [1 .. n -> Char],
             Insert(p, s)
      PROVE  Inv'
  BY <1>1, InsertInv
<1>2. ASSUME NEW p \in 0 .. Len(text), NEW n \in 1 .. MaxLength, NEW forward \in BOOLEAN,
             Delete(p, n, forward)
      PROVE  Inv'
  BY <1>2, DeleteInv
<1>3. CASE Walks
  BY <1>3, StartWalkInv, UndoActionInv, RedoActionInv DEF Walks
<1>4. CASE Brackets
  BY <1>4, BracketsInv
<1>5. ASSUME NEW b \in BOOLEAN, SetModified(b) PROVE Inv'
  BY <1>5, SetModifiedInv
<1>6. CASE UNCHANGED vars
  BY <1>6 DEF vars, stackVars, bufferVars, Inv, TypeOK, Linked, SavedFound, Bracketed, Grouped
<1> QED
  BY <1>1, <1>2, <1>3, <1>4, <1>5, <1>6 DEF Next

\* The invariant holds in every state.
LEMMA SpecInv == Spec => []Inv
BY InitInv, NextInv, PTL DEF Spec

-----------------------------------------------------------------------------
(* The theorems *)

\* The buffer and its undo stack keep their types.
THEOREM UndoTypes == Spec => []TypeOK
<1>1. Inv => TypeOK
  BY DEF Inv
<1> QED
  BY <1>1, SpecInv, PTL

\* A buffer that says it is unmodified has the text that was saved.
THEOREM UndoModifiedTruthful == Spec => []ModifiedTruthful
<1>1. Inv => ModifiedTruthful
  BY DEF Inv, SavedFound, ModifiedTruthful, TypeOK
<1> QED
  BY <1>1, SpecInv, PTL

\* modifying_action is an action of one of the stacks, next to the saved text.
THEOREM UndoModifyingActionLive == Spec => []ModifyingActionLive
<1>1. ASSUME Inv PROVE ModifyingActionLive
  <2>1. DOMAIN undo_stack = 1 .. Len(undo_stack) /\ DOMAIN redo_stack = 1 .. Len(redo_stack)
    BY <1>1, LenProperties DEF Inv, TypeOK
  <2> QED
    BY <1>1, <2>1, Zenon DEF Inv, SavedFound, LeadsFrom, LeadsTo, ModifyingActionLive
<1> QED
  BY <1>1, SpecInv, PTL

\* Undo and redo lead from text to text without a gap.
THEOREM UndoChained == Spec => []Chained
<1>1. ASSUME Inv PROVE Chained
  <2>1. DOMAIN undo_stack = 1 .. Len(undo_stack) /\ DOMAIN redo_stack = 1 .. Len(redo_stack)
    BY <1>1, LenProperties DEF Inv, TypeOK
  <2>2. ASSUME NEW k \in 1 .. Len(undo_stack)
        PROVE  /\ undo_stack[k].to = IF k = 1 THEN text ELSE undo_stack[k - 1].from
               /\ Undone(undo_stack[k], undo_stack[k].to) = undo_stack[k].from
               /\ Redone(undo_stack[k], undo_stack[k].from) = undo_stack[k].to
    <3>1. undo_stack[k] \in Action
      BY <1>1, ElementOfSeq DEF Inv, TypeOK
    <3>2. /\ Sound(undo_stack[k])
          /\ undo_stack[k].to = IF k = 1 THEN text ELSE undo_stack[k - 1].from
      BY <1>1, Zenon DEF Inv, Linked, UndoChain
    <3> QED
      BY <3>1, <3>2, SoundUndoneRedone, Zenon
  <2>3. ASSUME NEW k \in 1 .. Len(redo_stack)
        PROVE  /\ redo_stack[k].from = IF k = 1 THEN text ELSE redo_stack[k - 1].to
               /\ Undone(redo_stack[k], redo_stack[k].to) = redo_stack[k].from
               /\ Redone(redo_stack[k], redo_stack[k].from) = redo_stack[k].to
    <3>1. redo_stack[k] \in Action
      BY <1>1, ElementOfSeq DEF Inv, TypeOK
    <3>2. /\ Sound(redo_stack[k])
          /\ redo_stack[k].from = IF k = 1 THEN text ELSE redo_stack[k - 1].to
      BY <1>1, Zenon DEF Inv, Linked, RedoChain
    <3> QED
      BY <3>1, <3>2, SoundUndoneRedone, Zenon
  <2> QED
    BY <2>1, <2>2, <2>3, Zenon DEF Chained
<1> QED
  BY <1>1, SpecInv, PTL

\* Between undo and redo, groups are whole.
THEOREM UndoGroupsWhole == Spec => []GroupsWhole
<1>1. Inv => GroupsWhole
  BY DEF Inv, Bracketed, Grouped, OldestOpens, GroupsWhole
<1> QED
  BY <1>1, SpecInv, PTL

-----------------------------------------------------------------------------
(* The undo stack implements the history of texts that EditHistory promises: *)
(* every step of the buffer is a step of the history or none.                *)


\* The texts the actions of a stack lead from, and to.
Froms(s) == [k \in DOMAIN s |-> s[k].from]
Tos(s) == [k \in DOMAIN s |-> s[k].to]

\* The texts the actions of a stack lead from and to.
LEMMA FromsAndTos ==
  ASSUME NEW s \in Stack
  PROVE  /\ Froms(s) \in Seq(Text) /\ Len(Froms(s)) = Len(s)
         /\ Tos(s) \in Seq(Text) /\ Len(Tos(s)) = Len(s)
         /\ \A k \in 1 .. Len(s) : Froms(s)[k] = s[k].from /\ Tos(s)[k] = s[k].to
<1>1. DOMAIN s = 1 .. Len(s) /\ Len(s) \in Nat
  BY LenProperties DEF Stack
<1>2. \A k \in 1 .. Len(s) : s[k].from \in Text /\ s[k].to \in Text
  <2>1. SUFFICES ASSUME NEW k \in 1 .. Len(s) PROVE s[k].from \in Text /\ s[k].to \in Text
    OBVIOUS
  <2>2. s[k] \in Action
    BY ElementOfSeq DEF Stack
  <2> QED
    BY <2>2 DEF Action
<1>3. Froms(s) \in Seq(Text) /\ Len(Froms(s)) = Len(s)
  BY <1>1, <1>2 DEF Froms
<1>4. Tos(s) \in Seq(Text) /\ Len(Tos(s)) = Len(s)
  BY <1>1, <1>2 DEF Tos
<1>5. \A k \in 1 .. Len(s) : Froms(s)[k] = s[k].from /\ Tos(s)[k] = s[k].to
  BY <1>1 DEF Froms, Tos
<1> QED
  BY <1>3, <1>4, <1>5

\* Those of an empty stack.
LEMMA NoTexts ==
  /\ Froms(<<>>) = <<>>
  /\ Tos(<<>>) = <<>>
<1>1. Froms(<<>>) \in Seq(Text) /\ Len(Froms(<<>>)) = 0
  BY EmptyStack, FromsAndTos, EmptySeq
<1>2. Tos(<<>>) \in Seq(Text) /\ Len(Tos(<<>>)) = 0
  BY EmptyStack, FromsAndTos, EmptySeq
<1> QED
  BY <1>1, <1>2, EmptySeq

\* The elements of texts with one more in front.
LEMMA TextInFront ==
  ASSUME NEW x \in Text, NEW g \in Seq(Text)
  PROVE  /\ <<x>> \o g \in Seq(Text) /\ Len(<<x>> \o g) = 1 + Len(g)
         /\ \A k \in 1 .. 1 + Len(g) :
              (<<x>> \o g)[k] = IF k <= 1 THEN <<x>>[k] ELSE g[k - 1]
<1> DEFINE o == <<x>>
<1>1. o \in Seq(Text) /\ Len(o) = 1
  OBVIOUS
<1> HIDE DEF o
<1>2. /\ o \o g \in Seq(Text) /\ Len(o \o g) = Len(o) + Len(g)
      /\ \A k \in 1 .. Len(o) + Len(g) :
           (o \o g)[k] = IF k <= Len(o) THEN o[k] ELSE g[k - Len(o)]
  BY <1>1, ConcatProperties, Zenon
<1> QED
  BY <1>1, <1>2 DEF o

\* A text in front of others.
LEMMA HeadAndTail ==
  ASSUME NEW x \in Text, NEW s \in Seq(Text)
  PROVE  /\ <<x>> \o s # <<>>
         /\ Head(<<x>> \o s) = x
         /\ Tail(<<x>> \o s) = s
<1> DEFINE o == <<x>>
           f == o \o s
<1>1. o \in Seq(Text) /\ Len(o) = 1 /\ o[1] = x
  OBVIOUS
<1> HIDE DEF o
<1>2. /\ f \in Seq(Text) /\ Len(f) = Len(o) + Len(s)
      /\ \A k \in 1 .. Len(o) + Len(s) : f[k] = IF k <= Len(o) THEN o[k] ELSE s[k - Len(o)]
  BY <1>1, ConcatProperties, Zenon
<1> HIDE DEF f
<1>3. Len(s) \in Nat /\ Len(f) = Len(s) + 1
  BY <1>1, <1>2, LenProperties
<1>4. f # <<>> /\ f[1] = x
  <2>1. f # <<>>
    BY <1>3, EmptySeq
  <2>2. 1 \in 1 .. Len(o) + Len(s) /\ 1 <= Len(o)
    BY <1>1, <1>3
  <2> QED
    BY <1>1, <1>2, <2>1, <2>2
<1>5. Tail(f) \in Seq(Text) /\ Len(Tail(f)) = Len(s)
  BY <1>2, <1>3, <1>4, HeadTailProperties
<1>6. ASSUME NEW k \in 1 .. Len(s) PROVE Tail(f)[k] = s[k]
  <2>1. Tail(f)[k] = f[k + 1]
    BY <1>2, <1>4, <1>5, HeadTailProperties
  <2>2. k + 1 \in 1 .. Len(o) + Len(s) /\ ~(k + 1 <= Len(o)) /\ (k + 1) - Len(o) = k
    BY <1>1, <1>3
  <2> QED
    BY <1>2, <2>1, <2>2
<1>7. Tail(f) = s
  BY <1>5, <1>6, SeqEqual
<1>8. Head(f) = x
  BY <1>4
<1> QED
  BY <1>4, <1>7, <1>8 DEF f, o

\* What the actions lead from once one is pushed,
LEMMA FromsOfPush ==
  ASSUME NEW s \in Stack, NEW a \in Action
  PROVE  Froms(Push(a, s)) = <<a.from>> \o Froms(s)
<1> DEFINE p == Push(a, s)
           f == <<a.from>> \o Froms(s)
<1>1. /\ p \in Stack /\ Len(s) \in Nat /\ Len(p) = Len(s) + 1
      /\ p[1] = a
      /\ \A k \in 1 .. Len(s) : p[k + 1] = s[k]
  BY PushStack
<1>2. a.from \in Text
  BY DEF Action
<1>3. /\ f \in Seq(Text) /\ Len(f) = 1 + Len(s)
      /\ \A k \in 1 .. 1 + Len(s) : f[k] = IF k <= 1 THEN <<a.from>>[k] ELSE Froms(s)[k - 1]
  <2>1. Froms(s) \in Seq(Text) /\ Len(Froms(s)) = Len(s)
    BY FromsAndTos
  <2> QED
    BY <1>2, <2>1, TextInFront
<1> HIDE DEF p, f
<1>4. Froms(p) \in Seq(Text) /\ Len(Froms(p)) = Len(p)
  BY <1>1, FromsAndTos
<1>5. ASSUME NEW k \in 1 .. Len(p) PROVE Froms(p)[k] = f[k]
  <2>1. Froms(p)[k] = p[k].from
    BY <1>1, FromsAndTos
  <2>2. CASE k = 1
    <3>1. f[1] = a.from
      <4>1. 1 \in 1 .. 1 + Len(s) /\ 1 <= 1 /\ <<a.from>>[1] = a.from
        BY <1>1
      <4> QED
        BY <1>3, <4>1
    <3>2. p[k].from = a.from
      BY <1>1, <2>2
    <3> QED
      BY <2>1, <2>2, <3>1, <3>2, Zenon
  <2>3. CASE k # 1
    <3>1. k - 1 \in 1 .. Len(s) /\ (k - 1) + 1 = k /\ k \in 1 .. 1 + Len(s) /\ ~(k <= 1)
      BY <1>1, <2>3
    <3>2. p[k] = s[k - 1] /\ f[k] = Froms(s)[k - 1]
      BY <1>1, <1>3, <3>1
    <3>3. Froms(s)[k - 1] = s[k - 1].from
      BY <3>1, FromsAndTos
    <3> QED
      BY <2>1, <3>2, <3>3
  <2> QED
    BY <2>2, <2>3
<1>6. Len(Froms(p)) = Len(f)
  BY <1>1, <1>3, <1>4
<1>7. Froms(p) = f
  BY <1>3, <1>4, <1>5, <1>6, SeqEqual
<1> QED
  BY <1>7 DEF p, f

\* and what they lead to.
LEMMA TosOfPush ==
  ASSUME NEW s \in Stack, NEW a \in Action
  PROVE  Tos(Push(a, s)) = <<a.to>> \o Tos(s)
<1> DEFINE p == Push(a, s)
           f == <<a.to>> \o Tos(s)
<1>1. /\ p \in Stack /\ Len(s) \in Nat /\ Len(p) = Len(s) + 1
      /\ p[1] = a
      /\ \A k \in 1 .. Len(s) : p[k + 1] = s[k]
  BY PushStack
<1>2. a.to \in Text
  BY DEF Action
<1>3. /\ f \in Seq(Text) /\ Len(f) = 1 + Len(s)
      /\ \A k \in 1 .. 1 + Len(s) : f[k] = IF k <= 1 THEN <<a.to>>[k] ELSE Tos(s)[k - 1]
  <2>1. Tos(s) \in Seq(Text) /\ Len(Tos(s)) = Len(s)
    BY FromsAndTos
  <2> QED
    BY <1>2, <2>1, TextInFront
<1> HIDE DEF p, f
<1>4. Tos(p) \in Seq(Text) /\ Len(Tos(p)) = Len(p)
  BY <1>1, FromsAndTos
<1>5. ASSUME NEW k \in 1 .. Len(p) PROVE Tos(p)[k] = f[k]
  <2>1. Tos(p)[k] = p[k].to
    BY <1>1, FromsAndTos
  <2>2. CASE k = 1
    <3>1. f[1] = a.to
      <4>1. 1 \in 1 .. 1 + Len(s) /\ 1 <= 1 /\ <<a.to>>[1] = a.to
        BY <1>1
      <4> QED
        BY <1>3, <4>1
    <3>2. p[k].to = a.to
      BY <1>1, <2>2
    <3> QED
      BY <2>1, <2>2, <3>1, <3>2, Zenon
  <2>3. CASE k # 1
    <3>1. k - 1 \in 1 .. Len(s) /\ (k - 1) + 1 = k /\ k \in 1 .. 1 + Len(s) /\ ~(k <= 1)
      BY <1>1, <2>3
    <3>2. p[k] = s[k - 1] /\ f[k] = Tos(s)[k - 1]
      BY <1>1, <1>3, <3>1
    <3>3. Tos(s)[k - 1] = s[k - 1].to
      BY <3>1, FromsAndTos
    <3> QED
      BY <2>1, <3>2, <3>3
  <2> QED
    BY <2>2, <2>3
<1>6. Len(Tos(p)) = Len(f)
  BY <1>1, <1>3, <1>4
<1>7. Tos(p) = f
  BY <1>3, <1>4, <1>5, <1>6, SeqEqual
<1> QED
  BY <1>7 DEF p, f

\* Where an action is found in a stack.
LEMMA PositionFound ==
  ASSUME NEW s \in Stack, OnlyOnce(s), NEW k \in 1 .. Len(s)
  PROVE  PositionOf(s[k].id, s) = k
<1>1. DOMAIN s = 1 .. Len(s)
  BY LenProperties DEF Stack
<1> DEFINE c == CHOOSE j \in DOMAIN s : s[j].id = s[k].id
<1>2. c \in 1 .. Len(s) /\ s[c].id = s[k].id
  BY <1>1
<1>3. c = k
  BY <1>2 DEF OnlyOnce
<1> QED
  BY <1>3 DEF PositionOf

\* Where the action with an id stands once another is pushed.
LEMMA PositionOfPush ==
  ASSUME NEW s \in Stack, NEW a \in Action, OnlyOnce(Push(a, s))
  PROVE  /\ PositionOf(a.id, Push(a, s)) = 1
         /\ \A m \in IdsOf(s) : /\ PositionOf(m, Push(a, s)) = PositionOf(m, s) + 1
                                /\ PositionOf(m, s) \in 1 .. Len(s)
<1> DEFINE p == Push(a, s)
<1>1. p \in Stack
  BY PushStack
<1>2. /\ 1 \in 1 .. Len(p) /\ p[1] = a
      /\ \A k \in 1 .. Len(s) : k + 1 \in 1 .. Len(p) /\ p[k + 1] = s[k]
  BY ElementsOfPush
<1>3. OnlyOnce(s)
  BY IdsOfPush
<1> HIDE DEF p
<1>4. PositionOf(a.id, p) = 1
  BY <1>1, <1>2, PositionFound DEF p
<1>5. ASSUME NEW m \in IdsOf(s)
      PROVE  PositionOf(m, p) = PositionOf(m, s) + 1 /\ PositionOf(m, s) \in 1 .. Len(s)
  <2>1. PICK k \in 1 .. Len(s) : s[k].id = m
    BY IdsOfStack
  <2>2. PositionOf(m, s) = k
    BY <1>3, <2>1, PositionFound
  <2>3. k + 1 \in 1 .. Len(p) /\ p[k + 1].id = m
    BY <1>2, <2>1
  <2>4. OnlyOnce(p)
    BY DEF p
  <2>5. PositionOf(m, p) = k + 1
    BY <1>1, <2>3, <2>4, PositionFound
  <2> QED
    BY <2>2, <2>5
<1> QED
  BY <1>4, <1>5 DEF p

-----------------------------------------------------------------------------
(* The refinement mapping *)

\* The clean place in terms of the two stacks, the flag and modifying_action.
Place(u, r, md, m) ==
  IF ~md THEN Len(u)
  ELSE IF m \in IdsOf(u) THEN Len(u) - PositionOf(m, u)
  ELSE IF m \in IdsOf(r) THEN Len(u) + PositionOf(m, r)
  ELSE Lost

\* The place of the saved text, by the variables it depends on.
LEMMA CleanPlaceIsPlace ==
  /\ CleanPlace = Place(undo_stack, redo_stack, modified, modifying_action)
  /\ CleanPlace' = Place(undo_stack', redo_stack', modified', modifying_action')
BY DEF CleanPlace, Place, PositionOf, IdsOf

\* An id that is in the stack has a position there.
LEMMA PositionInStack ==
  ASSUME NEW s \in Stack, OnlyOnce(s), NEW m \in IdsOf(s)
  PROVE  PositionOf(m, s) \in 1 .. Len(s)
<1>1. PICK k \in 1 .. Len(s) : s[k].id = m
  BY IdsOfStack
<1> QED
  BY <1>1, PositionFound

\* No action has the id 0.
LEMMA IdsAreNotZero ==
  ASSUME NEW s \in Stack
  PROVE  0 \notin IdsOf(s)
<1>1. ASSUME NEW k \in 1 .. Len(s) PROVE s[k].id # 0
  <2>1. s[k] \in Action
    BY ElementOfSeq DEF Stack
  <2> QED
    BY <2>1, UndoStackAssumption DEF Action, UndoStackAssumption
<1> QED
  BY <1>1, IdsOfStack

\* How the new undo stack lies to the old one when action a is added.
LEMMA AddedToHistory ==
  ASSUME TypeOK, Linked, NEW a \in Action, Sound(a), a.from = text,
         a.id \notin IdsOf(undo_stack), NEW m, AddAction(a, m),
         undo_stack' \in Stack, OnlyOnce(undo_stack')
  PROVE  \/ /\ Froms(undo_stack') = <<text>> \o Froms(undo_stack)
            /\ Len(undo_stack') = Len(undo_stack) + 1
            /\ IdsOf(undo_stack') = {a.id} \cup IdsOf(undo_stack)
            /\ PositionOf(a.id, undo_stack') = 1
            /\ m \in IdsOf(undo_stack) =>
                 PositionOf(m, undo_stack') = PositionOf(m, undo_stack) + 1
         \/ /\ undo_stack # <<>>
            /\ Froms(undo_stack') = Froms(undo_stack)
            /\ Len(undo_stack') = Len(undo_stack)
            /\ IdsOf(undo_stack') = IdsOf(undo_stack)
            /\ m \in IdsOf(undo_stack) =>
                 PositionOf(m, undo_stack') = PositionOf(m, undo_stack)
            /\ m # a.id
<1>0. undo_stack \in Stack
  BY DEF TypeOK, Stack
<1>1. CASE undo_stack = <<>> \/ new_group
  <2> DEFINE b == [a EXCEPT !.opens = TRUE]
  <2>1. b \in Action /\ b.id = a.id /\ b.from = a.from
    BY MarkedSound
  <2>2. undo_stack' = Push(b, undo_stack)
    BY <1>1 DEF AddAction
  <2> HIDE DEF b
  <2>3. Froms(undo_stack') = <<text>> \o Froms(undo_stack)
    BY <1>0, <2>1, <2>2, FromsOfPush
  <2>4. Len(undo_stack') = Len(undo_stack) + 1
    BY <1>0, <2>1, <2>2, PushStack
  <2>5. IdsOf(undo_stack') = {a.id} \cup IdsOf(undo_stack)
    BY <1>0, <2>1, <2>2, IdsOfPush
  <2>6. /\ PositionOf(a.id, undo_stack') = 1
        /\ m \in IdsOf(undo_stack) => PositionOf(m, undo_stack') = PositionOf(m, undo_stack) + 1
    BY <1>0, <2>1, <2>2, PositionOfPush
  <2> QED
    BY <2>3, <2>4, <2>5, <2>6
<1>2. CASE undo_stack # <<>> /\ ~new_group
  <2> DEFINE h == undo_stack[1]
             r == Tail(undo_stack)
  <2>1. h \in Action /\ r \in Stack /\ undo_stack = Push(h, r) /\ OnlyOnce(undo_stack)
    BY <1>0, <1>2, HeadOfStack DEF Linked
  <2>2. h.to = text /\ Sound(h)
    <3>1. 1 \in 1 .. Len(undo_stack)
      BY <1>0, <1>2, EmptySeq DEF Stack
    <3> QED
      BY <3>1 DEF Linked, UndoChain
  <2>3. CASE Merges(h, a, m)
    <3> DEFINE b == Merged(h, a)
    <3>1. undo_stack' = Push(b, r)
      BY <1>2, <2>3 DEF AddAction
    <3> HIDE DEF h, r
    <3>2. b \in Action /\ b.id = h.id /\ b.from = h.from
      BY <2>1, <2>2, <2>3, MergedSound
    <3> HIDE DEF b
    <3>3. Froms(undo_stack') = Froms(undo_stack)
      BY <2>1, <3>1, <3>2, FromsOfPush
    <3>4. Len(undo_stack') = Len(undo_stack)
      BY <2>1, <3>1, <3>2, PushStack
    <3>5. IdsOf(undo_stack) = {h.id} \cup IdsOf(r) /\ IdsOf(undo_stack') = IdsOf(undo_stack)
      <4>1. IdsOf(Push(h, r)) = {h.id} \cup IdsOf(r)
        BY <2>1, IdsOfPush
      <4>2. IdsOf(Push(b, r)) = {b.id} \cup IdsOf(r)
        BY <2>1, <3>2, IdsOfPush
      <4> QED
        BY <2>1, <3>1, <3>2, <4>1, <4>2
    <3>6. m \in IdsOf(undo_stack) => PositionOf(m, undo_stack') = PositionOf(m, undo_stack)
      BY <2>1, <3>1, <3>2, <3>5, PositionOfPush
    <3>7. m # a.id
      BY <2>3 DEF Merges
    <3> QED
      BY <1>2, <3>3, <3>4, <3>5, <3>6, <3>7
  <2>4. CASE ~Merges(h, a, m)
    <3> DEFINE c == Sealed(h, a)
               q == Push(c, r)
               b == [a EXCEPT !.opens = ~do_continue]
    <3>1. undo_stack' = Push(b, q)
      BY <1>2, <2>4 DEF AddAction
    <3>2. b \in Action /\ b.id = a.id /\ b.from = a.from
      <4>1. (~do_continue) \in BOOLEAN
        OBVIOUS
      <4> QED
        BY <4>1, MarkedSound
    <3> HIDE DEF h, r, b
    <3>3. c \in Action /\ c.id = h.id /\ c.from = h.from
      BY <2>1, <2>2, SealedSound
    <3> HIDE DEF c
    <3>4. /\ q \in Stack /\ Len(q) = Len(undo_stack)
          /\ Froms(q) = Froms(undo_stack)
      BY <2>1, <3>3, PushStack, FromsOfPush
    <3>5. /\ IdsOf(undo_stack) = {h.id} \cup IdsOf(r) /\ IdsOf(q) = IdsOf(undo_stack)
          /\ OnlyOnce(q)
      BY <2>1, <3>3, IdsOfPush
    <3>6. m \in IdsOf(undo_stack) => PositionOf(m, q) = PositionOf(m, undo_stack)
      BY <2>1, <3>3, <3>5, PositionOfPush
    <3> HIDE DEF q
    <3>7. Froms(undo_stack') = <<text>> \o Froms(undo_stack)
      BY <3>1, <3>2, <3>4, FromsOfPush
    <3>8. Len(undo_stack') = Len(undo_stack) + 1
      BY <3>1, <3>2, <3>4, PushStack
    <3>9. IdsOf(undo_stack') = {a.id} \cup IdsOf(undo_stack)
      BY <3>1, <3>2, <3>4, <3>5, IdsOfPush
    <3>10. /\ PositionOf(a.id, undo_stack') = 1
           /\ m \in IdsOf(q) => PositionOf(m, undo_stack') = PositionOf(m, q) + 1
      BY <3>1, <3>2, <3>4, PositionOfPush
    <3> QED
      BY <3>5, <3>6, <3>7, <3>8, <3>9, <3>10
  <2> QED
    BY <2>3, <2>4
<1> QED
  BY <1>1, <1>2 DEF TypeOK

-----------------------------------------------------------------------------
(* The steps *)

\* An edit that is recorded by an action of its own, or joins the newest one.
LEMMA EditTextHistory ==
  ASSUME Inv, NEW type \in {"insert", "delete"}, NEW p \in Nat, NEW s \in Text,
         NEW forward \in BOOLEAN, NEW t \in Text, EditText(type, p, s, forward, t),
         type = "insert" => p \in 0 .. Len(text) /\ t = InsertAt(text, p, s),
         type = "delete" => p \in 0 .. Len(t) /\ text = InsertAt(t, p, s)
  PROVE  History!HistoryNext
<1> DEFINE a == NewAction(type, p, s, forward, t)
           m == IF modified THEN modifying_action ELSE a.id
<1>0. walk = "none" /\ text' = t /\ modified' = TRUE
  BY DEF EditText
<1>1. CASE frozen > 0
  <2>1. UNCHANGED <<undo_stack, redo_stack, modifying_action>>
    BY <1>1 DEF EditText
  <2>2. undo_stack = <<>> /\ redo_stack = <<>>
    BY <1>0, <1>1 DEF Inv, Bracketed
  <2>3. CleanPlace' = Lost
    BY <1>0, <2>1, <2>2, EmptyStack DEF CleanPlace
  <2>4. History!EditUnrecorded
    BY <1>0, <2>1, <2>2, <2>3 DEF History!EditUnrecorded, History!Text, Text
  <2> QED
    BY <2>4 DEF History!HistoryNext
<1>2. CASE ~(frozen > 0)
  <2>1. FreeIds # {} /\ AddAction(a, m)
    BY <1>2, Zenon DEF EditText
  <2>2. a \in Action /\ Sound(a) /\ a.from = text
    <3>1. a \in Action
      <4>1. text \in Text
        BY DEF Inv, TypeOK
      <4>2. /\ (non_interactive = 0 /\ user_action_count > 0) \in BOOLEAN
            /\ (forward /\ (non_interactive = 0 /\ user_action_count > 0) /\ type = "delete")
                 \in BOOLEAN
            /\ (Len(s) = 1 /\ s[1] \notin Newlines) \in BOOLEAN
        OBVIOUS
      <4>3. (CHOOSE i \in FreeIds : TRUE) \in ActionIds
        BY <2>1 DEF FreeIds
      <4> QED
        BY <4>1, <4>2, <4>3 DEF NewAction, Action
    <3>2. a.from = text /\ a.to = t /\ a.type = type /\ a.pos = p /\ a.str = s
      BY DEF NewAction
    <3> QED
      BY <3>1, <3>2 DEF Sound, InsertedText
  <2>3. a.id \notin IdsOf(undo_stack) /\ a.id \notin IdsOf(redo_stack)
    BY <2>1 DEF NewAction, FreeIds
  <2> HIDE DEF a
  <2>4. Inv'
    BY EditTextInv
  <2>5. undo_stack \in Stack /\ redo_stack \in Stack /\ undo_stack' \in Stack
    BY <2>4 DEF Inv, TypeOK, Stack
  <2>6. OnlyOnce(undo_stack) /\ OnlyOnce(redo_stack) /\ OnlyOnce(undo_stack')
    BY <2>4 DEF Inv, Linked
  <2>7. /\ redo_stack' = <<>>
        /\ modifying_action' = IF m \in IdsOf(redo_stack) THEN 0 ELSE m
    BY <2>1, Zenon DEF AddAction, AfterDestroy
  <2>8. IdsOf(undo_stack) \cap IdsOf(redo_stack) = {}
    BY DEF Inv, Linked
  <2>9. ~modified => modifying_action = 0
    BY DEF Inv, SavedFound
  <2>10. modifying_action \in IdsOf(undo_stack) \cup IdsOf(redo_stack) \cup {0}
    BY <2>5, LeadsInIds DEF Inv, SavedFound
  <2> DEFINE appended ==
               /\ Froms(undo_stack') = <<text>> \o Froms(undo_stack)
               /\ Len(undo_stack') = Len(undo_stack) + 1
               /\ IdsOf(undo_stack') = {a.id} \cup IdsOf(undo_stack)
               /\ PositionOf(a.id, undo_stack') = 1
               /\ m \in IdsOf(undo_stack) =>
                    PositionOf(m, undo_stack') = PositionOf(m, undo_stack) + 1
             joined ==
               /\ undo_stack # <<>>
               /\ Froms(undo_stack') = Froms(undo_stack)
               /\ Len(undo_stack') = Len(undo_stack)
               /\ IdsOf(undo_stack') = IdsOf(undo_stack)
               /\ m \in IdsOf(undo_stack) =>
                    PositionOf(m, undo_stack') = PositionOf(m, undo_stack)
               /\ m # a.id
  <2>11. appended \/ joined
    <3> HIDE DEF m
    <3> QED
      BY <2>1, <2>2, <2>3, <2>5, <2>6, AddedToHistory DEF Inv
  <2>12. Len(undo_stack) \in Nat /\ Lost \notin Nat
    BY <2>5, LenProperties, UndoStackAssumption DEF Stack, UndoStackAssumption
  <2>13. /\ \A i \in IdsOf(undo_stack) : PositionOf(i, undo_stack) \in 1 .. Len(undo_stack)
         /\ \A i \in IdsOf(redo_stack) : PositionOf(i, redo_stack) \in 1 .. Len(redo_stack)
         /\ Len(redo_stack) \in Nat
    BY <2>5, <2>6, PositionInStack, LenProperties DEF Stack
  <2>14. 0 \notin IdsOf(undo_stack) /\ 0 \notin IdsOf(undo_stack') /\ 0 \notin IdsOf(redo_stack)
    BY <2>5, IdsAreNotZero
  <2>15. CleanPlace = IF ~modified THEN Len(undo_stack)
                      ELSE IF modifying_action \in IdsOf(undo_stack)
                        THEN Len(undo_stack) - PositionOf(modifying_action, undo_stack)
                      ELSE IF modifying_action \in IdsOf(redo_stack)
                        THEN Len(undo_stack) + PositionOf(modifying_action, redo_stack)
                      ELSE Lost
    BY DEF CleanPlace
  <2>16. CleanPlace' = IF modifying_action' \in IdsOf(undo_stack')
                        THEN Len(undo_stack') - PositionOf(modifying_action', undo_stack')
                       ELSE Lost
    BY <1>0, <2>7, EmptyStack, CleanPlaceIsPlace DEF Place
  <2>17. /\ CleanPlace' = IF CleanPlace \in 0 .. Len(undo_stack) THEN CleanPlace ELSE Lost
         /\ joined => CleanPlace # Len(undo_stack)
    <3>1. CASE ~modified
      <4>1. m = a.id /\ modifying_action' = a.id /\ CleanPlace = Len(undo_stack)
        BY <2>3, <2>7, <2>15, <3>1
      <4>2. appended
        BY <2>11, <4>1
      <4> HIDE DEF m
      <4>3. CleanPlace' = Len(undo_stack)
        BY <2>12, <2>16, <4>1, <4>2
      <4> QED
        BY <2>12, <4>1, <4>3
    <3>2. CASE modified /\ modifying_action \in IdsOf(undo_stack)
      <4>1. m = modifying_action /\ modifying_action' = m
        BY <2>7, <2>8, <3>2
      <4>2. CleanPlace = Len(undo_stack) - PositionOf(m, undo_stack)
        BY <2>15, <3>2, <4>1
      <4>3. PositionOf(m, undo_stack) \in 1 .. Len(undo_stack) /\ m \in IdsOf(undo_stack)
        BY <2>13, <3>2, <4>1
      <4> HIDE DEF m
      <4>4. CleanPlace' = CleanPlace
        <5>1. CASE appended
          BY <2>12, <2>16, <4>1, <4>2, <4>3, <5>1
        <5>2. CASE joined
          BY <2>12, <2>16, <4>1, <4>2, <4>3, <5>2
        <5> QED
          BY <2>11, <5>1, <5>2
      <4> QED
        BY <2>12, <4>2, <4>3, <4>4
    <3>3. CASE modified /\ modifying_action \notin IdsOf(undo_stack)
      <4>1. m = modifying_action
        BY <3>3
      <4>2. modifying_action' = 0
        BY <2>7, <2>10, <3>3, <4>1
      <4>3. CleanPlace' = Lost
        BY <2>14, <2>16, <4>2
      <4>4. CleanPlace \notin 0 .. Len(undo_stack)
        BY <2>12, <2>13, <2>15, <3>3
      <4> QED
        BY <2>12, <4>3, <4>4
    <3> QED
      BY <3>1, <3>2, <3>3
  <2>18. Len(Froms(undo_stack)) = Len(undo_stack) /\ Tos(redo_stack') = <<>>
    BY <2>5, <2>7, FromsAndTos, NoTexts
  <2>19. CASE appended
    <3>1. /\ text' \in Text
          /\ Froms(undo_stack') = <<text>> \o Froms(undo_stack)
          /\ Tos(redo_stack') = <<>>
          /\ CleanPlace' = IF CleanPlace \in 0 .. Len(Froms(undo_stack))
                             THEN CleanPlace ELSE Lost
      BY <1>0, <2>17, <2>18, <2>19
    <3>2. History!Edit
      BY <3>1, Zenon DEF History!Edit, History!CleanBehind, History!Text, Text, Froms, Tos
    <3> QED
      BY <3>2, Zenon DEF History!HistoryNext
  <2>20. CASE joined
    <3>1. /\ Froms(undo_stack) # <<>>
          /\ CleanPlace # Len(Froms(undo_stack))
          /\ text' \in Text
          /\ Froms(undo_stack') = Froms(undo_stack)
          /\ Tos(redo_stack') = <<>>
          /\ CleanPlace' = IF CleanPlace \in 0 .. Len(Froms(undo_stack))
                             THEN CleanPlace ELSE Lost
      <4>1. Froms(undo_stack) # <<>>
        BY <2>5, <2>18, <2>20, EmptySeq DEF Stack
      <4> QED
        BY <1>0, <2>17, <2>18, <2>20, <4>1
    <3>2. History!JoinedEdit
      BY <3>1, Zenon
      DEF History!JoinedEdit, History!IsModified, History!CleanBehind, History!Text,
          Text, Froms, Tos
    <3> QED
      BY <3>2, Zenon DEF History!HistoryNext
  <2> QED
    BY <2>11, <2>19, <2>20
<1> QED
  BY <1>1, <1>2

\* Undoing an action goes back by one text.
LEMMA UndoActionHistory ==
  ASSUME Inv, UndoAction
  PROVE  History!Back
<1> DEFINE a == undo_stack[1]
           r == Tail(undo_stack)
<1>1. undo_stack \in Stack /\ redo_stack \in Stack /\ undo_stack # <<>>
  BY DEF Inv, TypeOK, Stack, UndoAction, Grouped
<1>2. a \in Action /\ r \in Stack /\ undo_stack = Push(a, r)
  BY <1>1, HeadOfStack
<1>3. undo_stack' = r /\ redo_stack' = Push(a, redo_stack) /\ text' = Undone(a, text) /\ UndoOrRedo(a)
  BY DEF UndoAction
<1>4. a.to = text /\ Sound(a)
  <2>1. 1 \in 1 .. Len(undo_stack)
    BY <1>1, EmptySeq DEF Stack
  <2> QED
    BY <2>1 DEF Inv, Linked, UndoChain
<1>5. Inv'
  BY UndoActionInv
<1> HIDE DEF a, r
<1>6. text' = a.from /\ a.from \in Text
  BY <1>2, <1>3, <1>4, SoundUndoneRedone DEF Action
<1>7. /\ Froms(undo_stack) # <<>>
      /\ Head(Froms(undo_stack)) = text'
      /\ Tail(Froms(undo_stack)) = Froms(undo_stack')
  <2>1. Froms(undo_stack) = <<a.from>> \o Froms(r)
    BY <1>2, FromsOfPush
  <2>2. Froms(r) \in Seq(Text)
    BY <1>2, FromsAndTos
  <2> HIDE DEF Froms
  <2> QED
    BY <1>3, <1>6, <2>1, <2>2, HeadAndTail, Zenon
<1>8. Tos(redo_stack') = <<text>> \o Tos(redo_stack)
  BY <1>1, <1>2, <1>3, <1>4, TosOfPush
<1>9. CleanPlace' = CleanPlace
  <2>1. OnlyOnce(undo_stack) /\ OnlyOnce(redo_stack) /\ OnlyOnce(redo_stack') /\ OnlyOnce(r)
    BY <1>3, <1>5 DEF Inv, Linked
  <2>2. /\ IdsOf(undo_stack) = {a.id} \cup IdsOf(r) /\ a.id \notin IdsOf(r)
        /\ IdsOf(redo_stack') = {a.id} \cup IdsOf(redo_stack)
    BY <1>1, <1>2, <1>3, <2>1, IdsOfPush
  <2>3. a.id \notin IdsOf(redo_stack) /\ IdsOf(r) \cap IdsOf(redo_stack) = {}
    BY <2>2 DEF Inv, Linked
  <2>4. /\ PositionOf(a.id, undo_stack) = 1
        /\ \A i \in IdsOf(r) : /\ PositionOf(i, undo_stack) = PositionOf(i, r) + 1
                               /\ PositionOf(i, r) \in 1 .. Len(r)
    BY <1>2, <2>1, PositionOfPush
  <2>5. /\ PositionOf(a.id, redo_stack') = 1
        /\ \A i \in IdsOf(redo_stack) :
             /\ PositionOf(i, redo_stack') = PositionOf(i, redo_stack) + 1
             /\ PositionOf(i, redo_stack) \in 1 .. Len(redo_stack)
    BY <1>1, <1>2, <1>3, <2>1, PositionOfPush
  <2>6. Len(undo_stack) = Len(r) + 1 /\ Len(r) \in Nat /\ Len(redo_stack) \in Nat
    BY <1>1, <1>2, PushStack
  <2>7. /\ modified' = ~(modified /\ modifying_action = a.id)
        /\ modifying_action' = IF ~modified /\ modifying_action = 0 THEN a.id
                               ELSE IF modified /\ modifying_action = a.id THEN 0
                               ELSE modifying_action
    BY <1>3 DEF UndoOrRedo
  <2> DEFINE before == Place(undo_stack, redo_stack, modified, modifying_action)
             after == Place(r, redo_stack', modified', modifying_action')
  <2>8. before = after
    <3>1. CASE ~modified
      <4>1. modified' /\ modifying_action' = a.id
        BY <2>7, <3>1 DEF Inv, SavedFound
      <4>2. after = Len(r) + 1
        BY <2>2, <2>5, <4>1 DEF Place
      <4>3. before = Len(undo_stack)
        BY <3>1 DEF Place
      <4> QED
        BY <2>6, <4>2, <4>3
    <3>2. CASE modified /\ modifying_action = a.id
      <4>1. ~modified'
        BY <2>7, <3>2
      <4>2. after = Len(r)
        BY <4>1 DEF Place
      <4>3. before = Len(undo_stack) - 1
        BY <2>2, <2>4, <3>2 DEF Place
      <4> QED
        BY <2>6, <4>2, <4>3
    <3>3. CASE modified /\ modifying_action # a.id
      <4>1. modified' /\ modifying_action' = modifying_action
        BY <2>7, <3>3
      <4>2. CASE modifying_action \in IdsOf(r)
        <5>1. before = Len(undo_stack) - PositionOf(modifying_action, undo_stack)
          BY <2>2, <3>3, <4>2 DEF Place
        <5>2. after = Len(r) - PositionOf(modifying_action, r)
          BY <4>1, <4>2 DEF Place
        <5> QED
          BY <2>4, <2>6, <4>2, <5>1, <5>2
      <4>3. CASE modifying_action \in IdsOf(redo_stack)
        <5>1. modifying_action \notin IdsOf(r) /\ modifying_action \notin IdsOf(undo_stack)
          BY <2>2, <2>3, <3>3, <4>3
        <5>2. before = Len(undo_stack) + PositionOf(modifying_action, redo_stack)
          BY <3>3, <4>3, <5>1 DEF Place
        <5>3. after = Len(r) + PositionOf(modifying_action, redo_stack')
          BY <2>2, <4>1, <4>3, <5>1 DEF Place
        <5> QED
          BY <2>5, <2>6, <4>3, <5>2, <5>3
      <4>4. CASE modifying_action \notin IdsOf(r) \cup IdsOf(redo_stack)
        BY <2>2, <3>3, <4>1, <4>4 DEF Place
      <4> QED
        BY <4>2, <4>3, <4>4
    <3> QED
      BY <3>1, <3>2, <3>3
  <2> QED
    BY <1>3, <2>8, CleanPlaceIsPlace
<1> QED
  BY <1>7, <1>8, <1>9, Zenon DEF History!Back, Froms, Tos

\* Redoing an action goes forth by one text.
LEMMA RedoActionHistory ==
  ASSUME Inv, RedoAction
  PROVE  History!Forth
<1> DEFINE a == redo_stack[1]
           r == Tail(redo_stack)
<1>1. undo_stack \in Stack /\ redo_stack \in Stack /\ redo_stack # <<>>
  BY DEF Inv, TypeOK, Stack, RedoAction, Grouped
<1>2. a \in Action /\ r \in Stack /\ redo_stack = Push(a, r)
  BY <1>1, HeadOfStack
<1>3. redo_stack' = r /\ undo_stack' = Push(a, undo_stack) /\ text' = Redone(a, text) /\ UndoOrRedo(a)
  BY DEF RedoAction
<1>4. a.from = text /\ Sound(a)
  <2>1. 1 \in 1 .. Len(redo_stack)
    BY <1>1, EmptySeq DEF Stack
  <2> QED
    BY <2>1 DEF Inv, Linked, RedoChain
<1>5. Inv'
  BY RedoActionInv
<1> HIDE DEF a, r
<1>6. text' = a.to /\ a.to \in Text
  BY <1>2, <1>3, <1>4, SoundUndoneRedone DEF Action
<1>7. /\ Tos(redo_stack) # <<>>
      /\ Head(Tos(redo_stack)) = text'
      /\ Tail(Tos(redo_stack)) = Tos(redo_stack')
  <2>1. Tos(redo_stack) = <<a.to>> \o Tos(r)
    BY <1>2, TosOfPush
  <2>2. Tos(r) \in Seq(Text)
    BY <1>2, FromsAndTos
  <2> QED
    BY <1>3, <1>6, <2>1, <2>2, HeadAndTail, Zenon
<1>8. Froms(undo_stack') = <<text>> \o Froms(undo_stack)
  BY <1>1, <1>2, <1>3, <1>4, FromsOfPush
<1>9. CleanPlace' = CleanPlace
  <2>1. OnlyOnce(undo_stack) /\ OnlyOnce(redo_stack) /\ OnlyOnce(undo_stack') /\ OnlyOnce(r)
    BY <1>3, <1>5 DEF Inv, Linked
  <2>2. /\ IdsOf(redo_stack) = {a.id} \cup IdsOf(r) /\ a.id \notin IdsOf(r)
        /\ IdsOf(undo_stack') = {a.id} \cup IdsOf(undo_stack)
    BY <1>1, <1>2, <1>3, <2>1, IdsOfPush
  <2>3. a.id \notin IdsOf(undo_stack) /\ IdsOf(r) \cap IdsOf(undo_stack) = {}
    BY <2>2 DEF Inv, Linked
  <2>4. /\ PositionOf(a.id, redo_stack) = 1
        /\ \A i \in IdsOf(r) : /\ PositionOf(i, redo_stack) = PositionOf(i, r) + 1
                               /\ PositionOf(i, r) \in 1 .. Len(r)
    BY <1>2, <2>1, PositionOfPush
  <2>5. /\ PositionOf(a.id, undo_stack') = 1
        /\ \A i \in IdsOf(undo_stack) :
             /\ PositionOf(i, undo_stack') = PositionOf(i, undo_stack) + 1
             /\ PositionOf(i, undo_stack) \in 1 .. Len(undo_stack)
    BY <1>1, <1>2, <1>3, <2>1, PositionOfPush
  <2>6. Len(undo_stack') = Len(undo_stack) + 1 /\ Len(r) \in Nat /\ Len(undo_stack) \in Nat
    BY <1>1, <1>2, <1>3, PushStack
  <2>7. /\ modified' = ~(modified /\ modifying_action = a.id)
        /\ modifying_action' = IF ~modified /\ modifying_action = 0 THEN a.id
                               ELSE IF modified /\ modifying_action = a.id THEN 0
                               ELSE modifying_action
    BY <1>3 DEF UndoOrRedo
  <2> DEFINE before == Place(undo_stack, redo_stack, modified, modifying_action)
             after == Place(undo_stack', r, modified', modifying_action')
  <2>8. before = after
    <3>1. CASE ~modified
      <4>1. modified' /\ modifying_action' = a.id
        BY <2>7, <3>1 DEF Inv, SavedFound
      <4>2. after = Len(undo_stack') - 1
        BY <2>2, <2>5, <4>1 DEF Place
      <4>3. before = Len(undo_stack)
        BY <3>1 DEF Place
      <4> QED
        BY <2>6, <4>2, <4>3
    <3>2. CASE modified /\ modifying_action = a.id
      <4>1. ~modified'
        BY <2>7, <3>2
      <4>2. after = Len(undo_stack')
        BY <4>1 DEF Place
      <4>3. before = Len(undo_stack) + 1
        BY <2>2, <2>3, <2>4, <3>2 DEF Place
      <4> QED
        BY <2>6, <4>2, <4>3
    <3>3. CASE modified /\ modifying_action # a.id
      <4>1. modified' /\ modifying_action' = modifying_action
        BY <2>7, <3>3
      <4>2. CASE modifying_action \in IdsOf(undo_stack)
        <5>1. before = Len(undo_stack) - PositionOf(modifying_action, undo_stack)
          BY <3>3, <4>2 DEF Place
        <5>2. after = Len(undo_stack') - PositionOf(modifying_action, undo_stack')
          BY <2>2, <4>1, <4>2 DEF Place
        <5> QED
          BY <2>5, <2>6, <4>2, <5>1, <5>2
      <4>3. CASE modifying_action \in IdsOf(r)
        <5>1. modifying_action \notin IdsOf(undo_stack) /\ modifying_action \notin IdsOf(undo_stack')
          BY <2>2, <2>3, <3>3, <4>3
        <5>2. before = Len(undo_stack) + PositionOf(modifying_action, redo_stack)
          BY <2>2, <3>3, <4>3, <5>1 DEF Place
        <5>3. after = Len(undo_stack') + PositionOf(modifying_action, r)
          BY <4>1, <4>3, <5>1 DEF Place
        <5> QED
          BY <2>4, <2>6, <4>3, <5>2, <5>3
      <4>4. CASE modifying_action \notin IdsOf(r) \cup IdsOf(undo_stack)
        BY <2>2, <3>3, <4>1, <4>4 DEF Place
      <4> QED
        BY <4>2, <4>3, <4>4
    <3> QED
      BY <3>1, <3>2, <3>3
  <2> QED
    BY <1>3, <2>8, CleanPlaceIsPlace
<1> QED
  BY <1>7, <1>8, <1>9, Zenon DEF History!Forth, Froms, Tos

\* The flag says whether the history is at its clean place.
LEMMA ModifiedAwayFromClean == Inv => (CleanPlace = Len(undo_stack) <=> ~modified)
<1> SUFFICES ASSUME Inv PROVE CleanPlace = Len(undo_stack) <=> ~modified
  OBVIOUS
<1>1. undo_stack \in Stack /\ redo_stack \in Stack
  BY DEF Inv, TypeOK, Stack
<1>2. /\ \A i \in IdsOf(undo_stack) : PositionOf(i, undo_stack) \in 1 .. Len(undo_stack)
      /\ \A i \in IdsOf(redo_stack) : PositionOf(i, redo_stack) \in 1 .. Len(redo_stack)
      /\ Len(undo_stack) \in Nat /\ Len(redo_stack) \in Nat /\ Lost \notin Nat
  BY <1>1, PositionInStack, LenProperties, UndoStackAssumption
  DEF Inv, Linked, Stack, UndoStackAssumption
<1> QED
  BY <1>2 DEF CleanPlace

\* A non-undoable action makes the abstract history forget;
LEMMA ForgetHistory ==
  ASSUME Inv, BeginNonUndoableAction, frozen = 0
  PROVE  History!Forget
<1>1. undo_stack' = <<>> /\ redo_stack' = <<>> /\ text' = text /\ modified' = modified
  BY DEF BeginNonUndoableAction
<1>2. modifying_action' = 0
  <2>1. Inv'
    BY BracketsInv DEF Brackets
  <2> QED
    BY <1>1, <2>1, EmptyStack DEF Inv, SavedFound
<1>3. CleanPlace' = IF modified THEN Lost ELSE 0
  <2>1. Len(undo_stack') = 0
    BY <1>1
  <2> QED
    BY <1>1, <1>2, <2>1, EmptyStack, CleanPlaceIsPlace DEF Place
<1>4. CleanPlace # Len(Froms(undo_stack)) <=> modified
  <2>1. Len(Froms(undo_stack)) = Len(undo_stack)
    BY FromsAndTos DEF Inv, TypeOK, Stack
  <2> QED
    BY <2>1, ModifiedAwayFromClean DEF Inv, TypeOK
<1>5. Froms(undo_stack') = <<>> /\ Tos(redo_stack') = <<>>
  BY <1>1, NoTexts
<1> QED
  BY <1>1, <1>3, <1>4, <1>5, Zenon DEF History!Forget, History!IsModified, Froms, Tos

\* setting the modified flag marks its text clean, or not;
LEMMA SetModifiedHistory ==
  ASSUME Inv, NEW b \in BOOLEAN, SetModified(b)
  PROVE  History!MarkClean(~b)
<1>1. /\ UNCHANGED <<undo_stack, redo_stack, text>>
      /\ b # modified /\ modified' = b
      /\ modifying_action' = IF b THEN modifying_action ELSE 0
  BY DEF SetModified, stackVars
<1>2. modifying_action' = 0
  BY <1>1 DEF Inv, TypeOK, SavedFound
<1>3. 0 \notin IdsOf(undo_stack) /\ 0 \notin IdsOf(redo_stack)
  BY IdsAreNotZero DEF Inv, TypeOK, Stack
<1>4. CleanPlace' = IF ~b THEN Len(undo_stack) ELSE Lost
  BY <1>1, <1>2, <1>3, CleanPlaceIsPlace DEF Place
<1>5. Len(Froms(undo_stack)) = Len(undo_stack)
  BY FromsAndTos DEF Inv, TypeOK, Stack
<1> QED
  BY <1>1, <1>4, <1>5 DEF History!MarkClean, Froms

\* Steps that touch neither the text nor the stacks nor the flag.
LEMMA StutterHistory ==
  ASSUME UNCHANGED <<text, undo_stack, redo_stack, modified, modifying_action>>
  PROVE  UNCHANGED History!historyVars
<1>1. CleanPlace' = CleanPlace
  BY CleanPlaceIsPlace
<1> QED
  BY <1>1 DEF History!historyVars

\* every step is one of the abstract history, or a stutter.
LEMMA NextHistory == Inv /\ [Next]_vars => [History!HistoryNext]_(History!historyVars)
<1> SUFFICES ASSUME Inv, [Next]_vars
             PROVE  History!HistoryNext \/ UNCHANGED History!historyVars
  OBVIOUS
<1>1. ASSUME NEW p \in 0 .. Len(text), NEW n \in 1 .. MaxLength, NEW s \in [1 .. n -> Char],
             Insert(p, s)
      PROVE  History!HistoryNext
  <2>1. s \in Text /\ p \in Nat /\ text \in Text
    BY DEF Inv, TypeOK, Text
  <2>2. InsertAt(text, p, s) \in Text
    BY <2>1, DeleteInserted
  <2>3. EditText("insert", p, s, FALSE, InsertAt(text, p, s))
    BY <1>1 DEF Insert
  <2> QED
    BY <2>1, <2>2, <2>3, EditTextHistory
<1>2. ASSUME NEW p \in 0 .. Len(text), NEW n \in 1 .. MaxLength, NEW forward \in BOOLEAN,
             Delete(p, n, forward)
      PROVE  History!HistoryNext
  <2> DEFINE s == SubSeq(text, p + 1, p + n)
             t == DeleteAt(text, p, n)
  <2>1. p \in Nat /\ n \in Nat /\ text \in Text /\ p + n <= Len(text) /\ Len(text) \in Nat
    <3>1. text \in Text
      BY DEF Inv, TypeOK
    <3> QED
      BY <1>2, <3>1, UndoStackAssumption, LenProperties DEF Delete, Text, UndoStackAssumption
  <2>2. s \in Text /\ t \in Text /\ Len(t) = Len(text) - n /\ text = InsertAt(t, p, s)
    BY <2>1, InsertDeleted
  <2>3. EditText("delete", p, s, forward, t)
    BY <1>2 DEF Delete
  <2> HIDE DEF s, t
  <2>4. p \in 0 .. Len(t)
    BY <2>1, <2>2
  <2> QED
    BY <2>1, <2>2, <2>3, <2>4, EditTextHistory
<1>3. ASSUME NEW direction \in {"undo", "redo"}, StartWalk(direction)
      PROVE  UNCHANGED History!historyVars
  BY <1>3, StutterHistory DEF StartWalk, bufferVars
<1>4. CASE UndoAction
  BY <1>4, UndoActionHistory, Zenon DEF History!HistoryNext
<1>5. CASE RedoAction
  BY <1>5, RedoActionHistory, Zenon DEF History!HistoryNext
<1>6. CASE Brackets
  <2>1. CASE BeginUserAction
    BY <2>1, StutterHistory DEF BeginUserAction
  <2>2. CASE EndUserAction
    BY <2>2, StutterHistory DEF EndUserAction
  <2>3. CASE BeginNonUndoableAction /\ frozen = 0
    BY <2>3, ForgetHistory, Zenon DEF History!HistoryNext
  <2>4. CASE BeginNonUndoableAction /\ frozen # 0
    BY <2>4, StutterHistory DEF BeginNonUndoableAction
  <2>5. CASE EndNonUndoableAction
    BY <2>5, StutterHistory DEF EndNonUndoableAction, bufferVars
  <2>6. CASE \E n \in Nesting : NonInteractive(n)
    BY <2>6, StutterHistory DEF NonInteractive, stackVars
  <2> QED
    BY <1>6, <2>1, <2>2, <2>3, <2>4, <2>5, <2>6 DEF Brackets
<1>7. ASSUME NEW b \in BOOLEAN, SetModified(b) PROVE History!HistoryNext
  <2>1. History!MarkClean(~b) /\ (~b) \in BOOLEAN
    BY <1>7, SetModifiedHistory
  <2> QED
    BY <2>1, Zenon DEF History!HistoryNext
<1>8. CASE UNCHANGED vars
  BY <1>8, StutterHistory DEF vars, stackVars, bufferVars
<1> QED
  BY <1>1, <1>2, <1>3, <1>4, <1>5, <1>6, <1>7, <1>8 DEF Next, Walks

\* The empty stacks are the history there is in the beginning.
LEMMA InitHistory == Init => History!HistoryInit
<1> SUFFICES ASSUME Init PROVE History!HistoryInit
  OBVIOUS
<1>1. CleanPlace = 0
  BY DEF Init, CleanPlace
<1>2. Froms(undo_stack) = <<>> /\ Tos(redo_stack) = <<>>
  BY NoTexts DEF Init
<1> QED
  BY <1>1, <1>2 DEF Init, History!HistoryInit, Froms, Tos

\* Undo and redo move along the texts the edits led through, and the buffer
\* becomes unmodified exactly where it was last unmodified, whatever is merged,
\* grouped, nested or forgotten.
THEOREM UndoImplementsHistory == Spec => ImplementsHistory
BY InitHistory, NextHistory, SpecInv, PTL DEF Spec, ImplementsHistory, History!HistorySpec
==============================================================================
