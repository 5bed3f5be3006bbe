---------------------------- MODULE DocManualProofs ----------------------------
(***************************************************************************)
(* Documents while auto sync is never on and a quit comes from the         *)
(* outermost main loop, for any number of files, documents and monitors    *)
(* and any depth of nested handlers: no handler runs on a closed document, *)
(* no document is closed with unsaved text behind the user's back, the     *)
(* flag MODIFIED tells the truth, and a document is flagged by the event   *)
(* that was just reported.                                                 *)
(***************************************************************************)
EXTENDS DocSyncProofs, FiniteSetTheorems

\* What the theorems below assume: auto sync is never on, and no quit is
\* dispatched by the main loop of a dialog.  With one that is, the handlers
\* further out find their documents closed.
ManualOnly == Prefs \subseteq {FALSE} /\ QuitDepth <= 1

(***************************************************************************)
(* The stack of handlers                                                   *)
(***************************************************************************)
Closers == {"close", "save_changes_dialog", "do_close_doc", "close_after_save"}

Savers == {"save", "do_save", "save_utf8", "save_local", "save_as_dialog",
           "overwrite_modified_dialog", "save_error_dialog", "save_error_enc_dialog"}

\* Handlers there are under auto sync only.
OfAutoSync == {"autosync_callback", "autosync_after_save", "new_doc_after_save_as"}

\* The outermost handler, but for the quit it may be a part of.
Outermost(s, k) == k = Len(s) \/ (k + 1 = Len(s) /\ s[k + 1].at = "close_all")

\* A document is closed by the outermost handler, and saved by that or on its
\* behalf, since closing, saving and quitting are what the user asks for in the
\* outermost main loop.  What an open document is opened for is known to no
\* handler further out.
ManualStack(s) ==
  /\ \A k \in 1 .. Len(s) : s[k].at \notin OfAutoSync
  /\ \A k \in 1 .. Len(s) : s[k].at = "close_all" => k = Len(s) /\ s[k].doc \notin Docs
  /\ \A k \in 1 .. Len(s) : s[k].at \in Closers => Outermost(s, k)
  /\ \A k \in 1 .. Len(s) : s[k].at \in Savers =>
       Outermost(s, k) \/ (k # Len(s) /\ s[k + 1].at = "close_after_save")
  /\ \A k \in 1 .. Len(s) : k # Len(s) /\ s[k + 1].at = "close_after_save" =>
       s[k].at \in Savers /\ s[k].doc = s[k + 1].doc
  /\ \A k, j \in 1 .. Len(s) : s[k].at = "open_after_load" /\ j > k => s[j].doc # s[k].doc

\* A step that makes the stack of frames of the old one and of those of New.
Made(New) ==
  /\ ManualStack(stack')
  /\ \A j \in 1 .. Len(stack') : \/ stack'[j] \in New
                                 \/ \E k \in 1 .. Len(stack) : stack'[j] = stack[k]

USE DEF Labels, Dialogs, Calls, Resumes, OnFile, Closers, Savers, OfAutoSync, Homeless

\* A handler returns.
LEMMA PopMade ==
  ASSUME GoodStack(stack), stack # <<>>, ManualStack(stack), stack' = Tail(stack)
  PROVE  Made({})
  <1> DEFINE s == stack
             t == stack'
  <1>1. /\ Len(s) \in Nat /\ Len(t) = Len(s) - 1
        /\ \A k \in 1 .. Len(s) - 1 : t[k] = s[k + 1]
    BY Popped
  <1> HIDE DEF s, t
  <1>2. \A k \in 1 .. Len(t) : k + 1 \in 1 .. Len(s) /\ t[k] = s[k + 1]
    BY <1>1
  <1>3. \A k \in 1 .. Len(t) : k # Len(t) => k + 1 \in 1 .. Len(t) /\ t[k + 1] = s[(k + 1) + 1]
    BY <1>1
  <1>4. ManualStack(s)
    BY DEF s
  <1>6. ASSUME NEW k \in 1 .. Len(t), Outermost(s, k + 1) PROVE Outermost(t, k)
    BY <1>1, <1>3, <1>6 DEF Outermost
  <1>5. ManualStack(t)
    <2>1. \A k \in 1 .. Len(t) :
            /\ t[k].at \notin OfAutoSync
            /\ t[k].at = "close_all" => k = Len(t) /\ t[k].doc \notin Docs
      BY <1>1, <1>2, <1>4 DEF ManualStack
    <2>2. ASSUME NEW k \in 1 .. Len(t), t[k].at \in Closers PROVE Outermost(t, k)
      BY <1>2, <1>4, <1>6, <2>2 DEF ManualStack
    <2>3. ASSUME NEW k \in 1 .. Len(t), t[k].at \in Savers, ~Outermost(t, k)
          PROVE  k # Len(t) /\ t[k + 1].at = "close_after_save"
      <3>1. k # Len(t)
        BY <2>3 DEF Outermost
      <3>2. /\ k + 1 \in 1 .. Len(s) /\ t[k] = s[k + 1] /\ t[k + 1] = s[(k + 1) + 1]
            /\ ~Outermost(s, k + 1)
        BY <1>2, <1>3, <1>6, <2>3, <3>1
      <3> QED
        BY <1>4, <2>3, <3>1, <3>2 DEF ManualStack
    <2>4. ASSUME NEW k \in 1 .. Len(t), k # Len(t), t[k + 1].at = "close_after_save"
          PROVE  t[k].at \in Savers /\ t[k].doc = t[k + 1].doc
      <3>1. /\ k + 1 \in 1 .. Len(s) /\ k + 1 # Len(s)
            /\ t[k] = s[k + 1] /\ t[k + 1] = s[(k + 1) + 1]
        BY <1>1, <1>2, <1>3, <2>4
      <3> QED
        BY <1>4, <2>4, <3>1 DEF ManualStack
    <2>5. ASSUME NEW k \in 1 .. Len(t), NEW j \in 1 .. Len(t), t[k].at = "open_after_load", j > k
          PROVE  t[j].doc # t[k].doc
      <3>1. k + 1 \in 1 .. Len(s) /\ j + 1 \in 1 .. Len(s) /\ j + 1 > k + 1
        BY <1>2, <2>5
      <3>2. t[k] = s[k + 1] /\ t[j] = s[j + 1] /\ s[k + 1].at = "open_after_load"
        BY <1>2, <2>5
      <3>3. s[j + 1].doc # s[k + 1].doc
        BY <1>4, <3>1, <3>2 DEF ManualStack
      <3> QED
        BY <3>2, <3>3
    <2> QED
      BY <2>1, <2>2, <2>3, <2>4, <2>5 DEF ManualStack
  <1> QED
    BY <1>2, <1>5 DEF s, t, Made

\* A handler is called, by the main loop of a dialog or by the poll, or
\* something by the outermost main loop.
LEMMA PushMade ==
  ASSUME GoodStack(stack), ManualStack(stack), NEW f \in Frames, Push(f),
         f.at \notin OfAutoSync \cup {"open_after_load", "close_after_save"},
         f.at = "close_all" => stack = <<>> /\ f.doc \notin Docs,
         \/ stack = <<>>
         \/ Top.at \in Dialogs \cup {"do_stat"} /\ f.at \notin Closers \cup Savers
         \/ Top.at = "close_all" /\ f.at \in Closers
  PROVE  Made({f})
  <1> DEFINE s == stack
             t == stack'
  <1>1. /\ Len(s) \in Nat /\ Len(t) = Len(s) + 1 /\ t[1] = f
        /\ \A k \in 1 .. Len(s) : t[k + 1] = s[k]
    BY PushedOver DEF Suspended, Top
  <1>2. s = <<>> => Len(s) = 0
    OBVIOUS
  <1> HIDE DEF s, t
  <1>3. \A k \in 1 .. Len(t) : k = 1 \/ (k - 1 \in 1 .. Len(s) /\ t[k] = s[k - 1])
    <2> TAKE k \in 1 .. Len(t)
    <2>1. k # 1 => k - 1 \in 1 .. Len(s) /\ (k - 1) + 1 = k
      BY <1>1
    <2> QED
      BY <1>1, <2>1
  <1>4. ManualStack(s) /\ (s # <<>> => s[1].at \in Dialogs \cup Homeless)
    BY DEF s, Top
  <1>5. /\ s # <<>> => f.at \notin Savers \cup {"close_all"}
        /\ s # <<>> /\ f.at \in Closers => s[1].at = "close_all"
        /\ f.at = "close_all" => f.doc \notin Docs
    BY DEF s, Top
  <1>7. ASSUME NEW k \in 1 .. Len(t), k # 1, Outermost(s, k - 1) PROVE Outermost(t, k)
    BY <1>1, <1>7 DEF Outermost
  <1>8. f.at \in Closers \cup Savers => Outermost(t, 1)
    <2>1. CASE s = <<>>
      BY <1>1, <1>2, <2>1 DEF Outermost
    <2>2. CASE s # <<>> /\ s[1].at = "close_all"
      <3>1. 1 \in 1 .. Len(s)
        BY <1>1, <2>2, EmptySeq DEF s, GoodStack
      <3>2. Len(s) = 1 /\ t[1 + 1] = s[1]
        BY <1>1, <1>4, <2>2, <3>1 DEF ManualStack
      <3> QED
        BY <1>1, <2>2, <3>2 DEF Outermost
    <2> QED
      BY <1>5, <2>1, <2>2
  <1>6. ManualStack(t)
    <2>1. \A k \in 1 .. Len(t) :
            /\ t[k].at \notin OfAutoSync
            /\ t[k].at = "close_all" => k = Len(t) /\ t[k].doc \notin Docs
      BY <1>1, <1>2, <1>3, <1>4, <1>5 DEF ManualStack
    <2>2. \A k \in 1 .. Len(t) : t[k].at \in Closers => Outermost(t, k)
      BY <1>1, <1>3, <1>4, <1>7, <1>8 DEF ManualStack
    <2>3. ASSUME NEW k \in 1 .. Len(t), t[k].at \in Savers, ~Outermost(t, k)
          PROVE  k # Len(t) /\ t[k + 1].at = "close_after_save"
      <3>1. k # 1 /\ k # Len(t)
        BY <1>1, <1>8, <2>3 DEF Outermost
      <3>2. k - 1 \in 1 .. Len(s) /\ t[k] = s[k - 1] /\ (k - 1) + 1 = k /\ k - 1 # Len(s)
            /\ k \in 1 .. Len(s) /\ t[k + 1] = s[k]
        BY <1>1, <1>3, <2>3, <3>1
      <3>3. ~Outermost(s, k - 1)
        BY <1>7, <2>3, <3>1
      <3>4. s[k].at = "close_after_save"
        BY <1>4, <2>3, <3>2, <3>3 DEF ManualStack
      <3> QED
        BY <3>1, <3>2, <3>4
    <2>4. ASSUME NEW k \in 1 .. Len(t), k # Len(t), t[k + 1].at = "close_after_save"
          PROVE  t[k].at \in Savers /\ t[k].doc = t[k + 1].doc
      <3>1. k \in 1 .. Len(s) /\ t[k + 1] = s[k]
        BY <1>1, <2>4
      <3>2. k # 1
        BY <1>2, <1>4, <2>4, <3>1
      <3>3. k - 1 \in 1 .. Len(s) /\ t[k] = s[k - 1] /\ (k - 1) + 1 = k /\ k - 1 # Len(s)
        BY <1>1, <1>3, <3>1, <3>2
      <3> QED
        BY <1>4, <2>4, <3>1, <3>3 DEF ManualStack
    <2>5. ASSUME NEW k \in 1 .. Len(t), NEW j \in 1 .. Len(t), t[k].at = "open_after_load", j > k
          PROVE  t[j].doc # t[k].doc
      <3>1. k # 1 /\ j # 1
        BY <1>1, <2>5
      <3>2. /\ k - 1 \in 1 .. Len(s) /\ t[k] = s[k - 1]
            /\ j - 1 \in 1 .. Len(s) /\ t[j] = s[j - 1] /\ j - 1 > k - 1
        BY <1>3, <2>5, <3>1
      <3> QED
        BY <1>4, <2>5, <3>2 DEF ManualStack
    <2> QED
      BY <2>1, <2>2, <2>3, <2>4, <2>5 DEF ManualStack
  <1> QED
    BY <1>1, <1>3, <1>6 DEF s, t, Made

\* A handler goes on.
LEMMA GoMade ==
  ASSUME GoodStack(stack), stack # <<>>, ManualStack(stack), NEW f \in Frames, Goto(f),
         f.doc = D,
         f.at \notin OfAutoSync \cup {"open_after_load", "close_after_save", "close_all"},
         f.at \in Closers => Top.at \in Closers,
         f.at \in Savers <=> Top.at \in Savers
  PROVE  Made({f})
  <1> DEFINE s == stack
             u == Tail(stack)
             t == stack'
  <1>1. /\ Len(s) \in Nat \ {0} /\ Len(u) = Len(s) - 1 /\ u \in Seq(SuspendedFrames)
        /\ \A k \in 1 .. Len(s) - 1 : u[k] = s[k + 1]
    BY Popped, EmptySeq DEF GoodStack
  <1>2. t = <<f>> \o u
    BY DEF Goto
  <1> HIDE DEF s, t, u
  <1>3. Len(t) = Len(u) + 1 /\ t[1] = f /\ \A k \in 1 .. Len(u) : t[k + 1] = u[k]
    BY <1>1, <1>2, Pushed
  <1>4. Len(t) = Len(s) /\ \A k \in 1 .. Len(s) : k # 1 => t[k] = s[k]
    <2> SUFFICES ASSUME NEW k \in 1 .. Len(s), k # 1 PROVE t[k] = s[k]
      BY <1>1, <1>3
    <2>1. k - 1 \in 1 .. Len(u) /\ (k - 1) + 1 = k
      BY <1>1
    <2> QED
      BY <1>1, <1>3, <2>1
  <1>5. ManualStack(s) /\ Top = s[1] /\ D = s[1].doc
    BY DEF s, Top, D
  <1>6. ManualStack(t)
    <2>1. \A k \in 1 .. Len(t) :
            /\ t[k].at \notin OfAutoSync
            /\ t[k].at = "close_all" => k = Len(t) /\ t[k].doc \notin Docs
      BY <1>3, <1>4, <1>5 DEF ManualStack
    <2>3. \A k \in 1 .. Len(t) : k + 1 \in 1 .. Len(t) => t[k + 1] = s[k + 1]
      BY <1>1, <1>4
    <2>7. ASSUME NEW k \in 1 .. Len(t), Outermost(s, k) PROVE Outermost(t, k)
      BY <1>1, <1>4, <2>3, <2>7 DEF Outermost
    <2>2. \A k \in 1 .. Len(t) : t[k].at \in Closers => Outermost(t, k)
      BY <1>1, <1>3, <1>4, <1>5, <2>7 DEF ManualStack
    <2>4. \A k \in 1 .. Len(t) : t[k].at \in Savers =>
            Outermost(t, k) \/ (k # Len(t) /\ t[k + 1].at = "close_after_save")
      BY <1>1, <1>3, <1>4, <1>5, <2>3, <2>7 DEF ManualStack
    <2>5. \A k \in 1 .. Len(t) : k # Len(t) /\ t[k + 1].at = "close_after_save" =>
            t[k].at \in Savers /\ t[k].doc = t[k + 1].doc
      BY <1>1, <1>3, <1>4, <1>5, <2>3 DEF ManualStack
    <2>6. \A k, j \in 1 .. Len(t) : t[k].at = "open_after_load" /\ j > k => t[j].doc # t[k].doc
      BY <1>1, <1>3, <1>4, <1>5 DEF ManualStack
    <2> QED
      BY <2>1, <2>2, <2>4, <2>5, <2>6 DEF ManualStack
  <1> QED
    BY <1>1, <1>3, <1>4, <1>6 DEF s, t, Made

\* The outermost handler closes a document, and saves it first.
LEMMA SaveMade ==
  ASSUME GoodStack(stack), stack # <<>>, ManualStack(stack), Top.at \in Closers,
         NEW f \in Frames, NEW g \in SuspendedFrames, stack' = <<f, g>> \o Tail(stack),
         f.at = "save", g.at = "close_after_save", f.doc = g.doc
  PROVE  Made({f, g})
  <1> DEFINE s == stack
             u == Tail(stack)
             t == stack'
  <1>1. /\ Len(s) \in Nat \ {0} /\ Len(u) = Len(s) - 1 /\ u \in Seq(SuspendedFrames)
        /\ \A k \in 1 .. Len(s) - 1 : u[k] = s[k + 1]
    BY Popped, EmptySeq DEF GoodStack
  <1>2. /\ 1 \in 1 .. Len(s) /\ s[1].at \in Closers /\ ManualStack(s)
        /\ t = <<f, g>> \o u
    BY <1>1 DEF Top
  <1> HIDE DEF s, t, u
  <1>3. Outermost(s, 1)
    BY <1>2 DEF ManualStack
  <1>4. /\ Len(t) = Len(u) + 2 /\ t[1] = f /\ t[2] = g
        /\ \A k \in 1 .. Len(u) : t[k + 2] = u[k]
    BY <1>1, <1>2, PushedTwo
  <1>5. CASE Len(s) = 1
    <2>1. Len(t) = 2
      BY <1>1, <1>4, <1>5
    <2>2. \A k \in 1 .. Len(t) : k = 1 \/ k = 2
      BY <2>1
    <2>3. ManualStack(t)
      BY <1>4, <2>1, <2>2 DEF ManualStack, Outermost
    <2> QED
      BY <1>4, <2>2, <2>3 DEF t, Made
  <1>6. CASE Len(s) # 1
    <2>1. Len(s) = 2 /\ s[2].at = "close_all" /\ s[2].doc \notin Docs
      <3>1. 1 + 1 = Len(s) /\ s[1 + 1].at = "close_all"
        BY <1>1, <1>3, <1>6 DEF Outermost
      <3>2. 1 + 1 = 2
        OBVIOUS
      <3>3. 2 = Len(s) /\ s[2].at = "close_all"
        BY <3>1, <3>2, Zenon
      <3>4. 2 \in 1 .. Len(s)
        <4> DEFINE n == Len(s)
        <4>1. n = 2
          BY <3>3
        <4> HIDE DEF n
        <4>2. 2 \in 1 .. n
          BY <4>1
        <4> QED
          BY <4>2 DEF n
      <3> QED
        BY <1>2, <3>3, <3>4 DEF ManualStack
    <2>2. Len(t) = 3 /\ t[3] = s[2]
      <3>1. Len(u) = 1 /\ 1 \in 1 .. Len(u) /\ 1 \in 1 .. Len(s) - 1
        BY <1>1, <2>1
      <3>2. u[1] = s[1 + 1] /\ t[1 + 2] = u[1]
        BY <1>1, <1>4, <3>1
      <3>3. 1 + 1 = 2 /\ 1 + 2 = 3
        OBVIOUS
      <3>4. t[3] = s[2]
        BY <3>2, <3>3, Zenon
      <3> QED
        BY <1>4, <3>1, <3>4
    <2>3. \A k \in 1 .. Len(t) : k = 1 \/ k = 2 \/ k = 3
      BY <2>2
    <2>6. /\ Outermost(t, 2) /\ Outermost(t, 3)
          /\ 1 # Len(t) /\ t[1 + 1] = g /\ t[2 + 1] = t[3]
      <3>1. 1 + 1 = 2 /\ 2 + 1 = 3
        OBVIOUS
      <3>2. t[1 + 1] = g /\ t[2 + 1] = t[3]
        BY <1>4, <3>1, Zenon
      <3> QED
        BY <2>1, <2>2, <3>1, <3>2 DEF Outermost
    <2>4. ManualStack(t)
      <3>1. t[1] = f /\ t[2] = g /\ t[3].at = "close_all" /\ t[3].doc \notin Docs /\ Len(t) = 3
        BY <1>4, <2>1, <2>2
      <3>2. f.doc \in Docs /\ g.doc = f.doc
        BY DEF Frames
      <3>3. \A k \in 1 .. Len(t) :
              /\ t[k].at \notin OfAutoSync \cup {"open_after_load"}
              /\ t[k].at = "close_all" => k = Len(t) /\ t[k].doc \notin Docs
        BY <2>3, <3>1
      <3>4. \A k \in 1 .. Len(t) : t[k].at \in Closers => Outermost(t, k)
        BY <2>3, <2>6, <3>1
      <3>5. \A k \in 1 .. Len(t) : t[k].at \in Savers =>
              Outermost(t, k) \/ (k # Len(t) /\ t[k + 1].at = "close_after_save")
        BY <2>3, <2>6, <3>1
      <3>6. \A k \in 1 .. Len(t) : k # Len(t) /\ t[k + 1].at = "close_after_save" =>
              t[k].at \in Savers /\ t[k].doc = t[k + 1].doc
        BY <2>3, <2>6, <3>1, <3>2
      <3> QED
        BY <3>3, <3>4, <3>5, <3>6 DEF ManualStack
    <2>5. 2 \in 1 .. Len(stack) /\ t[3] = stack[2]
      BY <2>1, <2>2 DEF s
    <2> QED
      BY <1>4, <2>3, <2>4, <2>5 DEF t, Made
  <1> QED
    BY <1>5, <1>6

\* A file is opened in a new object, from a main loop.
LEMMA OpenMade ==
  ASSUME GoodStack(stack), ManualStack(stack), stack = <<>> \/ Top.at \in Dialogs,
         NEW f \in Frames, NEW g \in Frames, stack' = (<<f>> \o <<g>>) \o stack,
         f.at = "load_file", g.at = "open_after_load", f.doc = g.doc,
         \A k \in 1 .. Len(stack) : stack[k].doc # g.doc
  PROVE  Made({f, g}) /\ stack' # <<>> /\ Top' = f
  <1> DEFINE s == stack
             t == stack'
  <1>1. s \in Seq(SuspendedFrames) /\ g \in SuspendedFrames /\ Len(s) \in Nat
    BY Suspendable, LenProperties DEF Suspended, SuspendedFrames, Top
  <1>2. t = <<f, g>> \o s
    BY TwoFrames
  <1>3. ManualStack(s) /\ (s # <<>> => s[1].at \in Dialogs) /\ (s = <<>> => Len(s) = 0)
    BY DEF s, Top
  <1>4. \A k \in 1 .. Len(s) : s[k].doc # g.doc
    OBVIOUS
  <1> HIDE DEF s, t
  <1>5. /\ t # <<>> /\ Len(t) = Len(s) + 2 /\ t[1] = f /\ t[2] = g
        /\ \A k \in 1 .. Len(s) : t[k + 2] = s[k]
    BY <1>1, <1>2, PushedTwo
  <1>6. \A k \in 1 .. Len(t) : k = 1 \/ k = 2 \/ (k - 2 \in 1 .. Len(s) /\ t[k] = s[k - 2])
    <2> TAKE k \in 1 .. Len(t)
    <2>1. k # 1 /\ k # 2 => k - 2 \in 1 .. Len(s) /\ (k - 2) + 2 = k
      BY <1>1, <1>5
    <2> QED
      BY <1>5, <2>1
  <1>9. ASSUME NEW k \in 1 .. Len(t), k # 1, k # 2, Outermost(s, k - 2) PROVE Outermost(t, k)
    <2>1. CASE k - 2 = Len(s)
      BY <1>1, <1>5, <2>1 DEF Outermost
    <2>2. CASE (k - 2) + 1 = Len(s) /\ s[(k - 2) + 1].at = "close_all"
      <3>1. k + 1 = Len(t) /\ ((k - 2) + 1) + 2 = k + 1 /\ (k - 2) + 1 \in 1 .. Len(s)
        BY <1>1, <1>5, <1>9, <2>2
      <3>2. t[k + 1] = s[(k - 2) + 1]
        BY <1>5, <3>1
      <3> QED
        BY <2>2, <3>1, <3>2 DEF Outermost
    <2> QED
      BY <1>9, <2>1, <2>2 DEF Outermost
  <1>7. ManualStack(t)
    <2>1. \A k \in 1 .. Len(t) :
            /\ t[k].at \notin OfAutoSync
            /\ t[k].at = "close_all" => k = Len(t) /\ t[k].doc \notin Docs
      BY <1>1, <1>3, <1>5, <1>6 DEF ManualStack
    <2>2. ASSUME NEW k \in 1 .. Len(t), t[k].at \in Closers PROVE Outermost(t, k)
      <3>1. k # 1 /\ k # 2 /\ k - 2 \in 1 .. Len(s) /\ t[k] = s[k - 2]
        BY <1>5, <1>6, <2>2
      <3> QED
        BY <1>3, <1>9, <2>2, <3>1 DEF ManualStack
    <2>3. ASSUME NEW k \in 1 .. Len(t), t[k].at \in Savers, ~Outermost(t, k)
          PROVE  k # Len(t) /\ t[k + 1].at = "close_after_save"
      <3>1. k # Len(t) /\ k # 1 /\ k # 2 /\ k - 2 \in 1 .. Len(s) /\ t[k] = s[k - 2]
        BY <1>5, <1>6, <2>3 DEF Outermost
      <3>2. (k - 2) + 1 \in 1 .. Len(s) /\ k - 2 # Len(s) /\ ((k - 2) + 1) + 2 = k + 1
        BY <1>1, <1>5, <2>3, <3>1
      <3>3. s[(k - 2) + 1].at = "close_after_save"
        BY <1>3, <1>9, <2>3, <3>1, <3>2 DEF ManualStack
      <3> QED
        BY <1>5, <3>1, <3>2, <3>3
    <2>4. ASSUME NEW k \in 1 .. Len(t), k # Len(t), t[k + 1].at = "close_after_save"
          PROVE  t[k].at \in Savers /\ t[k].doc = t[k + 1].doc
      <3>1. k # 1
        BY <1>5, <2>4
      <3>2. k - 1 \in 1 .. Len(s) /\ (k - 1) + 2 = k + 1
        BY <1>1, <1>5, <2>4, <3>1
      <3>3. s[k - 1].at = "close_after_save"
        BY <1>5, <2>4, <3>2
      <3>4. k # 2
        BY <1>3, <3>2, <3>3
      <3>5. k - 2 \in 1 .. Len(s) /\ t[k] = s[k - 2] /\ (k - 2) + 1 = k - 1 /\ k - 2 # Len(s)
        BY <1>1, <1>5, <1>6, <2>4, <3>1, <3>4
      <3>6. s[k - 2].at \in Savers /\ s[k - 2].doc = s[k - 1].doc
        BY <1>3, <3>3, <3>5 DEF ManualStack
      <3> QED
        BY <1>5, <3>2, <3>5, <3>6
    <2>5. ASSUME NEW k \in 1 .. Len(t), NEW j \in 1 .. Len(t), t[k].at = "open_after_load", j > k
          PROVE  t[j].doc # t[k].doc
      <3>1. k # 1 /\ j # 1 /\ j # 2
        BY <1>5, <2>5
      <3>2. j - 2 \in 1 .. Len(s) /\ t[j] = s[j - 2]
        BY <1>6, <3>1
      <3>3. CASE k = 2
        BY <1>4, <1>5, <3>2, <3>3
      <3>4. CASE k # 2
        <4>1. k - 2 \in 1 .. Len(s) /\ t[k] = s[k - 2] /\ j - 2 > k - 2
          BY <1>6, <2>5, <3>1, <3>4
        <4> QED
          BY <1>3, <2>5, <3>2, <4>1 DEF ManualStack
      <3> QED
        BY <3>3, <3>4
    <2> QED
      BY <2>1, <2>2, <2>3, <2>4, <2>5 DEF ManualStack
  <1>8. \A k \in 1 .. Len(t) : t[k] \in {f, g} \/ \E j \in 1 .. Len(s) : t[k] = s[j]
    BY <1>5, <1>6
  <1> QED
    BY <1>5, <1>7, <1>8 DEF s, t, Made, Top

(***************************************************************************)
(* The inductive invariant                                                 *)
(***************************************************************************)
\* What a document is like without auto sync.
DocOK(r) ==
  /\ ~r.modified_on_disk
  /\ ~r.deleted_from_disk
  /\ r.sync_timeout_id = 0
  /\ r.text # r.saved => "MODIFIED" \in r.status
  /\ r.buf_modified <=> "MODIFIED" \in r.status

\* The document of a frame is open, and as it was saved while it is being opened.
FrameOK(docs, f) ==
  f.doc \in Docs =>
    /\ docs[f.doc].open
    /\ f.at = "open_after_load" => docs[f.doc].text = docs[f.doc].saved

StackOpen == \A k \in 1 .. Len(stack) : FrameOK(doc, stack[k])

\* What the handler that runs has made sure of.
TopOK ==
  stack # <<>> =>
    /\ Top.at = "save_local" => doc[D].text = Top.data
    /\ Top.at = "do_close_doc" => \/ Top.code = "discard"
                                  \/ doc[D].text = doc[D].saved
                                  \/ "CLEAN" \in doc[D].status
    /\ Top.at = "close_after_save" /\ ret => doc[D].text = doc[D].saved

ManualInv ==
  /\ autoSync = FALSE
  /\ fault = "none"
  /\ \A t \in Timers : timers[t] = NoDoc
  /\ \A d \in Docs : DocOK(doc[d])
  /\ ManualStack(stack)
  /\ StackOpen
  /\ TopOK

\* The two action properties, for one document.
NotLost(d) ==
  doc[d].open /\ ~doc'[d].open =>
    \/ doc[d].text = doc[d].saved
    \/ Top.code = "discard"
    \/ "CLEAN" \in doc[d].status

FlaggedByEvent(d) ==
  /\ "DELETED" \in doc'[d].status \ doc[d].status => Top.code = "deleted"
  /\ "MODIFIED_ON_DISK" \in doc'[d].status \ doc[d].status => Top.code = "changed"

ManualSound == ManualInv' /\ \A d \in Docs : NotLost(d) /\ FlaggedByEvent(d)

\* How a document is changed while other handlers may be on the stack.
Follows(s, r) ==
  /\ DocOK(s)
  /\ r.open => s.open
  /\ r.text = r.saved => s.text = s.saved
  /\ s.status \cap CHANGED_ON_DISK \subseteq r.status

\* The stack that is made is one of open documents.
LEMMA StackStaysOpen ==
  ASSUME StackOpen, NEW New, Made(New), \A f \in New : FrameOK(doc', f),
         \A d \in Docs : /\ doc[d].open => doc'[d].open
                         /\ doc[d].text = doc[d].saved => doc'[d].text = doc'[d].saved
  PROVE  StackOpen'
  <1>1. \A f : FrameOK(doc, f) => FrameOK(doc', f)
    BY DEF FrameOK
  <1>2. \A j \in 1 .. Len(stack') : FrameOK(doc', stack'[j])
    BY <1>1 DEF Made, StackOpen
  <1> QED
    BY <1>2 DEF StackOpen

\* A step that leaves documents as they were, or changes them as above.
LEMMA FollowedSound ==
  ASSUME ManualInv, UNCHANGED <<timers, autoSync, fault>>,
         NEW New, Made(New), \A f \in New : FrameOK(doc', f),
         \A d \in Docs : doc'[d] = doc[d] \/ Follows(doc'[d], doc[d]),
         TopOK'
  PROVE  ManualSound
  <1>1. StackOpen' /\ ManualStack(stack')
    BY StackStaysOpen DEF ManualInv, Made, Follows
  <1>2. \A d \in Docs : DocOK(doc'[d])
    BY DEF ManualInv, Follows
  <1>3. \A d \in Docs : NotLost(d) /\ FlaggedByEvent(d)
    BY DEF NotLost, FlaggedByEvent, Follows, CHANGED_ON_DISK
  <1> QED
    BY <1>1, <1>2, <1>3 DEF ManualSound, ManualInv

\* After a return the handler below goes on: closing, it does so after a save.
LEMMA TopReturned ==
  ASSUME GoodStack(stack), stack # <<>>, ManualStack(stack), stack' = Tail(stack),
         ret' = FALSE \/ Top.at \notin Savers
  PROVE  TopOK'
  <1> SUFFICES ASSUME stack' # <<>> PROVE Top'.at = "close_after_save" => ret' = FALSE
    BY Popped DEF TopOK, Top, SuspendedFrames, Suspended
  <1>1. /\ Len(stack) \in Nat /\ Len(stack') = Len(stack) - 1 /\ Len(stack') # 0
        /\ \A k \in 1 .. Len(stack) - 1 : stack'[k] = stack[k + 1]
        /\ GoodStack(stack')
    BY Popped, EmptySeq DEF GoodStack
  <1>2. Top' = stack[2] /\ 2 \in 1 .. Len(stack) /\ 1 \in 1 .. Len(stack) /\ 1 # Len(stack)
    <2>1. Len(stack') \in Nat
      BY <1>1
    <2> QED
      BY <1>1, <2>1 DEF Top
  <1>3. Top'.at = "close_after_save" => stack[1].at \in Savers
    BY <1>2 DEF ManualStack
  <1> QED
    BY <1>3 DEF Top

(***************************************************************************)
(* Steps of the handler on top that leave the documents alone, or change   *)
(* them as above                                                           *)
(***************************************************************************)
DocsFollow == \A d \in Docs : doc'[d] = doc[d] \/ Follows(doc'[d], doc[d])

\* What the handler on top can rely on.
LEMMA OpenOnTop ==
  ASSUME Inv, ManualInv, stack # <<>>
  PROVE  /\ GoodStack(stack) /\ ManualStack(stack) /\ Top \in Frames
         /\ Top.at \notin Homeless => D \in Docs
         /\ D \in Docs => doc[D] \in Doc /\ doc[D].open /\ DocOK(doc[D])
         /\ Top.at \in OnFile => Top.file \in Files
         /\ 1 \in 1 .. Len(stack) /\ Top.at \notin OfAutoSync
  <1>1. GoodStack(stack) /\ ManualStack(stack) /\ Len(stack) \in Nat \ {0}
    BY EmptySeq DEF Inv, ManualInv, GoodStack
  <1>2. Top \in Frames /\ (Top.at \notin Homeless => D \in Docs) /\ (Top.at \in OnFile => Top.file \in Files)
    BY <1>1, Running
  <1>3. 1 \in 1 .. Len(stack) /\ FrameOK(doc, stack[1]) /\ stack[1].at \notin OfAutoSync
    BY <1>1 DEF ManualInv, StackOpen, ManualStack
  <1>4. D \in Docs => doc[D] \in Doc /\ doc[D].open /\ DocOK(doc[D])
    BY <1>3 DEF Inv, TypeOK, ManualInv, FrameOK, Top, D
  <1> QED
    BY <1>1, <1>2, <1>3, <1>4 DEF Top

\* It goes on at f.
LEMMA GoSound ==
  ASSUME Inv, ManualInv, stack # <<>>, Top.at \notin Homeless, NEW f \in Frames, Goto(f), f.doc = D,
         f.at \notin OfAutoSync \cup Homeless \cup {"open_after_load", "close_after_save",
                                                   "file_watch_callback"},
         f.at \in Closers => Top.at \in Closers, f.at \in Savers <=> Top.at \in Savers,
         f.at = "save_local" => doc'[D].text = f.data,
         f.at = "do_close_doc" => \/ f.code = "discard"
                                  \/ doc'[D].text = doc'[D].saved
                                  \/ "CLEAN" \in doc'[D].status,
         DocsFollow, UNCHANGED <<timers, autoSync, fault>>
  PROVE  ManualSound
  <1>1. /\ GoodStack(stack) /\ ManualStack(stack) /\ D \in Docs /\ doc[D].open
    BY OpenOnTop
  <1>2. Made({f})
    BY <1>1, GoMade
  <1>3. stack'[1] = f
    BY <1>1, Went
  <1>4. FrameOK(doc', f)
    BY <1>1 DEF FrameOK, DocsFollow, Follows
  <1>5. TopOK'
    BY <1>3 DEF TopOK, Top, D
  <1> QED
    BY <1>2, <1>4, <1>5, FollowedSound DEF DocsFollow

\* It returns, a saver with FALSE.
LEMMA ReturnSound ==
  ASSUME Inv, ManualInv, stack # <<>>, stack' = Tail(stack),
         ret' = FALSE \/ Top.at \notin Savers,
         DocsFollow, UNCHANGED <<timers, autoSync, fault>>
  PROVE  ManualSound
  <1>1. GoodStack(stack) /\ ManualStack(stack)
    BY OpenOnTop
  <1>2. Made({}) /\ TopOK'
    BY <1>1, PopMade, TopReturned
  <1> QED
    BY <1>2, FollowedSound DEF DocsFollow

\* A handler is called while no other runs, for a document that is open.
LEMMA PushSound ==
  ASSUME Inv, ManualInv, NEW f \in Frames, Push(f),
         f.at \notin OfAutoSync \cup {"open_after_load", "close_after_save", "save_local", "do_close_doc"},
         f.at = "close_all" => stack = <<>> /\ f.doc \notin Docs,
         \/ stack = <<>>
         \/ Top.at \in Dialogs \cup {"do_stat"} /\ f.at \notin Closers \cup Savers
         \/ Top.at = "close_all" /\ f.at \in Closers,
         f.doc \in Docs => doc[f.doc].open,
         UNCHANGED <<doc, timers, autoSync, fault>>
  PROVE  ManualSound
  <1>1. GoodStack(stack) /\ ManualStack(stack)
    BY DEF Inv, ManualInv
  <1>2. Made({f})
    BY <1>1, PushMade
  <1>3. Top' = f
    BY <1>1, PushedOver DEF Suspended
  <1>4. FrameOK(doc', f)
    BY DEF FrameOK
  <1>5. TopOK'
    BY <1>3 DEF TopOK
  <1> QED
    BY <1>2, <1>4, <1>5, FollowedSound

\* It goes on at a, perhaps under another file or with another text in hand.
LEMMA WentSound ==
  ASSUME Inv, ManualInv, stack # <<>>, Top.at \notin Homeless,
         NEW a \in Labels, NEW x \in Files \cup {NoFile}, NEW y \in Texts,
         NEW f, f = [Top EXCEPT !.at = a, !.file = x, !.data = y], Goto(f),
         a \in OnFile => x \in Files,
         a \notin OfAutoSync \cup Homeless \cup {"open_after_load", "close_after_save",
                                                "file_watch_callback"},
         a \in Closers => Top.at \in Closers, a \in Savers <=> Top.at \in Savers,
         a = "save_local" => doc'[D].text = y,
         a = "do_close_doc" => doc'[D].text = doc'[D].saved \/ "CLEAN" \in doc'[D].status,
         DocsFollow, UNCHANGED <<timers, autoSync, fault>>
  PROVE  ManualSound
  <1>1. Top \in Frames /\ Top \in Frame /\ D \in Docs
    BY OpenOnTop DEF Frames
  <1>2. /\ f \in Frame /\ f.at = a /\ f.doc = D /\ f.file = x /\ f.data = y
    BY <1>1 DEF Frame, D
  <1>3. f \in Frames
    BY <1>1, <1>2 DEF Frames
  <1> QED
    BY <1>1, <1>2, <1>3, GoSound

\* It goes on at a with what it has.
LEMMA OnSound ==
  ASSUME Inv, ManualInv, stack # <<>>, Top.at \notin Homeless,
         NEW a \in Labels, Goto([Top EXCEPT !.at = a]), a \in OnFile => Top.file \in Files,
         a \notin OfAutoSync \cup Homeless \cup {"open_after_load", "close_after_save",
                                                "file_watch_callback", "save_local"},
         a \in Closers => Top.at \in Closers, a \in Savers <=> Top.at \in Savers,
         a = "do_close_doc" => doc'[D].text = doc'[D].saved \/ "CLEAN" \in doc'[D].status,
         DocsFollow, UNCHANGED <<timers, autoSync, fault>>
  PROVE  ManualSound
  <1>1. Top \in Frame
    BY OpenOnTop DEF Frames
  <1> DEFINE x == Top.file
             y == Top.data
             f == [Top EXCEPT !.at = a, !.file = x, !.data = y]
  <1>2. x \in Files \cup {NoFile} /\ y \in Texts /\ Goto(f) /\ (a \in OnFile => x \in Files)
    BY <1>1 DEF Frame
  <1> HIDE DEF x, y
  <1> QED
    BY <1>2, WentSound

(***************************************************************************)
(* Saving                                                                  *)
(***************************************************************************)
\* gtk_text_buffer and modified_changed_cb, without auto sync.
LEMMA EditedOK ==
  ASSUME NEW r \in Doc, DocOK(r), autoSync = FALSE, NEW x \in Texts
  PROVE  LET s == Edited(r, x)
         IN /\ s \in Doc /\ DocOK(s) /\ s.text = x /\ s.open = r.open
            /\ s.status \cap CHANGED_ON_DISK = r.status \cap CHANGED_ON_DISK
  <1> DEFINE s == [r EXCEPT !.text = x]
             st == r.status \cup {"MODIFIED"}
             t == [s EXCEPT !.buf_modified = TRUE, !.status = st]
  <1>1. /\ s \in Doc /\ s.text = x /\ s.open = r.open /\ s.status = r.status
        /\ s.buf_modified = r.buf_modified
        /\ s.modified_on_disk = r.modified_on_disk /\ s.deleted_from_disk = r.deleted_from_disk
        /\ s.sync_timeout_id = r.sync_timeout_id
    BY DEF Doc
  <1>2. CASE r.buf_modified
    <2>1. Edited(r, x) = s
      BY <1>2 DEF Edited
    <2> QED
      BY <1>1, <1>2, <2>1 DEF DocOK
  <1>3. CASE ~r.buf_modified
    <2>1. Edited(r, x) = t
      BY <1>1, <1>3 DEF Edited, ModifiedChanged
    <2>2. st \in SUBSET StatusFlags /\ st \cap CHANGED_ON_DISK = r.status \cap CHANGED_ON_DISK
          /\ "MODIFIED" \in st
      BY DEF Doc, StatusFlags, CHANGED_ON_DISK
    <2> HIDE DEF s, st
    <2>3. /\ t \in Doc /\ t.text = s.text /\ t.open = s.open /\ t.status = st /\ t.buf_modified = TRUE
          /\ t.modified_on_disk = s.modified_on_disk /\ t.deleted_from_disk = s.deleted_from_disk
          /\ t.sync_timeout_id = s.sync_timeout_id
      BY <1>1, <2>2 DEF Doc
    <2> HIDE DEF t
    <2> QED
      BY <1>1, <2>1, <2>2, <2>3 DEF DocOK
  <1> QED
    BY <1>2, <1>3

\* moo_editor_will_save
LEMMA WillSaveOK ==
  ASSUME NEW r \in Doc, DocOK(r), autoSync = FALSE
  PROVE  LET s == WillSave(r)
         IN /\ s \in Doc /\ DocOK(s) /\ s.open = r.open
            /\ s.status \cap CHANGED_ON_DISK = r.status \cap CHANGED_ON_DISK
  <1> DEFINE x == Strip[r.text]
  <1>1. x \in Texts
    BY DocSyncAssumption DEF DocSyncAssumption, Doc
  <1>2. WillSave(r) = r \/ WillSave(r) = Edited(r, x)
    BY DEF WillSave
  <1> DEFINE w == WillSave(r)
             e == Edited(r, x)
  <1> HIDE DEF x
  <1>3. /\ e \in Doc /\ DocOK(e) /\ e.open = r.open
        /\ e.status \cap CHANGED_ON_DISK = r.status \cap CHANGED_ON_DISK
    BY <1>1, EditedOK
  <1>4. w = r \/ w = e
    BY <1>2
  <1> HIDE DEF w, e
  <1>5. /\ w \in Doc /\ DocOK(w) /\ w.open = r.open
        /\ w.status \cap CHANGED_ON_DISK = r.status \cap CHANGED_ON_DISK
    BY <1>3, <1>4
  <1> QED
    BY <1>5 DEF w

\* do_write without auto sync: where the handler goes on.
LEMMA Written ==
  ASSUME Inv, ManualInv, stack # <<>>, Top.at \in Savers \cap OnFile, NEW x \in Texts, DoWrite(x)
  PROVE  /\ \E a \in {"save_local", "save_error_dialog"}, y \in Texts :
              /\ a = "save_local" => y = x
              /\ Goto([Top EXCEPT !.at = a, !.file = Top.file, !.data = y])
         /\ UNCHANGED <<autoSync, fault>>
  <1>1. Top \in Frame
    BY OpenOnTop DEF Frames
  <1>2. /\ [Top EXCEPT !.at = "save_local", !.data = x]
             = [Top EXCEPT !.at = "save_local", !.file = Top.file, !.data = x]
        /\ [Top EXCEPT !.at = "save_error_dialog"]
             = [Top EXCEPT !.at = "save_error_dialog", !.file = Top.file, !.data = Top.data]
        /\ Top.data \in Texts
    BY <1>1 DEF Frame
  <1> QED
    BY <1>2 DEF DoWrite

\* A saver runs alone, but for the caller that closes its document.
LEMMA SaverAlone ==
  ASSUME Inv, ManualInv, stack # <<>>, Top.at \in Savers
  PROVE  \A k \in 1 .. Len(stack) : stack[k].at # "open_after_load"
  <1>1. /\ ManualStack(stack) /\ 1 \in 1 .. Len(stack) /\ stack[1].at \in Savers
        /\ Len(stack) \in Nat
    BY OpenOnTop, LenProperties DEF Top, GoodStack
  <1>2. CASE Outermost(stack, 1)
    <2>1. \A k \in 1 .. Len(stack) : k = 1 \/ stack[k].at = "close_all"
      BY <1>1, <1>2 DEF Outermost
    <2> QED
      BY <1>1, <2>1
  <1>3. CASE 1 # Len(stack) /\ stack[1 + 1].at = "close_after_save"
    <2>1. 2 \in 1 .. Len(stack) /\ stack[2].at = "close_after_save"
      <3>1. 1 + 1 = 2
        OBVIOUS
      <3>2. stack[2].at = "close_after_save"
        BY <1>3, <3>1, Zenon
      <3>3. 2 \in 1 .. Len(stack)
        <4> DEFINE n == Len(stack)
        <4>1. n \in Nat /\ 1 \in 1 .. n /\ 1 # n
          BY <1>1, <1>3
        <4> HIDE DEF n
        <4>2. 2 \in 1 .. n
          BY <4>1
        <4> QED
          BY <4>2 DEF n
      <3> QED
        BY <3>2, <3>3
    <2>2. Outermost(stack, 2)
      BY <1>1, <2>1 DEF ManualStack
    <2>3. \A k \in 1 .. Len(stack) : k = 1 \/ k = 2 \/ stack[k].at = "close_all"
      BY <1>1, <2>2 DEF Outermost
    <2> QED
      BY <1>1, <2>1, <2>3
  <1> QED
    BY <1>1, <1>2, <1>3 DEF ManualStack

\* do_save: the text may be changed, but no file is being opened meanwhile.
LEMMA DoSaveManual ==
  ASSUME Inv, ManualInv, DoSave
  PROVE  ManualSound
  <1> DEFINE r == WillSave(doc[D])
  <1>1. stack # <<>> /\ Top.at = "do_save"
    BY DEF DoSave, At, Top
  <1>2. /\ GoodStack(stack) /\ ManualStack(stack) /\ Top \in Frames /\ Top \in Frame /\ D \in Docs
        /\ Top.file \in Files /\ doc[D] \in Doc /\ doc[D].open /\ DocOK(doc[D])
        /\ autoSync = FALSE /\ doc \in [Docs -> Doc]
    BY <1>1, OpenOnTop DEF Frames, ManualInv, Inv, TypeOK
  <1>3. /\ r \in Doc /\ DocOK(r) /\ r.open = doc[D].open
        /\ r.status \cap CHANGED_ON_DISK = doc[D].status \cap CHANGED_ON_DISK
    BY <1>2, WillSaveOK
  <1>4. IF r = doc[D] THEN UNCHANGED <<doc, timers>> ELSE Changed(D, r)
    BY DEF DoSave
  <1>5. \/ DoWrite(r.text)
        \/ /\ Goto([Top EXCEPT !.at = "save_error_enc_dialog"])
           /\ UNCHANGED <<autoSync, fault>>
    BY DEF DoSave
  <1> HIDE DEF r
  <1>6. r.text \in Texts
    BY <1>3 DEF Doc
  <1>7. /\ doc'[D] = r /\ \A d \in Docs \ {D} : doc'[d] = doc[d]
        /\ timers' = timers
    BY <1>2, <1>4 DEF Changed
  <1>8. PICK a \in {"save_local", "save_error_dialog", "save_error_enc_dialog"}, y \in Texts :
          /\ a = "save_local" => y = r.text
          /\ Goto([Top EXCEPT !.at = a, !.file = Top.file, !.data = y])
          /\ UNCHANGED <<autoSync, fault>>
    <2>1. CASE DoWrite(r.text)
      BY <1>1, <1>2, <1>6, <2>1, Written
    <2>2. CASE Goto([Top EXCEPT !.at = "save_error_enc_dialog"]) /\ UNCHANGED <<autoSync, fault>>
      <3>1. /\ [Top EXCEPT !.at = "save_error_enc_dialog"]
                 = [Top EXCEPT !.at = "save_error_enc_dialog", !.file = Top.file, !.data = Top.data]
            /\ Top.data \in Texts
        BY <1>2 DEF Frame
      <3> QED
        BY <2>2, <3>1
    <2> QED
      BY <1>5, <2>1, <2>2
  <1> DEFINE f == [Top EXCEPT !.at = a, !.file = Top.file, !.data = y]
  <1>9. f \in Frames /\ f.at = a /\ f.doc = D /\ f.data = y /\ Goto(f)
    BY <1>2, <1>8 DEF Frames, Frame, D
  <1> HIDE DEF f
  <1>10. Made({f})
    BY <1>1, <1>2, <1>9, GoMade
  <1>11. stack'[1] = f
    BY <1>1, <1>2, <1>9, Went
  <1>12. StackOpen'
    <2>1. \A k \in 1 .. Len(stack) : FrameOK(doc', stack[k])
      BY <1>1, <1>2, <1>3, <1>7, SaverAlone DEF ManualInv, StackOpen, FrameOK
    <2>2. FrameOK(doc', f)
      BY <1>2, <1>3, <1>7, <1>9 DEF FrameOK
    <2> QED
      BY <1>10, <2>1, <2>2 DEF Made, StackOpen
  <1>13. TopOK'
    BY <1>7, <1>8, <1>9, <1>11 DEF TopOK, Top, D
  <1>14. \A d \in Docs : DocOK(doc'[d])
    BY <1>3, <1>7 DEF ManualInv
  <1>15. \A d \in Docs : NotLost(d) /\ FlaggedByEvent(d)
    BY <1>3, <1>7 DEF NotLost, FlaggedByEvent, CHANGED_ON_DISK
  <1> QED
    BY <1>7, <1>8, <1>10, <1>12, <1>13, <1>14, <1>15 DEF ManualSound, ManualInv, Made

\* moo_edit_save_local, for the caller that closes the document or for the user.
LEMMA SaveLocalManual ==
  ASSUME Inv, ManualInv, SaveLocal
  PROVE  ManualSound
  <1> DEFINE s == Synced(doc[D], doc[D].text, Top.data, Top.file, StartedId(Top.file))
  <1>1. /\ stack # <<>> /\ Top.at = "save_local" /\ stack' = Tail(stack) /\ ret' = TRUE
        /\ UNCHANGED <<timers, autoSync, fault>>
    BY DEF SaveLocal, At, Top, Return
  <1>2. /\ GoodStack(stack) /\ ManualStack(stack) /\ D \in Docs /\ doc[D] \in Doc /\ doc[D].open
        /\ DocOK(doc[D]) /\ doc[D].text = Top.data /\ doc \in [Docs -> Doc]
    BY <1>1, OpenOnTop DEF ManualInv, TopOK, Inv, TypeOK
  <1>3. doc' = [doc EXCEPT ![D] = s]
    BY <1>2 DEF SaveLocal, TypeOK, Doc, Synced
  <1>4. Follows(s, doc[D]) /\ s.text = s.saved
    BY <1>2 DEF Synced, Follows, DocOK, Doc
  <1> HIDE DEF s
  <1>5. doc'[D] = s /\ \A d \in Docs \ {D} : doc'[d] = doc[d]
    BY <1>2, <1>3
  <1>6. Made({})
    BY <1>1, <1>2, PopMade
  <1>7. TopOK'
    <2> SUFFICES ASSUME stack' # <<>>, Top'.at = "close_after_save"
                 PROVE  doc'[Top'.doc].text = doc'[Top'.doc].saved
      BY <1>1, <1>2, Popped DEF TopOK, Top, D, SuspendedFrames, Suspended
    <2>1. /\ Len(stack) \in Nat /\ Len(stack') = Len(stack) - 1 /\ Len(stack') # 0
          /\ \A k \in 1 .. Len(stack) - 1 : stack'[k] = stack[k + 1]
          /\ Len(stack') \in Nat
      BY <1>1, <1>2, Popped, EmptySeq DEF GoodStack
    <2>2. Top' = stack[1 + 1] /\ 1 \in 1 .. Len(stack) /\ 1 # Len(stack)
      BY <2>1 DEF Top
    <2>3. stack[1].doc = stack[1 + 1].doc
      BY <1>2, <2>2 DEF ManualStack
    <2> QED
      BY <1>4, <1>5, <2>2, <2>3 DEF Top, D
  <1> QED
    BY <1>1, <1>4, <1>5, <1>6, <1>7, FollowedSound DEF DocsFollow

\* Every step of moo_editor_save and do_save.
LEMMA SavingManual ==
  ASSUME Inv, ManualInv, Saving
  PROVE  ManualSound
  <1>1. stack # <<>> /\ Top.at \in {"save", "do_save", "save_utf8", "save_local"}
    BY DEF Saving, Save, CancelSave, DoSave, SaveUtf8, SaveLocal, At, Top
  <1>2. /\ Top \in Frame /\ D \in Docs /\ doc[D] \in Doc /\ Top.data \in Texts
        /\ doc[D].filename \in Files \cup {NoFile}
        /\ Top.at \in OnFile => Top.file \in Files
    BY <1>1, OpenOnTop DEF Frames, Frame, Doc
  <1>3. CASE Save
    <2>1. PICK a \in {"save_as_dialog", "overwrite_modified_dialog", "do_save"} :
            /\ a # "save_as_dialog" => doc[D].filename \in Files
            /\ Goto([Top EXCEPT !.file = doc[D].filename, !.at = a])
      BY <1>2, <1>3 DEF Save
    <2>2. [Top EXCEPT !.file = doc[D].filename, !.at = a]
            = [Top EXCEPT !.at = a, !.file = doc[D].filename, !.data = Top.data]
      BY <1>2 DEF Frame
    <2>3. DocsFollow /\ UNCHANGED <<timers, autoSync, fault>>
      BY <1>3 DEF Save, DocsFollow
    <2> QED
      BY <1>1, <1>2, <2>1, <2>2, <2>3, WentSound, ZenonT(30)
  <1>4. CASE CancelSave
    BY <1>1, <1>4, ReturnSound DEF CancelSave, Return, DocsFollow
  <1>5. CASE SaveUtf8
    <2>1. DoWrite(doc[D].text) /\ UNCHANGED <<doc, timers>> /\ doc[D].text \in Texts
          /\ Top.at = "save_utf8"
      BY <1>2, <1>5 DEF SaveUtf8, At, Top, Doc
    <2>2. PICK a \in {"save_local", "save_error_dialog"}, y \in Texts :
            /\ a = "save_local" => y = doc[D].text
            /\ Goto([Top EXCEPT !.at = a, !.file = Top.file, !.data = y])
            /\ UNCHANGED <<autoSync, fault>>
      BY <1>1, <2>1, Written
    <2>3. DocsFollow
      BY <2>1 DEF DocsFollow
    <2> QED
      BY <1>1, <1>2, <2>1, <2>2, <2>3, WentSound
  <1> QED
    BY <1>3, <1>4, <1>5, DoSaveManual, SaveLocalManual DEF Saving

(***************************************************************************)
(* Loading and closing                                                     *)
(***************************************************************************)
\* What becomes of a document whose watch is stopped.
LEMMA UnwatchedFollows ==
  ASSUME Inv, ManualInv, NEW d \in Docs, StopFileWatch(d, doc[d])
  PROVE  DocsFollow
  <1> DEFINE r == [doc[d] EXCEPT !.file_monitor_id = 0]
  <1>1. doc \in [Docs -> Doc] /\ doc[d] \in Doc /\ DocOK(doc[d])
    BY DEF Inv, TypeOK, ManualInv
  <1>2. Follows(r, doc[d])
    BY <1>1 DEF Follows, DocOK, Doc
  <1>3. doc' = [doc EXCEPT ![d] = r]
    BY DEF StopFileWatch
  <1> HIDE DEF r
  <1> QED
    BY <1>1, <1>2, <1>3 DEF DocsFollow

\* A document is closed that no handler further out is about.
LEMMA ClosedManual ==
  ASSUME Inv, ManualInv, stack # <<>>, D \in Docs, StopFileWatch(D, ClosedDoc),
         timers' = RemoveTimer(doc[D].sync_timeout_id), stack' = Tail(stack),
         \A k \in 1 .. Len(stack) : k # 1 => stack[k].doc # D,
         doc[D].text = doc[D].saved \/ Top.code = "discard" \/ "CLEAN" \in doc[D].status,
         Top.at \notin Savers, UNCHANGED <<autoSync, fault>>
  PROVE  ManualSound
  <1>1. /\ GoodStack(stack) /\ ManualStack(stack) /\ doc \in [Docs -> Doc]
    BY OpenOnTop DEF Inv, TypeOK
  <1>2. doc'[D] = ClosedDoc /\ \A d \in Docs \ {D} : doc'[d] = doc[d]
    <2>1. doc' = [doc EXCEPT ![D] = [ClosedDoc EXCEPT !.file_monitor_id = 0]]
      BY DEF StopFileWatch
    <2>2. doc' = [doc EXCEPT ![D] = ClosedDoc]
      BY <2>1, FreshTypes
    <2> QED
      BY <1>1, <2>2
  <1>3. DocOK(ClosedDoc) /\ ClosedDoc.status = {}
    BY DEF DocOK, ClosedDoc, FreshDoc
  <1>4. Made({}) /\ TopOK'
    BY <1>1, PopMade, TopReturned
  <1>5. StackOpen'
    <2>1. /\ Len(stack) \in Nat /\ Len(stack') = Len(stack) - 1
          /\ \A k \in 1 .. Len(stack) - 1 : stack'[k] = stack[k + 1]
      BY <1>1, Popped
    <2>2. \A k \in 1 .. Len(stack') : k + 1 \in 1 .. Len(stack) /\ stack'[k] = stack[k + 1] /\ k + 1 # 1
      BY <2>1
    <2>3. \A k \in 1 .. Len(stack') : stack'[k].doc # D /\ FrameOK(doc, stack'[k])
      BY <2>2 DEF ManualInv, StackOpen
    <2>4. ASSUME NEW k \in 1 .. Len(stack') PROVE FrameOK(doc', stack'[k])
      <3> DEFINE f == stack'[k]
      <3>1. f.doc # D /\ FrameOK(doc, f)
        BY <2>3
      <3> HIDE DEF f
      <3>2. FrameOK(doc', f)
        BY <1>2, <3>1 DEF FrameOK
      <3> QED
        BY <3>2 DEF f
    <2> QED
      BY <2>4 DEF StackOpen
  <1>6. \A t \in Timers : timers'[t] = NoDoc
    BY DEF RemoveTimer, ManualInv
  <1>7. \A d \in Docs : DocOK(doc'[d])
    BY <1>2, <1>3 DEF ManualInv
  <1>8. \A d \in Docs : NotLost(d) /\ FlaggedByEvent(d)
    BY <1>2, <1>3 DEF NotLost, FlaggedByEvent
  <1> QED
    BY <1>4, <1>5, <1>6, <1>7, <1>8 DEF ManualSound, ManualInv, Made

\* moo_edit_load_text
LEMMA LoadTextManual ==
  ASSUME Inv, ManualInv, LoadText
  PROVE  ManualSound
  <1> DEFINE s == Synced(doc[D], Top.data, Top.data, Top.file, StartedId(Top.file))
  <1>1. /\ stack # <<>> /\ Top.at = "load_text" /\ stack' = Tail(stack)
        /\ UNCHANGED <<autoSync, fault>>
    BY DEF LoadText, At, Top, Return
  <1>2. /\ D \in Docs /\ doc[D] \in Doc /\ DocOK(doc[D]) /\ doc \in [Docs -> Doc]
        /\ autoSync = FALSE
    BY <1>1, OpenOnTop DEF ManualInv, Inv, TypeOK
  <1>3. Follows(s, doc[D])
    BY <1>2 DEF Synced, Follows, DocOK, Doc
  <1>4. doc' = [doc EXCEPT ![D] = s] /\ timers' = timers
    <2> DEFINE l == [doc[D] EXCEPT !.text = Top.data, !.saved = Top.data, !.buf_modified = FALSE,
                                   !.status = {}, !.filename = Top.file,
                                   !.file_monitor_id = StartedId(Top.file)]
    <2>1. l = s
      BY DEF Synced
    <2>2. (doc' = [doc EXCEPT ![D] = l] /\ UNCHANGED timers) \/ Changed(D, l)
      BY DEF LoadText
    <2> HIDE DEF l, s
    <2> QED
      BY <1>2, <2>1, <2>2 DEF Changed
  <1> HIDE DEF s
  <1>5. DocsFollow
    BY <1>2, <1>3, <1>4 DEF DocsFollow
  <1> QED
    BY <1>1, <1>4, <1>5, ReturnSound

\* Every step of moo_editor_reload and _moo_edit_load_file.
LEMMA LoadingManual ==
  ASSUME Inv, ManualInv, Loading
  PROVE  ManualSound
  <1>1. /\ stack # <<>>
        /\ Top.at \in {"reload", "load_file", "load_text", "open_after_load", "new_doc_after_save_as"}
    BY DEF Loading, Reload, LoadFile, LoadText, OpenAfterLoad, NewDocAfterSaveAs, At, Top
  <1>2. /\ Top \in Frame /\ D \in Docs /\ doc[D] \in Doc /\ Top.data \in Texts
        /\ doc[D].filename \in Files \cup {NoFile}
        /\ Top.at \in OnFile => Top.file \in Files
        /\ Top.at \notin OfAutoSync
        /\ contents \in [Files -> Texts]
    BY <1>1, OpenOnTop DEF Frames, Frame, Doc, Inv, TypeOK
  <1>3. CASE Reload
    <2>1. DocsFollow /\ UNCHANGED <<timers, autoSync, fault>> /\ Top.at = "reload"
      BY <1>3 DEF Reload, DocsFollow, At, Top
    <2>2. CASE doc[D].filename = NoFile
      BY <1>1, <1>3, <2>1, <2>2, ReturnSound DEF Reload, Return
    <2>3. CASE doc[D].filename # NoFile
      <3>1. PICK a \in {"reload_modified_dialog", "load_file"} :
              Goto([Top EXCEPT !.file = doc[D].filename, !.at = a])
        BY <1>3, <2>3 DEF Reload
      <3>2. [Top EXCEPT !.file = doc[D].filename, !.at = a]
              = [Top EXCEPT !.at = a, !.file = doc[D].filename, !.data = Top.data]
        BY <1>2 DEF Frame
      <3> QED
        BY <1>1, <1>2, <2>1, <2>3, <3>1, <3>2, WentSound
    <2> QED
      BY <2>2, <2>3
  <1>4. CASE LoadFile
    <2>1. UNCHANGED <<timers, autoSync, fault>> /\ Top.at = "load_file" /\ Top.file \in Files
      BY <1>2, <1>4 DEF LoadFile, At, Top
    <2>2. CASE Exists(Top.file)
      <3>1. PICK a \in {"try_encoding_dialog", "load_text"} :
              Goto([Top EXCEPT !.data = contents[Top.file], !.at = a])
        BY <1>4, <2>2 DEF LoadFile
      <3>2. [Top EXCEPT !.data = contents[Top.file], !.at = a]
              = [Top EXCEPT !.at = a, !.file = Top.file, !.data = contents[Top.file]]
            /\ contents[Top.file] \in Texts
        BY <1>2, <2>1 DEF Frame
      <3>3. DocsFollow
        BY <1>4, <2>2 DEF LoadFile, DocsFollow
      <3> QED
        BY <1>1, <1>2, <2>1, <3>1, <3>2, <3>3, WentSound
    <2>3. CASE ~Exists(Top.file)
      <3>1. Goto([Top EXCEPT !.at = "load_error_dialog"])
        BY <1>4, <2>3 DEF LoadFile
      <3>2. DocsFollow
        BY <1>2, <1>4, <2>3, UnwatchedFollows DEF LoadFile
      <3> QED
        BY <1>1, <2>1, <3>1, <3>2, OnSound
    <2> QED
      BY <2>2, <2>3
  <1>5. CASE OpenAfterLoad
    <2>1. /\ Top.at = "open_after_load" /\ stack' = Tail(stack) /\ UNCHANGED <<autoSync, ret, fault>>
      BY <1>5 DEF OpenAfterLoad, At, Top
    <2>2. CASE ret
      BY <1>1, <1>5, <2>1, <2>2, ReturnSound DEF OpenAfterLoad, DocsFollow
    <2>3. CASE ~ret
      <3>1. StopFileWatch(D, ClosedDoc) /\ timers' = RemoveTimer(doc[D].sync_timeout_id)
        BY <1>5, <2>3 DEF OpenAfterLoad
      <3>2. /\ ManualStack(stack) /\ 1 \in 1 .. Len(stack) /\ FrameOK(doc, stack[1])
            /\ stack[1].at = "open_after_load"
        BY <1>1, <2>1, OpenOnTop DEF ManualInv, StackOpen, Top
      <3>3. \A k \in 1 .. Len(stack) : k # 1 => stack[k].doc # D
        <4> TAKE k \in 1 .. Len(stack)
        <4> HAVE k # 1
        <4>1. k > 1
          OBVIOUS
        <4> QED
          BY <3>2, <4>1 DEF ManualStack, D, Top
      <3>4. doc[D].text = doc[D].saved
        BY <1>2, <3>2 DEF FrameOK, D, Top
      <3> QED
        BY <1>1, <1>2, <2>1, <3>1, <3>3, <3>4, ClosedManual
    <2> QED
      BY <2>2, <2>3
  <1>6. ~NewDocAfterSaveAs
    BY <1>2 DEF NewDocAfterSaveAs, At, Top
  <1> QED
    BY <1>3, <1>4, <1>5, <1>6, LoadTextManual DEF Loading

\* Every step of close_docs_real: do_close_doc runs once nothing is unsaved, or the
\* user has said so.
LEMMA ClosingManual ==
  ASSUME Inv, ManualInv, Closing
  PROVE  ManualSound
  <1>1. stack # <<>> /\ Top.at \in {"close", "close_after_save", "do_close_doc"}
    BY DEF Closing, Close, CloseAfterSave, DoCloseDoc, WindowEmptied, At, Top
  <1>2. /\ Top \in Frame /\ D \in Docs /\ DocOK(doc[D]) /\ Top.data \in Texts
        /\ Top.file \in Files \cup {NoFile} /\ TopOK
    BY <1>1, OpenOnTop DEF Frames, Frame, ManualInv
  <1>3. ASSUME NEW a \in {"save_changes_dialog", "do_close_doc"}, Goto([Top EXCEPT !.at = a]),
               a = "do_close_doc" => doc[D].text = doc[D].saved \/ "CLEAN" \in doc[D].status,
               UNCHANGED <<doc, timers, autoSync, fault>>
        PROVE  ManualSound
    <2>1. DocsFollow
      BY <1>3 DEF DocsFollow
    <2> QED
      BY <1>1, <1>3, <2>1, OnSound
  <1>4. CASE Close
    BY <1>2, <1>3, <1>4 DEF Close, NeedsPrompt, DocOK
  <1>5. CASE CloseAfterSave
    <2>1. Top.at = "close_after_save" /\ UNCHANGED <<doc, timers, autoSync, fault>> /\ DocsFollow
      BY <1>5 DEF CloseAfterSave, At, Top, DocsFollow
    <2>2. CASE ret
      <3>1. doc[D].text = doc[D].saved
        BY <1>1, <1>2, <2>1, <2>2 DEF TopOK
      <3> QED
        BY <1>3, <1>5, <2>1, <2>2, <3>1 DEF CloseAfterSave
    <2>3. CASE ~ret
      BY <1>1, <1>5, <2>1, <2>3, ReturnSound DEF CloseAfterSave, Return
    <2> QED
      BY <2>2, <2>3
  <1>6. CASE DoCloseDoc
    <2>1. /\ Top.at = "do_close_doc" /\ stack' = Tail(stack) /\ UNCHANGED <<autoSync, fault>>
          /\ StopFileWatch(D, ClosedDoc) /\ timers' = RemoveTimer(doc[D].sync_timeout_id)
      BY <1>6 DEF DoCloseDoc, At, Top, Return
    <2>2. ManualStack(stack) /\ 1 \in 1 .. Len(stack) /\ stack[1].at \in Closers
      BY <1>1, <2>1, OpenOnTop DEF Top
    <2>3. Outermost(stack, 1) /\ Len(stack) \in Nat
      BY <2>2, OpenOnTop, LenProperties, <1>1 DEF ManualStack, GoodStack
    <2>4. \A k \in 1 .. Len(stack) : k # 1 => stack[k].doc # D
      <3>1. \A k \in 1 .. Len(stack) : k = 1 \/ stack[k].at = "close_all"
        BY <2>3 DEF Outermost
      <3> QED
        BY <1>2, <2>2, <3>1 DEF ManualStack
    <2> QED
      BY <1>1, <1>2, <2>1, <2>4, ClosedManual DEF TopOK
  <1>7. ~WindowEmptied
    BY <1>1, <1>2, OpenOnTop DEF WindowEmptied
  <1> QED
    BY <1>4, <1>5, <1>6, <1>7 DEF Closing

\* Every step of a quit, which comes from the outermost main loop: it has nothing
\* below it that could find its document closed.
LEMMA CloseAllManual ==
  ASSUME Inv, ManualInv, CloseAll
  PROVE  ManualSound
  <1>1. stack # <<>> /\ Top.at = "close_all"
    BY DEF CloseAll, CloseWindow, QuitCancelled, DoQuit, At, Top
  <1>2. ASSUME NEW d \in Docs, CloseWindow(d) PROVE ManualSound
    <2> DEFINE f == Call("close", d)
    <2>1. f \in Frames /\ f.at = "close" /\ f.doc = d
      BY CallFrame
    <2>2. Push(f) /\ doc[d].open /\ UNCHANGED <<doc, timers, autoSync, fault>>
      BY <1>2 DEF CloseWindow
    <2> HIDE DEF f
    <2> QED
      BY <1>1, <2>1, <2>2, PushSound
  <1>3. CASE QuitCancelled \/ DoQuit
    <2>1. stack' = Tail(stack) /\ UNCHANGED <<doc, autoSync>>
      BY <1>3 DEF QuitCancelled, DoQuit, Return
    <2>2. UNCHANGED <<timers, fault>>
      <3>1. CASE QuitCancelled
        BY <3>1 DEF QuitCancelled
      <3>2. CASE DoQuit
        <4>1. /\ GoodStack(stack) /\ ManualStack(stack) /\ 1 \in 1 .. Len(stack)
              /\ stack[1].at = "close_all"
          BY <1>1, OpenOnTop DEF Top
        <4>2. Len(stack) = 1
          BY <4>1 DEF ManualStack
        <4>3. Tail(stack) = <<>>
          BY <1>1, <4>1, <4>2, Popped, EmptySeq
        <4>4. timers' = [t \in Timers |-> NoDoc] /\ UNCHANGED fault
          BY <3>2, <4>3 DEF DoQuit
        <4>5. timers = [t \in Timers |-> NoDoc]
          BY DEF Inv, TypeOK, ManualInv
        <4> QED
          BY <4>4, <4>5
      <3> QED
        BY <1>3, <3>1, <3>2
    <2> QED
      BY <1>1, <2>1, <2>2, ReturnSound DEF DocsFollow
  <1> QED
    BY <1>2, <1>3 DEF CloseAll

(***************************************************************************)
(* Answers of the user                                                     *)
(***************************************************************************)
\* "Save" in the dialog about closing: the caller waits for the result.
LEMMA SaveFirstManual ==
  ASSUME Inv, ManualInv, AnswerSaveChanges("save")
  PROVE  ManualSound
  <1> DEFINE f == Call("save", D)
             g == [Top EXCEPT !.at = "close_after_save"]
  <1>1. /\ stack # <<>> /\ Top.at = "save_changes_dialog" /\ UNCHANGED <<doc, timers, autoSync, fault>>
        /\ stack' = <<f, g>> \o Tail(stack)
    BY DEF AnswerSaveChanges, Asking, Top
  <1>2. /\ GoodStack(stack) /\ ManualStack(stack) /\ Top \in Frames /\ D \in Docs /\ doc[D].open
        /\ DocsFollow
    BY <1>1, OpenOnTop DEF DocsFollow
  <1>3. f \in Frames /\ f.at = "save" /\ f.doc = D
    BY <1>2, CallFrame
  <1>4. g \in SuspendedFrames /\ g.at = "close_after_save" /\ g.doc = D
    BY <1>2 DEF Frames, Frame, SuspendedFrames, Suspended, D
  <1> HIDE DEF f, g
  <1>5. Made({f, g})
    BY <1>1, <1>2, <1>3, <1>4, SaveMade
  <1>6. Top' = f
    BY <1>1, <1>2, <1>3, <1>4, WentTwo
  <1>7. TopOK'
    BY <1>3, <1>6 DEF TopOK
  <1>8. FrameOK(doc', f) /\ FrameOK(doc', g)
    BY <1>1, <1>2, <1>3, <1>4 DEF FrameOK
  <1> QED
    BY <1>1, <1>2, <1>5, <1>7, <1>8, FollowedSound DEF DocsFollow

\* Every answer to a dialog.
LEMMA AnswersManual ==
  ASSUME Inv, ManualInv, Answers
  PROVE  ManualSound
  <1>1. stack # <<>> /\ Top.at \in Dialogs
    BY DEF Answers, AnswerOverwriteModified, AnswerReloadModified, AnswerSaveErrorEnc,
           AnswerSaveAs, AnswerSaveChanges, AcknowledgeSaveError, AcknowledgeLoadError,
           AnswerTryEncoding, CancelTryEncoding, Asking, Top
  <1>2. /\ Top \in Frames /\ Top \in Frame /\ D \in Docs
        /\ Top.at \in OnFile => Top.file \in Files
        /\ Top.data \in Texts
    BY <1>1, OpenOnTop DEF Frames, Frame
  <1>3. UNCHANGED doc => DocsFollow
    BY DEF DocsFollow
  <1>4. ASSUME NEW yes \in BOOLEAN, AnswerOverwriteModified(yes) PROVE ManualSound
    <2>1. /\ Top.at = "overwrite_modified_dialog" /\ DocsFollow
          /\ UNCHANGED <<timers, autoSync, fault>>
      BY <1>3, <1>4 DEF AnswerOverwriteModified, Asking, Top
    <2>2. Goto([Top EXCEPT !.at = "do_save"]) \/ (stack' = Tail(stack) /\ ret' = FALSE)
      BY <1>4 DEF AnswerOverwriteModified, Return
    <2> QED
      BY <1>1, <1>2, <2>1, <2>2, OnSound, ReturnSound
  <1>5. ASSUME NEW yes \in BOOLEAN, AnswerReloadModified(yes) PROVE ManualSound
    <2>1. /\ Top.at = "reload_modified_dialog" /\ DocsFollow
          /\ UNCHANGED <<timers, autoSync, fault>>
      BY <1>3, <1>5 DEF AnswerReloadModified, Asking, Top
    <2>2. Goto([Top EXCEPT !.at = "load_file"]) \/ (stack' = Tail(stack) /\ ret' = FALSE)
      BY <1>5 DEF AnswerReloadModified, Return
    <2> QED
      BY <1>1, <1>2, <2>1, <2>2, OnSound, ReturnSound
  <1>6. ASSUME NEW yes \in BOOLEAN, AnswerSaveErrorEnc(yes) PROVE ManualSound
    <2>1. /\ Top.at = "save_error_enc_dialog" /\ DocsFollow
          /\ UNCHANGED <<timers, autoSync, fault>>
      BY <1>3, <1>6 DEF AnswerSaveErrorEnc, Asking, Top
    <2>2. Goto([Top EXCEPT !.at = "save_utf8"]) \/ (stack' = Tail(stack) /\ ret' = FALSE)
      BY <1>6 DEF AnswerSaveErrorEnc, Return
    <2> QED
      BY <1>1, <1>2, <2>1, <2>2, OnSound, ReturnSound
  <1>7. ASSUME NEW f \in Files \cup {NoFile}, AnswerSaveAs(f) PROVE ManualSound
    <2>1. /\ Top.at = "save_as_dialog" /\ DocsFollow /\ UNCHANGED <<timers, autoSync, fault>>
      BY <1>3, <1>7 DEF AnswerSaveAs, Asking, Top
    <2>2. CASE f \in Files
      <3> DEFINE t == [Top EXCEPT !.at = "do_save", !.file = f]
      <3>1. Goto(t)
        BY <1>7, <2>2 DEF AnswerSaveAs
      <3>2. t \in Frames /\ t.at = "do_save" /\ t.doc = D
        BY <1>2, <2>2 DEF Frames, Frame, D
      <3> HIDE DEF t
      <3> QED
        BY <1>1, <1>2, <2>1, <3>1, <3>2, GoSound
    <2>3. CASE f \notin Files
      BY <1>1, <1>7, <2>1, <2>3, ReturnSound DEF AnswerSaveAs, Return
    <2> QED
      BY <2>2, <2>3
  <1>8. ASSUME NEW answer \in {"discard", "cancel"}, AnswerSaveChanges(answer) PROVE ManualSound
    <2>1. /\ Top.at = "save_changes_dialog" /\ DocsFollow /\ UNCHANGED <<timers, autoSync, fault>>
      BY <1>3, <1>8 DEF AnswerSaveChanges, Asking, Top
    <2>2. CASE answer = "discard"
      <3> DEFINE t == [Top EXCEPT !.at = "do_close_doc", !.code = answer]
      <3>1. Goto(t)
        BY <1>8, <2>2 DEF AnswerSaveChanges
      <3>2. t \in Frames /\ t.at = "do_close_doc" /\ t.doc = D /\ t.code = "discard"
        BY <1>2, <2>2 DEF Frames, Frame, D
      <3> HIDE DEF t
      <3> QED
        BY <1>1, <1>2, <2>1, <3>1, <3>2, GoSound
    <2>3. CASE answer = "cancel"
      BY <1>1, <1>8, <2>1, <2>3, ReturnSound DEF AnswerSaveChanges, Return
    <2> QED
      BY <2>2, <2>3
  <1>9. CASE AcknowledgeSaveError \/ AcknowledgeLoadError
    <2>1. /\ stack' = Tail(stack) /\ ret' = FALSE /\ UNCHANGED <<doc, timers, autoSync, fault>>
      BY <1>9 DEF AcknowledgeSaveError, AcknowledgeLoadError, Return
    <2> QED
      BY <1>1, <1>3, <2>1, ReturnSound
  <1>10. CASE AnswerTryEncoding
    <2>1. /\ Top.at = "try_encoding_dialog" /\ DocsFollow /\ UNCHANGED <<timers, autoSync, fault>>
          /\ Goto([Top EXCEPT !.at = "load_text"])
      BY <1>3, <1>10 DEF AnswerTryEncoding, Asking, Top
    <2> QED
      BY <1>1, <1>2, <2>1, OnSound
  <1>11. CASE CancelTryEncoding
    <2>1. /\ StopFileWatch(D, doc[D]) /\ stack' = Tail(stack) /\ ret' = FALSE
          /\ UNCHANGED <<timers, autoSync, fault>>
      BY <1>11 DEF CancelTryEncoding, Return
    <2>2. DocsFollow
      BY <1>2, <2>1, UnwatchedFollows
    <2> QED
      BY <1>1, <2>1, <2>2, ReturnSound
  <1> QED
    BY <1>4, <1>5, <1>6, <1>7, <1>8, <1>9, <1>10, <1>11, SaveFirstManual DEF Answers

(***************************************************************************)
(* The poll of the file watch                                              *)
(***************************************************************************)
\* A step that leaves handlers and documents alone.
LEMMA StaySound ==
  ASSUME ManualInv, UNCHANGED <<doc, timers, autoSync, stack, ret, fault>>
  PROVE  ManualSound
  BY DEF ManualSound, ManualInv, StackOpen, TopOK, Top, D, NotLost, FlaggedByEvent

\* do_stat reports an event of a monitor to its document, which is open.
LEMMA PollMonitorManual ==
  ASSUME Inv, ManualInv, Inv', NEW i \in Ids, PollMonitor(i)
  PROVE  ManualSound
  <1>1. /\ stack # <<>> /\ Top.at = "do_stat" /\ UNCHANGED <<doc, timers, autoSync, ret, fault>>
        /\ TypeOK /\ GoodStack(stack) /\ Owners
    BY DEF PollMonitor, At, Top, Inv
  <1>2. CASE EventCode(i) = "none"
    BY <1>1, <1>2, StaySound DEF PollMonitor
  <1>3. CASE EventCode(i) # "none"
    <2> DEFINE f == CallbackFrame(i)
    <2>1. Top' = f /\ OnCallback'
      BY <1>1, <1>3, PollingStack DEF Polling
    <2>2. f.doc \in Docs /\ doc[f.doc].open
      BY <1>1, <2>1 DEF Inv, CallbackOK, D
    <2>3. Push(f)
      BY <1>3 DEF PollMonitor, CallbackFrame
    <2>4. EventCode(i) \in {"changed", "deleted", "error"}
      BY <1>3 DEF EventCode
    <2>5. f \in Frames /\ f.at = "file_watch_callback"
      BY <2>2, <2>4, DocSyncAssumption DEF DocSyncAssumption, CallbackFrame, Call, Frames, Frame
    <2> HIDE DEF f
    <2> QED
      BY <1>1, <2>2, <2>3, <2>5, PushSound
  <1> QED
    BY <1>2, <1>3

\* A document is flagged by the event that is being reported: what an earlier
\* one left behind is gone.
LEMMA FileWatchCallbackManual ==
  ASSUME Inv, ManualInv, FileWatchCallback
  PROVE  ManualSound
  <1> DEFINE r == Noted(D, Top.code)
             c == Top.code
  <1>1. /\ stack # <<>> /\ Top.at = "file_watch_callback" /\ UNCHANGED <<timers, autoSync, fault>>
    BY DEF FileWatchCallback, At, Top
  <1>2. /\ GoodStack(stack) /\ ManualStack(stack) /\ D \in Docs /\ doc[D] \in Doc /\ DocOK(doc[D])
        /\ doc \in [Docs -> Doc] /\ autoSync = FALSE /\ TypeOK
    BY <1>1, OpenOnTop DEF ManualInv, Inv, TypeOK
  <1>3. /\ r \in Doc /\ r.status = doc[D].status /\ r.open = doc[D].open
        /\ r.text = doc[D].text /\ r.saved = doc[D].saved /\ r.buf_modified = doc[D].buf_modified
        /\ r.sync_timeout_id = doc[D].sync_timeout_id
        /\ r.modified_on_disk = (c = "changed") /\ r.deleted_from_disk = (c = "deleted")
    <2>1. /\ r \in Doc /\ r.status = doc[D].status /\ r.open = doc[D].open
          /\ r.sync_timeout_id = doc[D].sync_timeout_id
      BY <1>2, NotedType
    <2>2. /\ r.text = doc[D].text /\ r.saved = doc[D].saved /\ r.buf_modified = doc[D].buf_modified
          /\ r.modified_on_disk = (doc[D].modified_on_disk \/ c = "changed")
          /\ r.deleted_from_disk = (doc[D].deleted_from_disk \/ c = "deleted")
      BY <1>2 DEF Noted, Doc
    <2> QED
      BY <1>2, <2>1, <2>2 DEF DocOK
  <1>4. \/ stack' = Tail(stack) /\ UNCHANGED doc
        \/ /\ stack' = Tail(stack) /\ doc' = [doc EXCEPT ![D] = r]
           /\ ~(r.deleted_from_disk \/ r.modified_on_disk)
        \/ /\ stack' = Tail(stack) /\ doc' = [doc EXCEPT ![D] = Flagged(r)]
           /\ r.deleted_from_disk \/ r.modified_on_disk
    BY <1>2 DEF FileWatchCallback
  <1> HIDE DEF r, c
  <1>5. CASE stack' = Tail(stack) /\ UNCHANGED doc
    BY <1>1, <1>5, ReturnSound DEF DocsFollow
  <1>6. CASE /\ stack' = Tail(stack) /\ doc' = [doc EXCEPT ![D] = r]
             /\ ~(r.deleted_from_disk \/ r.modified_on_disk)
    <2>1. Follows(r, doc[D])
      BY <1>2, <1>3, <1>6 DEF Follows, DocOK
    <2>2. DocsFollow
      BY <1>2, <1>6, <2>1 DEF DocsFollow
    <2> QED
      BY <1>1, <1>6, <2>2, ReturnSound
  <1>7. CASE /\ stack' = Tail(stack) /\ doc' = [doc EXCEPT ![D] = Flagged(r)]
             /\ r.deleted_from_disk \/ r.modified_on_disk
    <2> DEFINE s == Flagged(r)
               flag == IF r.deleted_from_disk THEN "DELETED" ELSE "MODIFIED_ON_DISK"
               st == r.status \cup {flag}
    <2>1. st \in SUBSET StatusFlags /\ ("MODIFIED" \in st <=> "MODIFIED" \in r.status)
      BY <1>3 DEF Doc, StatusFlags
    <2>2. s = [r EXCEPT !.modified_on_disk = FALSE, !.deleted_from_disk = FALSE,
                        !.file_monitor_id = 0, !.status = st]
      BY <1>3 DEF Flagged, Doc
    <2> HIDE DEF s, st
    <2>3. /\ s.status = st /\ s.modified_on_disk = FALSE /\ s.deleted_from_disk = FALSE
          /\ s.text = r.text /\ s.saved = r.saved /\ s.open = r.open
          /\ s.buf_modified = r.buf_modified /\ s.sync_timeout_id = r.sync_timeout_id
      BY <1>3, <2>1, <2>2 DEF Doc
    <2>4. DocOK(s)
      BY <1>2, <1>3, <2>1, <2>3 DEF DocOK
    <2>5. doc'[D] = s /\ \A d \in Docs \ {D} : doc'[d] = doc[d]
      BY <1>2, <1>7 DEF s
    <2>6. Made({}) /\ TopOK'
      BY <1>1, <1>2, <1>7, PopMade, TopReturned
    <2>7. StackOpen'
      BY <1>3, <2>3, <2>5, <2>6, StackStaysOpen DEF ManualInv
    <2>8. FlaggedByEvent(D)
      <3>1. /\ flag = "DELETED" => c = "deleted"
            /\ flag = "MODIFIED_ON_DISK" => c = "changed"
        BY <1>3, <1>7
      <3> HIDE DEF flag
      <3>2. doc'[D].status \ doc[D].status \subseteq {flag}
        BY <1>3, <2>3, <2>5 DEF st
      <3> QED
        BY <3>1, <3>2 DEF FlaggedByEvent, c
    <2>9. \A d \in Docs : NotLost(d) /\ FlaggedByEvent(d)
      BY <1>3, <2>3, <2>5, <2>8 DEF NotLost, FlaggedByEvent
    <2>10. \A d \in Docs : DocOK(doc'[d])
      BY <2>4, <2>5 DEF ManualInv
    <2> QED
      BY <1>1, <2>6, <2>7, <2>9, <2>10 DEF ManualSound, ManualInv, Made
  <1> QED
    BY <1>4, <1>5, <1>6, <1>7

\* Every step of a poll.
LEMMA PollingManual ==
  ASSUME Inv, ManualInv, Inv', Polling
  PROVE  ManualSound
  <1>1. CASE StartPoll
    <2> DEFINE f == Call("do_stat", NoDoc)
    <2>1. f \in Frames /\ f.at = "do_stat" /\ f.doc \notin Docs
      BY DocSyncAssumption, NoDocDistinct DEF DocSyncAssumption, Call, Frames, Frame
    <2>2. Push(f) /\ (stack = <<>> \/ Top.at \in Dialogs) /\ UNCHANGED <<doc, timers, autoSync, fault>>
      BY <1>1 DEF StartPoll, MainLoop, Top
    <2> HIDE DEF f
    <2> QED
      BY <2>1, <2>2, PushSound
  <1>2. CASE FinishPoll
    <2>1. /\ stack # <<>> /\ Top.at = "do_stat" /\ stack' = Tail(stack)
          /\ UNCHANGED <<doc, timers, autoSync, fault>>
      BY <1>2 DEF FinishPoll, At, Top
    <2> QED
      BY <2>1, ReturnSound DEF DocsFollow
  <1> QED
    BY <1>1, <1>2, PollMonitorManual, FileWatchCallbackManual DEF Polling

(***************************************************************************)
(* The user and other processes                                            *)
(***************************************************************************)
\* While no handler is in progress a document may be edited as well.
LEMMA IdleSound ==
  ASSUME Inv, ManualInv, stack = <<>>, UNCHANGED <<timers, autoSync, stack, ret, fault>>,
         NEW d \in Docs, NEW r, doc' = [doc EXCEPT ![d] = r],
         DocOK(r), doc[d].open => r.open, r.status \cap CHANGED_ON_DISK \subseteq doc[d].status
  PROVE  ManualSound
  <1>1. doc'[d] = r /\ \A e \in Docs \ {d} : doc'[e] = doc[e]
    BY DEF Inv, TypeOK
  <1>2. StackOpen' /\ TopOK' /\ ManualStack(stack')
    BY DEF StackOpen, TopOK, ManualInv
  <1>3. \A e \in Docs : DocOK(doc'[e])
    BY <1>1 DEF ManualInv
  <1>4. \A e \in Docs : NotLost(e) /\ FlaggedByEvent(e)
    BY <1>1 DEF NotLost, FlaggedByEvent, CHANGED_ON_DISK
  <1> QED
    BY <1>2, <1>3, <1>4 DEF ManualSound, ManualInv

\* moo_editor_load_file for a file no document is open for.
LEMMA OpenFileManual ==
  ASSUME Inv, ManualInv, NEW d \in Docs, NEW file \in Files, NEW create \in BOOLEAN,
         OpenFile(d, file, create)
  PROVE  ManualSound
  <1> DEFINE new == ~doc[d].open
             r == IF new THEN FreshDoc ELSE doc[d]
             s == [r EXCEPT !.status = {"NEW"}, !.filename = file]
             f == [Call("load_file", d) EXCEPT !.file = file]
             g == Call("open_after_load", d)
  <1>1. /\ stack = <<>> \/ Top.at \in Dialogs
        /\ UNCHANGED <<timers, autoSync, ret, fault>>
        /\ new => Unreferenced(d)
        /\ ~new => Empty(d)
    BY DEF OpenFile, MainLoop, Top
  <1>2. /\ GoodStack(stack) /\ ManualStack(stack) /\ doc \in [Docs -> Doc] /\ doc[d] \in Doc
        /\ DocOK(doc[d])
    BY DEF Inv, TypeOK, ManualInv
  <1>3. /\ r \in Doc /\ DocOK(r) /\ r.open /\ r.text = r.saved /\ "MODIFIED" \notin r.status
        /\ r.buf_modified = FALSE /\ r.status \cap CHANGED_ON_DISK \subseteq doc[d].status
    <2>1. CASE new
      BY <2>1, FreshTypes DEF FreshDoc, DocOK
    <2>2. CASE ~new
      BY <1>1, <1>2, <2>2 DEF Empty, DocOK, Doc
    <2> QED
      BY <2>1, <2>2
  <1>4. CASE create /\ fs[file].err = "ENOENT"
    <2>1. doc' = [doc EXCEPT ![d] = s] /\ UNCHANGED stack
      BY <1>4 DEF OpenFile
    <2>2. Follows(s, doc[d])
      <3> HIDE DEF r
      <3>1. /\ s.open /\ s.text = s.saved /\ s.status = {"NEW"} /\ s.buf_modified = FALSE
            /\ s.modified_on_disk = r.modified_on_disk /\ s.deleted_from_disk = r.deleted_from_disk
            /\ s.sync_timeout_id = r.sync_timeout_id
        BY <1>3 DEF Doc
      <3> QED
        BY <1>3, <3>1 DEF Follows, DocOK, CHANGED_ON_DISK
    <2> HIDE DEF s, r
    <2>3. DocsFollow
      BY <1>2, <2>1, <2>2 DEF DocsFollow
    <2>4. Made({}) /\ TopOK'
      BY <1>1, <1>2, <2>1 DEF Made, TopOK, Top
    <2> QED
      BY <1>1, <2>3, <2>4, FollowedSound DEF DocsFollow
  <1>5. /\ f \in Frames /\ f.at = "load_file" /\ f.doc = d
        /\ g \in Frames /\ g.at = "open_after_load" /\ g.doc = d
    BY CallFrame, DocSyncAssumption DEF DocSyncAssumption, Call, Frames, Frame
  <1>6. CASE ~(create /\ fs[file].err = "ENOENT") /\ new
    <2>1. doc' = [doc EXCEPT ![d] = r] /\ stack' = (<<f>> \o <<g>>) \o stack
      BY <1>6 DEF OpenFile
    <2>2. \A k \in 1 .. Len(stack) : stack[k].doc # d
      BY <1>1, <1>6 DEF Unreferenced
    <2>3. ~doc[d].open /\ doc[d].text \in Texts
      BY <1>2, <1>6 DEF Doc
    <2> HIDE DEF f, g, r, new
    <2>4. Made({f, g}) /\ Top' = f
      BY <1>1, <1>2, <1>5, <2>1, <2>2, OpenMade
    <2>5. doc'[d] = r /\ \A e \in Docs \ {d} : doc'[e] = doc[e]
      BY <1>2, <2>1
    <2>6. FrameOK(doc', f) /\ FrameOK(doc', g)
      BY <1>3, <1>5, <2>5 DEF FrameOK
    <2>7. DocsFollow
      BY <1>3, <2>3, <2>5 DEF DocsFollow, Follows
    <2>8. TopOK'
      BY <1>5, <2>4 DEF TopOK
    <2> QED
      BY <1>1, <2>4, <2>6, <2>7, <2>8, FollowedSound DEF DocsFollow
  <1>7. CASE ~(create /\ fs[file].err = "ENOENT") /\ ~new
    <2>1. doc' = [doc EXCEPT ![d] = doc[d]] /\ stack' = (<<f>> \o <<>>) \o stack
      BY <1>7 DEF OpenFile
    <2>2. doc' = doc /\ doc[d].open
      BY <1>2, <1>7, <2>1
    <2> HIDE DEF f
    <2>3. Push(f)
      BY <1>5, <2>1, TwoFrames DEF Push
    <2> QED
      BY <1>1, <1>5, <2>2, <2>3, PushSound
  <1> QED
    BY <1>4, <1>6, <1>7

\* No quit comes while a handler is in progress.
LEMMA QuitIdle ==
  ASSUME ManualOnly, GoodStack(stack), Quit
  PROVE  stack = <<>>
  <1> DEFINE S == {k \in DOMAIN stack : stack[k].at # "close_all"}
  <1>1. Len(stack) \in Nat /\ DOMAIN stack = 1 .. Len(stack)
    BY LenProperties DEF GoodStack
  <1>2. S = 1 .. Len(stack)
    BY <1>1 DEF Quit, Quitting
  <1>3. Cardinality(S) < QuitDepth /\ QuitDepth <= 1 /\ QuitDepth \in Nat
    BY DocSyncAssumption DEF DocSyncAssumption, Quit, Depth, ManualOnly
  <1>4. IsFiniteSet(1 .. Len(stack)) /\ Cardinality(1 .. Len(stack)) = Len(stack)
    <2> DEFINE n == Len(stack)
    <2>1. n \in Nat
      BY <1>1
    <2> HIDE DEF n
    <2>2. 1 \in Int /\ n \in Int
      BY <2>1
    <2>3. IsFiniteSet(1 .. n) /\ Cardinality(1 .. n) = IF 1 > n THEN 0 ELSE n - 1 + 1
      BY <2>2, FS_Interval
    <2>4. Cardinality(1 .. n) = n
      BY <2>1, <2>3
    <2> QED
      BY <2>3, <2>4 DEF n
  <1>6. Len(stack) < QuitDepth
    BY <1>2, <1>3, <1>4
  <1>5. Len(stack) = 0
    BY <1>1, <1>3, <1>6
  <1> QED
    BY <1>5, EmptySeq DEF GoodStack

\* A new document is known to no handler.
LEMMA NewUntitledManual ==
  ASSUME Inv, ManualInv, NEW d \in Docs, NewUntitled(d)
  PROVE  ManualSound
  <1>1. /\ ~doc[d].open /\ doc' = [doc EXCEPT ![d] = FreshDoc]
        /\ UNCHANGED <<timers, autoSync, stack, ret, fault>>
        /\ stack = <<>> \/ Top.at \in Dialogs
    BY DEF NewUntitled, Unreferenced, MainLoop, Top
  <1>2. doc'[d] = FreshDoc /\ \A e \in Docs \ {d} : doc'[e] = doc[e]
    BY <1>1 DEF Inv, TypeOK
  <1>3. Follows(FreshDoc, doc[d])
    BY <1>1 DEF Follows, FreshDoc, DocOK
  <1>4. Made({}) /\ TopOK'
    BY <1>1 DEF Made, TopOK, Top, ManualInv
  <1> QED
    BY <1>1, <1>2, <1>3, <1>4, FollowedSound

\* Every command of the user; the preference cannot be switched on.
LEMMA UserManual ==
  ASSUME ManualOnly, Inv, ManualInv, User
  PROVE  ManualSound
  <1>1. /\ doc \in [Docs -> Doc] /\ autoSync = FALSE
        /\ \A d \in Docs : doc[d] \in Doc /\ DocOK(doc[d])
    BY DEF Inv, TypeOK, ManualInv
  <1>2. ASSUME NEW d \in Docs, NewDoc(d) PROVE ManualSound
    <2>1. /\ stack = <<>> /\ UNCHANGED <<timers, autoSync, stack, ret, fault>>
          /\ doc' = [doc EXCEPT ![d] = FreshDoc]
      BY <1>1, <1>2 DEF NewDoc, Idle
    <2>2. DocOK(FreshDoc) /\ FreshDoc.open /\ FreshDoc.status = {}
      BY DEF FreshDoc, DocOK
    <2> QED
      BY <2>1, <2>2, IdleSound
  <1>3. ASSUME NEW d \in Docs, Reopen(d) PROVE ManualSound
    <2> DEFINE f == [Call("load_file", d) EXCEPT !.file = doc[d].filename]
    <2>1. doc[d].filename \in Files /\ doc[d].open
      BY <1>1, <1>3 DEF Reopen, Doc
    <2>2. f \in Frames /\ f.at = "load_file" /\ f.doc = d
      BY <2>1, DocSyncAssumption DEF DocSyncAssumption, Call, Frames, Frame
    <2>3. /\ Push(f) /\ (stack = <<>> \/ Top.at \in Dialogs)
          /\ UNCHANGED <<doc, timers, autoSync, fault>>
      BY <1>3 DEF Reopen, MainLoop, Top
    <2> HIDE DEF f
    <2> QED
      BY <2>1, <2>2, <2>3, PushSound
  <1>4. ASSUME NEW d \in Docs, UndoToSaved(d) PROVE ManualSound
    <2> DEFINE x == doc[d].saved
               s == [doc[d] EXCEPT !.text = x]
               st == doc[d].status \ {"MODIFIED"}
               r == [s EXCEPT !.buf_modified = FALSE, !.status = st]
    <2>1. /\ s \in Doc /\ s.text = x /\ s.saved = x /\ s.status = doc[d].status
          /\ s.open = doc[d].open /\ s.sync_timeout_id = doc[d].sync_timeout_id
          /\ s.modified_on_disk = doc[d].modified_on_disk
          /\ s.deleted_from_disk = doc[d].deleted_from_disk
      BY <1>1 DEF Doc
    <2>2. ModifiedChanged(s, FALSE) = r
      BY <1>1, <2>1 DEF ModifiedChanged
    <2>3. st \in SUBSET StatusFlags /\ "MODIFIED" \notin st /\ st \subseteq doc[d].status
      BY <1>1 DEF Doc
    <2>4. /\ stack = <<>> /\ UNCHANGED <<autoSync, stack, ret, fault>> /\ Changed(d, r)
      BY <1>4, <2>2 DEF UndoToSaved, Idle
    <2> HIDE DEF s, st
    <2>5. /\ r.text = s.text /\ r.saved = s.saved /\ r.status = st /\ r.open = s.open
          /\ r.buf_modified = FALSE /\ r.sync_timeout_id = s.sync_timeout_id
          /\ r.modified_on_disk = s.modified_on_disk /\ r.deleted_from_disk = s.deleted_from_disk
      BY <2>1, <2>3 DEF Doc
    <2> HIDE DEF r, x
    <2>6. DocOK(r)
      BY <1>1, <2>1, <2>3, <2>5 DEF DocOK
    <2>7. doc' = [doc EXCEPT ![d] = r] /\ timers' = timers
      BY <1>1, <2>4 DEF Changed
    <2> QED
      BY <2>1, <2>3, <2>4, <2>5, <2>6, <2>7, IdleSound
  <1>5. ASSUME NEW d \in Docs, NEW clean \in BOOLEAN, SetClean(d, clean) PROVE ManualSound
    <2> DEFINE st == IF clean THEN doc[d].status \cup {"CLEAN"} ELSE doc[d].status \ {"CLEAN"}
               r == [doc[d] EXCEPT !.status = st]
    <2>1. /\ stack = <<>> /\ UNCHANGED <<timers, autoSync, stack, ret, fault>>
          /\ doc' = [doc EXCEPT ![d] = r]
      BY <1>1, <1>5 DEF SetClean, Idle
    <2>2. /\ "MODIFIED" \in st <=> "MODIFIED" \in doc[d].status
          /\ st \cap CHANGED_ON_DISK \subseteq doc[d].status
      BY DEF CHANGED_ON_DISK
    <2> HIDE DEF st
    <2>3. /\ r.text = doc[d].text /\ r.saved = doc[d].saved /\ r.status = st /\ r.open = doc[d].open
          /\ r.buf_modified = doc[d].buf_modified /\ r.sync_timeout_id = doc[d].sync_timeout_id
          /\ r.modified_on_disk = doc[d].modified_on_disk
          /\ r.deleted_from_disk = doc[d].deleted_from_disk
      BY <1>1 DEF Doc
    <2> HIDE DEF r
    <2>4. DocOK(r)
      BY <1>1, <2>2, <2>3 DEF DocOK
    <2> QED
      BY <2>1, <2>2, <2>3, <2>4, IdleSound
  <1>6. ASSUME NEW d \in Docs, NEW c \in {"save", "save_as_dialog", "reload", "close"},
               UserCommand(d, c)
        PROVE  ManualSound
    <2> DEFINE f == Call(c, d)
    <2>1. f \in Frames /\ f.at = c /\ f.doc = d
      BY CallFrame
    <2>2. /\ stack = <<>> /\ stack' = <<f>> /\ doc[d].open
          /\ UNCHANGED <<doc, timers, autoSync, fault>>
      BY <1>6 DEF UserCommand, Idle
    <2> HIDE DEF f
    <2>3. Push(f)
      BY <2>1, <2>2, TwoFrames DEF Push
    <2> QED
      BY <2>1, <2>2, <2>3, PushSound
  <1>7. ASSUME NEW d \in Docs, NEW x \in Texts, Type(d, x) PROVE ManualSound
    <2> DEFINE r == Edited(doc[d], x)
    <2>1. /\ DocOK(r) /\ r.open = doc[d].open
          /\ r.status \cap CHANGED_ON_DISK = doc[d].status \cap CHANGED_ON_DISK
      BY <1>1, EditedOK
    <2>2. /\ stack = <<>> /\ UNCHANGED <<autoSync, stack, ret, fault>> /\ Changed(d, r)
      BY <1>7 DEF Type, Idle
    <2> HIDE DEF r
    <2>3. doc' = [doc EXCEPT ![d] = r] /\ timers' = timers
      BY <1>1, <2>2 DEF Changed
    <2> QED
      BY <2>1, <2>2, <2>3, IdleSound
  <1>8. \A b \in Prefs : ~SetPref(b)
    BY <1>1 DEF SetPref, ManualOnly
  <1>9. CASE Quit
    <2> DEFINE f == Call("close_all", NoDoc)
    <2>1. f \in Frames /\ f.at = "close_all" /\ f.doc \notin Docs
      BY DocSyncAssumption, NoDocDistinct DEF DocSyncAssumption, Call, Frames, Frame
    <2>2. stack = <<>> /\ Push(f) /\ UNCHANGED <<doc, timers, autoSync, fault>>
      BY <1>9, QuitIdle DEF Quit, Inv
    <2> HIDE DEF f
    <2> QED
      BY <2>1, <2>2, PushSound
  <1> QED
    BY <1>2, <1>3, <1>4, <1>5, <1>6, <1>7, <1>8, <1>9, OpenFileManual, NewUntitledManual DEF User

\* Nothing is left for the timers of auto sync and for closed documents to do.
LEMMA RestManual ==
  ASSUME Inv, ManualInv, Autosync \/ Others \/ UseAfterClose \/ UNCHANGED vars
  PROVE  ManualSound
  <1>1. ~Autosync
    <2>1. stack # <<>> => Top.at \notin OfAutoSync
      BY OpenOnTop
    <2> QED
      BY <2>1 DEF Autosync, TimerFires, AutosyncCallback, AutosyncAfterSave, At, Top, ManualInv
  <1>2. ~UseAfterClose
    <2>1. stack # <<>> /\ D \in Docs => doc[D].open
      BY OpenOnTop
    <2> QED
      BY <2>1 DEF UseAfterClose
  <1>3. CASE Others
    <2>1. UNCHANGED <<doc, timers, autoSync, stack, ret, fault>>
      BY <1>3 DEF Others, ExternalWrite, ExternalDelete, ExternalHide, TimePasses, docVars
    <2> QED
      BY <2>1, StaySound
  <1>4. CASE UNCHANGED vars
    <2>1. UNCHANGED <<doc, timers, autoSync, stack, ret, fault>>
      BY <1>4 DEF vars, docVars
    <2> QED
      BY <2>1, StaySound
  <1> QED
    BY <1>1, <1>2, <1>3, <1>4

(***************************************************************************)
(* Theorems                                                                *)
(***************************************************************************)
\* In the beginning no document is open, and auto sync is off.
LEMMA InitManual ==
  ASSUME ManualOnly, Init
  PROVE  ManualInv
  <1>1. /\ doc = [d \in Docs |-> ClosedDoc] /\ timers = [t \in Timers |-> NoDoc]
        /\ stack = <<>> /\ fault = "none" /\ autoSync = FALSE
    BY DEF Init, ManualOnly
  <1>2. DocOK(ClosedDoc)
    BY DEF DocOK, ClosedDoc, FreshDoc
  <1>3. ManualStack(stack) /\ StackOpen /\ TopOK
    BY <1>1 DEF ManualStack, StackOpen, TopOK
  <1> QED
    BY <1>1, <1>2, <1>3 DEF ManualInv

\* Every step keeps the invariant, loses no text and flags by the event.
LEMMA NextManual ==
  ASSUME ManualOnly, Inv, ManualInv, [Next]_vars
  PROVE  ManualSound
  <1>1. Inv'
    BY NextSound DEF Sound
  <1> QED
    BY <1>1, SavingManual, LoadingManual, ClosingManual, CloseAllManual, PollingManual, AnswersManual,
       UserManual, RestManual DEF Next

\* Without auto sync, and without a quit under a dialog: what documents, handlers
\* and the answers of the user are like in every state.
THEOREM ManualInvariant ==
  ASSUME ManualOnly
  PROVE  Spec => [](Inv /\ ManualInv)
  <1>1. Inv /\ ManualInv /\ [Next]_vars => ManualInv'
    BY NextManual DEF ManualSound
  <1>2. Init => ManualInv
    BY InitManual
  <1> QED
    BY <1>1, <1>2, DocSyncInvariant, PTL DEF Spec

\* As long as auto sync is off and a quit comes from the outermost main loop, no
\* handler goes on with a document that was closed while a dialog was open, and
\* do_close_doc never fails its assertion: polls, timers and requests to open
\* files, at any depth of nested main loops, close nothing but what they opened.
\* A quit that the main loop of a dialog dispatches does close the document of
\* the dialog, so the assumption about it cannot be done without.
THEOREM NoUseAfterClose ==
  ASSUME ManualOnly
  PROVE  Spec => []NoFault
  <1>1. ManualInv => NoFault
    BY DEF ManualInv, NoFault
  <1> QED
    BY <1>1, ManualInvariant, PTL

\* Under the same assumptions the flag MODIFIED, which closing and reloading go by, tells
\* whether there is text to save: modified_changed_cb, moo_edit_save_local and
\* moo_edit_load_text keep it so through strips, undo and nested reloads.
THEOREM ModifiedFlagHonest ==
  ASSUME ManualOnly
  PROVE  Spec => []ModifiedFlagTruthful
  <1>1. ManualInv => ModifiedFlagTruthful
    BY DEF ManualInv, ModifiedFlagTruthful, DocOK
  <1> QED
    BY <1>1, ManualInvariant, PTL

\* Under the same assumptions closing a document, by a command, by a quit or
\* because it could not be opened, drops no unsaved text the user was not asked
\* about: a save that comes before do_close_doc has saved the text the document
\* still has.  This is about closing only: moo_editor_load_file with
\* MOO_OPEN_FLAG_RELOAD (Reopen) reloads an open document without a question,
\* and unsaved text of a document that stays open is lost to it.
THEOREM NoTextLost ==
  ASSUME ManualOnly
  PROVE  Spec => NoSilentLoss
  <1>1. Inv /\ ManualInv /\ [Next]_vars => \A d \in Docs : NotLost(d)
    BY NextManual DEF ManualSound
  <1> QED
    BY <1>1, ManualInvariant, PTL DEF Spec, NoSilentLoss, NotLost

\* Under the same assumptions check_file_status flags a document for what is being
\* reported: the two booleans of an earlier event are always reset.
THEOREM FlagsAreNews ==
  ASSUME ManualOnly
  PROVE  Spec => FlagsFollowEvents
  <1>1. Inv /\ ManualInv /\ [Next]_vars => \A d \in Docs : FlaggedByEvent(d)
    BY NextManual DEF ManualSound
  <1> QED
    BY <1>1, ManualInvariant, PTL DEF Spec, FlagsFollowEvents, FlaggedByEvent
================================================================================
